---------------------- MODULE BindingGovernanceProofs ----------------------
(***************************************************************************)
(* The event log explains the rows, for any bindings, users and number of   *)
(* overlapping decisions.                                                   *)
(***************************************************************************)
EXTENDS BindingGovernance, TLAPS

Fields == {"pc", "op", "b", "new", "fp", "from"}

\* A request is about rows of the project, and the reference of a supersession
\* begins with the replacement.
DecisionsFit ==
  /\ DOMAIN decision = Decisions
  /\ \A d \in Decisions : LET r == decision[d] IN
       /\ Fields \subseteq DOMAIN r
       /\ r.pc # "idle" => r.b \in Bindings /\ r.new \in Bindings
       /\ r.op = "supersede" => r.fp[1] = r.new /\ r.b # r.new

\* The type and the reference of an event determine what it says, so an event
\* found by its reference says what the new one would have said.
Says(e) ==
  /\ e.type = "approved" => e.to = "trusted"
  /\ e.type = "rejected" => e.to = "rejected"
  /\ e.type = "reversed" => e.to = "reversed"
  /\ e.type = "superseded" => e.to = "superseded" /\ e.other = e.fp[1]
  /\ e.type = "superseding_acceptance" => e.to = "trusted" /\ e.other = e.fp[1]

EventsSay == \A b \in Bindings : \A e \in events[b] : Says(e)

GovernanceTyped ==
  /\ binding \in [Bindings -> Rows]
  /\ DOMAIN events = Bindings

GovernanceInv ==
  /\ GovernanceTyped
  /\ DecisionsFit
  /\ EventsSay
  /\ StatusIsRecorded
  /\ SupersessionIsPaired

-----------------------------------------------------------------------------
\* After record_event there is an event with that type and reference, and none
\* is lost.
LEMMA EventIsThere ==
  ASSUME EventsSay, NEW b \in Bindings, NEW type, NEW fp, NEW actor, NEW from, NEW to, NEW other,
         Says([type |-> type, fp |-> fp, actor |-> actor, from |-> from, to |-> to,
               other |-> other])
  PROVE  LET E == RecordEvent(b, type, fp, actor, from, to, other) IN
           /\ events[b] \subseteq E
           /\ \A e \in E : Says(e)
           /\ \E e \in E : e.type = type /\ e.fp = fp
BY DEF RecordEvent, FindExistingEvent, EventsSay

\* What is recorded of a decision stays recorded while events are added and no
\* status and no replacement changes.
LEMMA GrowingLogKeeps ==
  ASSUME StatusIsRecorded, SupersessionIsPaired, binding \in [Bindings -> Rows],
         \A b \in Bindings : events[b] \subseteq events'[b],
         UNCHANGED binding
  PROVE  StatusIsRecorded' /\ SupersessionIsPaired'
<1>1. \A b \in Bindings : binding[b].superseded_by \in Bindings \union {None}
  BY DEF Rows
<1> QED
  BY <1>1, DecisionAssumption DEF StatusIsRecorded, SupersessionIsPaired

\* A row gets a status that an event announces.
LEMMA AnnouncedStatusKeeps ==
  ASSUME StatusIsRecorded, SupersessionIsPaired, binding \in [Bindings -> Rows],
         \A a \in Bindings : events[a] \subseteq events'[a],
         NEW b \in Bindings, NEW row \in Rows,
         row.superseded_by \in {binding[b].superseded_by, None},
         binding' = [binding EXCEPT ![b] = row],
         \E e \in events'[b] : e.type \in DecisionTypes /\ e.to = row.status
  PROVE  StatusIsRecorded' /\ SupersessionIsPaired'
<1>1. \A a \in Bindings : binding[a].superseded_by \in Bindings \union {None}
  BY DEF Rows
<1>2. \A a \in Bindings : binding'[a].superseded_by \in {binding[a].superseded_by, None}
  BY DEF Rows
<1>3. StatusIsRecorded'
  BY DEF StatusIsRecorded
<1>4. SupersessionIsPaired'
  <2> SUFFICES ASSUME NEW a \in Bindings, NEW n, n = binding'[a].superseded_by, n # None
      PROVE  /\ \E e \in events'[a] : e.type = "superseded" /\ e.other = n
             /\ \E e \in events'[n] : e.type = "superseding_acceptance" /\ e.other = a
    BY DEF SupersessionIsPaired
  <2>1. n = binding[a].superseded_by /\ n \in Bindings
    BY <1>1, <1>2
  <2> QED BY <2>1 DEF SupersessionIsPaired
<1> QED BY <1>3, <1>4

-----------------------------------------------------------------------------
\* The requests.
LEMMA DecisionStep ==
  ASSUME GovernanceInv, [GovernanceNext]_governance
  PROVE  DecisionsFit'
<1> USE DEF DecisionsFit
<1>0. DecisionsFit
  BY DEF GovernanceInv
<1>a. Fields \subseteq DOMAIN Idle /\ Idle.pc = "idle" /\ Idle.op = "remove"
  BY DEF Idle, Fields
<1>b. ASSUME NEW d \in Decisions, Done(d) PROVE DecisionsFit'
  BY <1>0, <1>a, <1>b DEF Done
<1>c. ASSUME NEW d \in Decisions, NEW r, decision' = [decision EXCEPT ![d] = r],
             Fields \subseteq DOMAIN r, r.b = decision[d].b, r.new = decision[d].new,
             r.op = decision[d].op, r.fp = decision[d].fp, decision[d].pc # "idle"
      PROVE  DecisionsFit'
  BY <1>0, <1>c
<1>d. ASSUME NEW gone \in SUBSET Bindings, Delete(gone) PROVE DecisionsFit'
  BY <1>0, <1>a, <1>d DEF Delete
<1>1. ASSUME NEW d \in Decisions, NEW op \in Ops, NEW b \in Bindings, NEW n \in Bindings,
             NEW u \in Users, Check(d, op, b, n, u)
      PROVE  DecisionsFit'
  <2> DEFINE fp == Fingerprint(op, b, n)
             r == [Idle EXCEPT !.pc = "checked", !.op = op, !.b = b, !.new = n,
                               !.actor = u, !.fp = fp]
  <2>1. decision' = [decision EXCEPT ![d] = r]
    BY <1>1 DEF Check
  <2>2. op = "supersede" => fp[1] = n
    BY DEF Fingerprint, RowOps, Repairs
  <2>4. op = "supersede" => b # n
    BY <1>1 DEF Check, Eligible, IsReplacement
  <2> HIDE DEF fp
  <2>3. /\ Fields \subseteq DOMAIN r /\ r.b = b /\ r.new = n /\ r.op = op /\ r.fp = fp
    BY DEF Idle, Fields
  <2> QED BY <1>0, <2>1, <2>2, <2>3, <2>4
<1>2. ASSUME NEW d \in Decisions, Refresh(d) PROVE DecisionsFit'
  <2>1. CASE Passes(d)
    <3> DEFINE pc == IF decision[d].op = "supersede" THEN "half" ELSE "read"
               from == binding[decision[d].b].status
               had == decision[d].b \in m2m
    <3>1. decision' = [decision EXCEPT ![d].pc = pc, ![d].from = from, ![d].hadM2M = had]
      BY <1>2, <2>1 DEF Refresh
    <3> HIDE DEF pc, from, had
    <3> DEFINE r == [decision[d] EXCEPT !.pc = pc, !.from = from, !.hadM2M = had]
    <3>2. Fields \subseteq DOMAIN r /\ r.b = decision[d].b /\ r.new = decision[d].new
          /\ r.op = decision[d].op /\ r.fp = decision[d].fp
      BY <1>0 DEF Fields
    <3>3. decision' = [decision EXCEPT ![d] = r] /\ decision[d].pc # "idle"
      BY <1>0, <1>2, <3>1 DEF Refresh
    <3> HIDE DEF r
    <3> QED BY <1>c, <3>2, <3>3
  <2>2. CASE ~Passes(d)
    BY <1>2, <1>b, <2>2 DEF Refresh
  <2> QED BY <2>1, <2>2
<1>3. ASSUME NEW d \in Decisions, RefreshNew(d) \/ RemoveM2M(d) PROVE DecisionsFit'
  <2>1. CASE Done(d)
    BY <1>b, <2>1
  <2>2. CASE ~Done(d)
    <3> DEFINE r == [decision[d] EXCEPT !.pc = "read"]
    <3>1. Fields \subseteq DOMAIN r /\ r.b = decision[d].b /\ r.new = decision[d].new
          /\ r.op = decision[d].op /\ r.fp = decision[d].fp
      BY <1>0 DEF Fields
    <3>2. decision' = [decision EXCEPT ![d] = r] /\ decision[d].pc # "idle"
      BY <1>0, <1>3, <2>2 DEF RefreshNew, RemoveM2M
    <3> HIDE DEF r
    <3> QED BY <1>c, <3>1, <3>2
  <2> QED BY <2>1, <2>2
<1>4. ASSUME NEW d \in Decisions,
             \/ Reject(d) \/ Reaffirm(d) \/ Reverse(d) \/ Promote(d) \/ Create(d)
             \/ Supersede(d) \/ Repair(d)
      PROVE  DecisionsFit'
  BY <1>4, <1>b DEF Reject, Reaffirm, Reverse, Promote, Create, Supersede, Repair
<1>5. ASSUME NEW d \in Decisions, Remove(d) PROVE DecisionsFit'
  <2>1. decision[d].b \in Bindings
    BY <1>0, <1>5 DEF Remove, Writing
  <2> QED BY <1>5, <1>d, <2>1 DEF Remove
<1>6. CASE AutolinkClear
  BY <1>6, <1>d DEF AutolinkClear
<1>7. CASE AutolinkPersist \/ UNCHANGED governance
  BY <1>0, <1>7 DEF AutolinkPersist, governance
<1> HIDE DEF DecisionsFit
<1> QED
  BY <1>1, <1>2, <1>3, <1>4, <1>5, <1>6, <1>7 DEF GovernanceNext, Step

-----------------------------------------------------------------------------
\* The steps that write one row and its event, by the decision's own event.
LEMMA OwnEventStep ==
  ASSUME GovernanceInv, NEW d \in Decisions, decision[d].pc # "idle", NEW to,
         NEW row \in Rows,
         binding' = [binding EXCEPT ![decision[d].b] = row],
         row.superseded_by = binding[decision[d].b].superseded_by,
         to = row.status,
         EventType(decision[d].op) \in DecisionTypes \ {"superseded", "superseding_acceptance"},
         Record(d, to),
         Says([type |-> EventType(decision[d].op), fp |-> decision[d].fp,
               actor |-> decision[d].actor, from |-> decision[d].from, to |-> to,
               other |-> None])
  PROVE  GovernanceTyped' /\ EventsSay' /\ StatusIsRecorded' /\ SupersessionIsPaired'
<1> DEFINE r == decision[d]
           E == RecordEvent(r.b, EventType(r.op), r.fp, r.actor, r.from, to, None)
<1>1. r.b \in Bindings /\ events' = [events EXCEPT ![r.b] = E]
  BY DEF GovernanceInv, DecisionsFit, Record
<1>2. /\ events[r.b] \subseteq E /\ \A e \in E : Says(e)
      /\ \E e \in E : e.type = EventType(r.op)
  BY <1>1, EventIsThere DEF GovernanceInv
<1> HIDE DEF E
<1>3. GovernanceTyped'
  BY <1>1 DEF GovernanceInv, GovernanceTyped
<1>4. EventsSay'
  BY <1>1, <1>2 DEF GovernanceInv, GovernanceTyped, EventsSay
<1>5. \A a \in Bindings : events[a] \subseteq events'[a]
  BY <1>1, <1>2 DEF GovernanceInv, GovernanceTyped
<1>6. \E e \in events'[r.b] : e.type \in DecisionTypes /\ e.to = row.status
  <2>1. PICK e \in E : e.type = EventType(r.op)
    BY <1>2
  <2>2. Says(e) /\ e \in events'[r.b]
    BY <1>1, <1>2, <2>1 DEF GovernanceInv, GovernanceTyped
  <2>3. e.to = to
    BY <2>1, <2>2 DEF Says, DecisionTypes
  <2> QED BY <2>1, <2>2, <2>3
<1> QED
  BY <1>1, <1>3, <1>4, <1>5, <1>6, AnnouncedStatusKeeps DEF GovernanceInv, GovernanceTyped

\* The steps that only add an event.
LEMMA EventOnlyStep ==
  ASSUME GovernanceInv, NEW d \in Decisions, decision[d].pc # "idle", NEW to,
         EventType(decision[d].op) \in {"reaffirmed", "parity_repaired"},
         Record(d, to), UNCHANGED binding
  PROVE  GovernanceTyped' /\ EventsSay' /\ StatusIsRecorded' /\ SupersessionIsPaired'
<1> DEFINE r == decision[d]
           E == RecordEvent(r.b, EventType(r.op), r.fp, r.actor, r.from, to, None)
<1>1. r.b \in Bindings /\ events' = [events EXCEPT ![r.b] = E]
  BY DEF GovernanceInv, DecisionsFit, Record
<1>2. events[r.b] \subseteq E /\ \A e \in E : Says(e)
  BY <1>1, EventIsThere DEF GovernanceInv, Says
<1> HIDE DEF E
<1>3. GovernanceTyped' /\ EventsSay'
  BY <1>1, <1>2 DEF GovernanceInv, GovernanceTyped, EventsSay
<1>4. \A a \in Bindings : events[a] \subseteq events'[a]
  BY <1>1, <1>2 DEF GovernanceInv, GovernanceTyped
<1> QED
  BY <1>3, <1>4, GrowingLogKeeps DEF GovernanceInv, GovernanceTyped

\* A supersession writes two rows and two events that name each other.
LEMMA SupersedeStep ==
  ASSUME GovernanceInv, NEW d \in Decisions, Supersede(d)
  PROVE  GovernanceTyped' /\ EventsSay' /\ StatusIsRecorded' /\ SupersessionIsPaired'
<1> DEFINE r == decision[d]
           O == RecordEvent(r.b, "superseded", r.fp, r.actor, r.from, "superseded", r.new)
           N == RecordEvent(r.new, "superseding_acceptance", <<r.b, r.fp>>, r.actor,
                            "active_review", "trusted", r.b)
<1>1. r.b \in Bindings /\ r.new \in Bindings /\ r.fp[1] = r.new /\ r.b # r.new
  BY DEF GovernanceInv, DecisionsFit, Supersede, Writing
<1>2. /\ binding' = [binding EXCEPT
           ![r.b].status = "superseded", ![r.b].superseded_by = r.new, ![r.new].status = "trusted"]
      /\ events' = [events EXCEPT ![r.b] = O, ![r.new] = N]
  BY DEF Supersede
<1>3. /\ events[r.b] \subseteq O /\ \A e \in O : Says(e)
      /\ \E e \in O : e.type = "superseded" /\ e.fp = r.fp
  BY <1>1, EventIsThere DEF GovernanceInv, Says
<1>4. /\ events[r.new] \subseteq N /\ \A e \in N : Says(e)
      /\ \E e \in N : e.type = "superseding_acceptance" /\ e.fp = <<r.b, r.fp>>
  <2>1. Says([type |-> "superseding_acceptance", fp |-> <<r.b, r.fp>>, actor |-> r.actor,
              from |-> "active_review", to |-> "trusted", other |-> r.b])
    BY DEF Says
  <2> QED BY <1>1, <2>1, EventIsThere DEF GovernanceInv
<1> HIDE DEF O, N
<1>5. events'[r.b] = O /\ events'[r.new] = N
      /\ \A a \in Bindings : events[a] \subseteq events'[a]
  BY <1>1, <1>2, <1>3, <1>4 DEF GovernanceInv, GovernanceTyped
<1>6. /\ binding'[r.b].status = "superseded" /\ binding'[r.b].superseded_by = r.new
      /\ binding'[r.new].status = "trusted"
      /\ binding'[r.new].superseded_by = binding[r.new].superseded_by
      /\ \A a \in Bindings \ {r.b, r.new} : binding'[a] = binding[a]
      /\ binding' \in [Bindings -> Rows]
  <2> DEFINE old == [binding[r.b] EXCEPT !.status = "superseded", !.superseded_by = r.new]
             new == [binding[r.new] EXCEPT !.status = "trusted"]
  <2>1. binding[r.b] \in Rows /\ binding[r.new] \in Rows /\ DOMAIN binding = Bindings
    BY <1>1 DEF GovernanceInv, GovernanceTyped
  <2>2. old \in Rows /\ old.status = "superseded" /\ old.superseded_by = r.new
    BY <1>1, <2>1 DEF Rows, Status, Inactive
  <2>3. new \in Rows /\ new.status = "trusted"
        /\ new.superseded_by = binding[r.new].superseded_by
    BY <1>1, <2>1 DEF Rows, Status
  <2>4. binding' = [binding EXCEPT ![r.b] = old, ![r.new] = new]
    BY <1>1, <1>2, <2>1
  <2> HIDE DEF old, new
  <2>5. binding'[r.b] = old /\ binding'[r.new] = new
        /\ \A a \in Bindings \ {r.b, r.new} : binding'[a] = binding[a]
    BY <1>1, <2>1, <2>4
  <2>6. binding' \in [Bindings -> Rows]
    BY <1>1, <2>2, <2>3, <2>4 DEF GovernanceInv, GovernanceTyped
  <2> QED BY <2>2, <2>3, <2>5, <2>6
<1>7. GovernanceTyped' /\ EventsSay'
  BY <1>1, <1>2, <1>3, <1>4, <1>6 DEF GovernanceInv, GovernanceTyped, EventsSay
<1>8. PICK e \in events'[r.b] : e.type = "superseded" /\ e.to = "superseded" /\ e.other = r.new
  BY <1>1, <1>3, <1>5 DEF Says
<1>9. PICK f \in events'[r.new] :
        f.type = "superseding_acceptance" /\ f.to = "trusted" /\ f.other = r.b
  BY <1>4, <1>5 DEF Says
<1>10. StatusIsRecorded'
  <2> SUFFICES ASSUME NEW a \in Bindings, binding'[a].status \notin {"none", "active_review"}
      PROVE  \E x \in events'[a] : x.type \in DecisionTypes /\ x.to = binding'[a].status
    BY DEF StatusIsRecorded
  <2>1. CASE a = r.b
    BY <1>6, <1>8, <2>1 DEF DecisionTypes
  <2>2. CASE a = r.new
    BY <1>6, <1>9, <2>2 DEF DecisionTypes
  <2>3. CASE a \notin {r.b, r.new}
    BY <1>5, <1>6, <2>3 DEF GovernanceInv, StatusIsRecorded
  <2> QED BY <2>1, <2>2, <2>3
<1>11. SupersessionIsPaired'
  <2> SUFFICES ASSUME NEW a \in Bindings, NEW n, n = binding'[a].superseded_by, n # None
      PROVE  /\ \E x \in events'[a] : x.type = "superseded" /\ x.other = n
             /\ \E x \in events'[n] : x.type = "superseding_acceptance" /\ x.other = a
    BY DEF SupersessionIsPaired
  <2>1. CASE a = r.b
    BY <1>6, <1>8, <1>9, <2>1
  <2>2. CASE a # r.b
    <3>1. n = binding[a].superseded_by /\ n \in Bindings
      BY <1>6, <2>2 DEF Rows
    <3> QED BY <1>5, <3>1 DEF GovernanceInv, SupersessionIsPaired
  <2> QED BY <2>1, <2>2
<1> QED BY <1>7, <1>10, <1>11

\* The steps that delete rows.
LEMMA DeleteStep ==
  ASSUME GovernanceInv, NEW gone \in SUBSET Bindings, Delete(gone)
  PROVE  GovernanceTyped' /\ EventsSay' /\ StatusIsRecorded' /\ SupersessionIsPaired'
<1>1. NoRow \in Rows /\ NoRow.status = "none" /\ NoRow.superseded_by = None
  BY DEF NoRow, Rows, Methods
<1>2. \A a \in Bindings : binding[a] \in Rows
  BY DEF GovernanceInv, GovernanceTyped
<1>3. \A a \in gone : binding'[a] = NoRow
  BY DEF Delete, ClearForeignKeys
<1>4. \A a \in Bindings \ gone :
        /\ binding'[a] \in Rows
        /\ binding'[a].status = binding[a].status
        /\ binding'[a].superseded_by =
             IF binding[a].superseded_by \in gone THEN None ELSE binding[a].superseded_by
        /\ events'[a] = events[a]
  <2> SUFFICES ASSUME NEW a \in Bindings \ gone
      PROVE  /\ binding'[a] \in Rows
             /\ binding'[a].status = binding[a].status
             /\ binding'[a].superseded_by =
                  IF binding[a].superseded_by \in gone THEN None ELSE binding[a].superseded_by
             /\ events'[a] = events[a]
    OBVIOUS
  <2>1. /\ binding'[a] = [binding[a] EXCEPT !.superseded_by = IF @ \in gone THEN None ELSE @]
        /\ events'[a] = events[a]
    BY DEF Delete, ClearForeignKeys
  <2> QED BY <1>2, <2>1 DEF Rows
<1>5. DOMAIN binding' = Bindings /\ DOMAIN events' = Bindings
      /\ binding' = [a \in Bindings |-> binding'[a]]
  BY DEF Delete, ClearForeignKeys
<1>6. GovernanceTyped'
  BY <1>1, <1>3, <1>4, <1>5 DEF GovernanceTyped
<1>7. \A a \in Bindings : events'[a] \subseteq events[a]
  BY DEF Delete
<1>8. EventsSay'
  BY <1>7 DEF GovernanceInv, EventsSay
<1>9. StatusIsRecorded'
  BY <1>1, <1>3, <1>4 DEF GovernanceInv, StatusIsRecorded
<1>10. SupersessionIsPaired'
  <2> SUFFICES ASSUME NEW a \in Bindings, NEW n, n = binding'[a].superseded_by, n # None
      PROVE  /\ \E e \in events'[a] : e.type = "superseded" /\ e.other = n
             /\ \E e \in events'[n] : e.type = "superseding_acceptance" /\ e.other = a
    BY DEF SupersessionIsPaired
  <2>1. a \notin gone
    BY <1>1, <1>3
  <2>2. n = binding[a].superseded_by /\ n \notin gone
    BY <1>4, <2>1
  <2>3. n \in Bindings
    BY <1>2, <2>2 DEF Rows
  <2> QED BY <1>4, <2>1, <2>2, <2>3 DEF GovernanceInv, SupersessionIsPaired
<1> QED BY <1>6, <1>8, <1>9, <1>10

\* Proposals appear where there is no row.
LEMMA PersistStep ==
  ASSUME GovernanceInv, AutolinkPersist
  PROVE  GovernanceTyped' /\ EventsSay' /\ StatusIsRecorded' /\ SupersessionIsPaired'
<1> DEFINE proposal == [NoRow EXCEPT !.status = "active_review"]
<1>1. PICK found \in SUBSET {b \in Bindings : binding[b].status = "none"} :
        binding' = [b \in Bindings |-> IF b \in found THEN proposal ELSE binding[b]]
        /\ events' = events
  BY DEF AutolinkPersist
<1>2. proposal \in Rows /\ proposal.status = "active_review" /\ proposal.superseded_by = None
  BY DEF NoRow, Rows, Methods, Status
<1> HIDE DEF proposal
<1>3. GovernanceTyped' /\ EventsSay'
  BY <1>1, <1>2 DEF GovernanceInv, GovernanceTyped, EventsSay
<1>4. StatusIsRecorded'
  BY <1>1, <1>2 DEF GovernanceInv, StatusIsRecorded
<1>5. SupersessionIsPaired'
  <2> SUFFICES ASSUME NEW a \in Bindings, NEW n, n = binding'[a].superseded_by, n # None
      PROVE  /\ \E e \in events[a] : e.type = "superseded" /\ e.other = n
             /\ \E e \in events[n] : e.type = "superseding_acceptance" /\ e.other = a
    BY <1>1 DEF SupersessionIsPaired
  <2> QED BY <1>1, <1>2 DEF GovernanceInv, SupersessionIsPaired
<1> QED BY <1>3, <1>4, <1>5

\* Promotion: the status is trusted whatever the method becomes.
LEMMA PromoteStep ==
  ASSUME GovernanceInv, NEW d \in Decisions, Promote(d)
  PROVE  GovernanceTyped' /\ EventsSay' /\ StatusIsRecorded' /\ SupersessionIsPaired'
<1> DEFINE r == decision[d]
           meth == CASE r.op = "approve" -> binding[r.b].method [] r.op = "link" -> "manual"
                     [] r.op = "create" -> "exact"
           row == [binding[r.b] EXCEPT !.status = "trusted", !.method = meth]
<1>1. r.pc # "idle" /\ r.op \in {"approve", "link", "create"} /\ r.b \in Bindings
  BY DEF Promote, Writing, GovernanceInv, DecisionsFit
<1>2. binding[r.b] \in Rows /\ DOMAIN binding = Bindings
  BY <1>1 DEF GovernanceInv, GovernanceTyped
<1>3. meth \in Methods
  BY <1>1, <1>2 DEF Rows, Methods
<1>4. binding' = [binding EXCEPT ![r.b] = row]
  BY <1>1, <1>2 DEF Promote
<1> HIDE DEF meth
<1>5. row \in Rows /\ row.status = "trusted" /\ row.superseded_by = binding[r.b].superseded_by
  BY <1>2, <1>3 DEF Rows, Status
<1> HIDE DEF row
<1>6. EventType(r.op) = "approved"
  BY <1>1 DEF EventType, Repairs
<1>7. Record(d, "trusted")
  BY DEF Promote
<1> QED BY <1>1, <1>4, <1>5, <1>6, <1>7, OwnEventStep DEF Says, DecisionTypes

\* A row created as trusted, or nothing when the pair has one by now.
LEMMA CreateStep ==
  ASSUME GovernanceInv, NEW d \in Decisions, Create(d)
  PROVE  GovernanceTyped' /\ EventsSay' /\ StatusIsRecorded' /\ SupersessionIsPaired'
<1> DEFINE r == decision[d]
           row == [NoRow EXCEPT !.status = "trusted", !.method = "manual"]
           E == RecordEvent(r.b, "approved", r.fp, r.actor, "active_review", "trusted", None)
<1>1. r.b \in Bindings
  BY DEF Create, Writing, GovernanceInv, DecisionsFit
<1>2. row \in Rows /\ row.status = "trusted" /\ row.superseded_by = None
  BY DEF NoRow, Rows, Methods, Status
<1>3. CASE binding[r.b].status = "none"
  <2>1. binding' = [binding EXCEPT ![r.b] = row] /\ events' = [events EXCEPT ![r.b] = E]
    BY <1>3 DEF Create
  <2>2. Says([type |-> "approved", fp |-> r.fp, actor |-> r.actor, from |-> "active_review",
              to |-> "trusted", other |-> None])
    BY DEF Says
  <2>3. /\ events[r.b] \subseteq E /\ \A e \in E : Says(e)
        /\ \E e \in E : e.type = "approved"
    BY <1>1, <2>2, EventIsThere DEF GovernanceInv
  <2> HIDE DEF E, row
  <2>4. GovernanceTyped' /\ EventsSay'
    BY <1>1, <1>2, <2>1, <2>3 DEF GovernanceInv, GovernanceTyped, EventsSay
  <2>5. \A a \in Bindings : events[a] \subseteq events'[a]
    BY <1>1, <2>1, <2>3 DEF GovernanceInv, GovernanceTyped
  <2>6. \E e \in events'[r.b] : e.type \in DecisionTypes /\ e.to = row.status
    BY <1>1, <1>2, <2>1, <2>3 DEF GovernanceInv, GovernanceTyped, Says, DecisionTypes
  <2> QED
    BY <1>1, <1>2, <2>1, <2>4, <2>5, <2>6, AnnouncedStatusKeeps DEF GovernanceInv, GovernanceTyped
<1>4. CASE binding[r.b].status # "none"
  <2>1. UNCHANGED <<binding, events>>
    BY <1>4 DEF Create
  <2>2. GovernanceTyped' /\ EventsSay'
    BY <2>1 DEF GovernanceInv, GovernanceTyped, EventsSay
  <2> QED BY <2>1, <2>2, GrowingLogKeeps DEF GovernanceInv, GovernanceTyped
<1> QED BY <1>3, <1>4

-----------------------------------------------------------------------------
\* A decision that only changes the status of its row.
LEMMA SetStatusStep ==
  ASSUME GovernanceInv, NEW d \in Decisions, Reject(d) \/ Reverse(d)
  PROVE  GovernanceTyped' /\ EventsSay' /\ StatusIsRecorded' /\ SupersessionIsPaired'
<1> DEFINE r == decision[d]
<1>1. r.pc # "idle" /\ r.op \in {"reject", "reverse"} /\ r.b \in Bindings
  BY DEF Reject, Reverse, Writing, GovernanceInv, DecisionsFit
<1>2. PICK to \in {"rejected", "reversed"} :
        /\ EventType(r.op) = to
        /\ SetStatus(r.b, to)
        /\ Record(d, to)
  <2>1. CASE Reject(d)
    BY <2>1 DEF Reject, Writing, EventType, Repairs
  <2>2. CASE Reverse(d)
    BY <2>2 DEF Reverse, Writing, EventType, Repairs
  <2> QED BY <2>1, <2>2
<1> DEFINE row == [binding[r.b] EXCEPT !.status = to]
<1>3. binding[r.b] \in Rows /\ DOMAIN binding = Bindings
  BY <1>1 DEF GovernanceInv, GovernanceTyped
<1>4. binding' = [binding EXCEPT ![r.b] = row]
  BY <1>1, <1>2, <1>3 DEF SetStatus
<1>5. row \in Rows /\ row.status = to /\ row.superseded_by = binding[r.b].superseded_by
  BY <1>3 DEF Rows, Status, Inactive
<1> HIDE DEF row
<1> QED BY <1>1, <1>2, <1>4, <1>5, OwnEventStep DEF Says, DecisionTypes

\* Every step keeps the log and the rows in agreement.
LEMMA LogStep ==
  ASSUME GovernanceInv, [GovernanceNext]_governance
  PROVE  GovernanceTyped' /\ EventsSay' /\ StatusIsRecorded' /\ SupersessionIsPaired'
<1> DEFINE Goal == GovernanceTyped' /\ EventsSay' /\ StatusIsRecorded' /\ SupersessionIsPaired'
<1>1. ASSUME UNCHANGED <<binding, events>> PROVE Goal
  <2>1. GovernanceTyped' /\ EventsSay'
    BY <1>1 DEF GovernanceInv, GovernanceTyped, EventsSay
  <2> QED BY <1>1, <2>1, GrowingLogKeeps DEF GovernanceInv, GovernanceTyped
<1>2. ASSUME NEW d \in Decisions, NEW op \in Ops, NEW b \in Bindings, NEW n \in Bindings,
             NEW u \in Users, Check(d, op, b, n, u)
      PROVE  Goal
  BY <1>1, <1>2 DEF Check
<1>3. ASSUME NEW d \in Decisions, Refresh(d) \/ RefreshNew(d) \/ RemoveM2M(d) PROVE Goal
  BY <1>1, <1>3 DEF Refresh, RefreshNew, RemoveM2M
<1>4. ASSUME NEW d \in Decisions, Reaffirm(d) PROVE Goal
  <2>1. decision[d].pc # "idle" /\ EventType(decision[d].op) = "reaffirmed"
        /\ Record(d, "trusted") /\ UNCHANGED binding
    BY <1>4 DEF Reaffirm, Writing, EventType, Repairs
  <2> QED BY <2>1, EventOnlyStep
<1>5. ASSUME NEW d \in Decisions, Repair(d) PROVE Goal
  <2>1. decision[d].pc # "idle" /\ EventType(decision[d].op) = "parity_repaired"
        /\ Record(d, decision[d].from) /\ UNCHANGED binding
    BY <1>5 DEF Repair, EventType, Repairs
  <2> QED BY <2>1, EventOnlyStep
<1>6. ASSUME NEW d \in Decisions, Remove(d) PROVE Goal
  <2>1. {decision[d].b} \in SUBSET Bindings
    BY <1>6 DEF Remove, Writing, GovernanceInv, DecisionsFit
  <2> QED BY <1>6, <2>1, DeleteStep DEF Remove
<1>7. ASSUME AutolinkClear PROVE Goal
  <2> DEFINE gone == {b \in Bindings : binding[b].status # "none"}
  <2>1. gone \in SUBSET Bindings /\ Delete(gone)
    BY <1>7 DEF AutolinkClear
  <2> HIDE DEF gone
  <2> QED BY <2>1, DeleteStep
<1>8. ASSUME UNCHANGED governance PROVE Goal
  BY <1>1, <1>8 DEF governance
<1> HIDE DEF Goal
<1>9. ASSUME NEW d \in Decisions, Step(d) PROVE Goal
  <2>1. ASSUME Reject(d) \/ Reverse(d) PROVE Goal
    BY <2>1, SetStatusStep DEF Goal
  <2>2. ASSUME Promote(d) PROVE Goal
    BY <2>2, PromoteStep DEF Goal
  <2>3. ASSUME Create(d) PROVE Goal
    BY <2>3, CreateStep DEF Goal
  <2>4. ASSUME Supersede(d) PROVE Goal
    BY <2>4, SupersedeStep DEF Goal
  <2> QED BY <1>2, <1>3, <1>4, <1>5, <1>6, <1>9, <2>1, <2>2, <2>3, <2>4 DEF Step
<1>10. ASSUME AutolinkPersist PROVE Goal
  BY <1>10, PersistStep DEF Goal
<1>11. Goal
  BY <1>7, <1>8, <1>9, <1>10 DEF GovernanceNext
<1> QED BY <1>11 DEF Goal

-----------------------------------------------------------------------------
\* The inductive invariant of the governance.
THEOREM GovernanceInvariant == GovernanceSpec => []GovernanceInv
<1>1. GovernanceInit => GovernanceInv
  <2> SUFFICES ASSUME GovernanceInit PROVE GovernanceInv
    OBVIOUS
  <2>1. NoRow \in Rows /\ NoRow.status = "none" /\ NoRow.superseded_by = None
    BY DEF NoRow, Rows, Methods
  <2>2. GovernanceTyped /\ EventsSay /\ StatusIsRecorded /\ SupersessionIsPaired
    BY <2>1 DEF GovernanceInit, GovernanceTyped, EventsSay, StatusIsRecorded, SupersessionIsPaired
  <2>3. DecisionsFit
    BY DEF GovernanceInit, DecisionsFit, Idle, Fields
  <2> QED BY <2>2, <2>3 DEF GovernanceInv
<1>2. GovernanceInv /\ [GovernanceNext]_governance => GovernanceInv'
  BY DecisionStep, LogStep DEF GovernanceInv
<1> QED BY <1>1, <1>2, PTL DEF GovernanceSpec

\* Whatever decisions, removals and autolink runs overlap, each decided row has
\* an event of its own that decided it.
THEOREM EveryStatusIsRecorded == GovernanceSpec => []StatusIsRecorded
BY GovernanceInvariant, PTL DEF GovernanceInv

\* A row that names its replacement and the replacement carry the two events
\* that point at each other, also after a third row was deleted.
THEOREM SupersessionsArePaired == GovernanceSpec => []SupersessionIsPaired
BY GovernanceInvariant, PTL DEF GovernanceInv

-----------------------------------------------------------------------------
(* Replacements do not run in a circle.  A supersession leads from a row    *)
(* that has left review to one that has not, and keeps doing so although    *)
(* the replacement may be promoted before the supersession is written; so   *)
(* the supersessions that are about to be written count as well.            *)
Undecided == {"none", "active_review"}

Superseding(d) == decision[d].op = "supersede" /\ decision[d].pc \in {"half", "read"}

LeadsTo(x, y) ==
  \/ binding[x].superseded_by = y
  \/ \E d \in Decisions :
       /\ Superseding(d) /\ decision[d].pc = "read"
       /\ decision[d].b = x /\ decision[d].new = y

NoCircle ==
  \A S \in SUBSET Bindings : S # {} => \E b \in S : \A y \in S : ~LeadsTo(b, y)

UndecidedIsLast ==
  \A b \in Bindings : binding[b].status \in Undecided => binding[b].superseded_by = None

LeftReview ==
  \A d \in Decisions : Superseding(d) =>
    /\ decision[d].from = "trusted" => binding[decision[d].b].status \notin Undecided
    /\ decision[d].pc = "read" => decision[d].from = "trusted"

CircleInv == NoCircle /\ UndecidedIsLast /\ LeftReview

\* A step that adds no lead closes no circle.
LEMMA FewerLeads ==
  ASSUME NoCircle, \A x, y \in Bindings : LeadsTo(x, y)' => LeadsTo(x, y)
  PROVE  NoCircle'
<1> SUFFICES ASSUME NEW S \in SUBSET Bindings, S # {}
    PROVE  \E b \in S : \A y \in S : ~LeadsTo(b, y)'
  BY DEF NoCircle
<1>1. PICK b \in S : \A y \in S : ~LeadsTo(b, y)
  BY DEF NoCircle
<1> QED BY <1>1

\* The steps that neither begin nor write a supersession.
LEMMA QuietStep ==
  ASSUME CircleInv,
         \A b \in Bindings : binding'[b].superseded_by \in {binding[b].superseded_by, None},
         \A b \in Bindings : binding'[b].status \in Undecided => binding'[b].superseded_by = None,
         \A d \in Decisions : Superseding(d)' =>
           /\ decision'[d] = decision[d]
           /\ binding'[decision[d].b].status \in Undecided
                => binding[decision[d].b].status \in Undecided
  PROVE  CircleInv'
<1>1. \A x, y \in Bindings : LeadsTo(x, y)' => LeadsTo(x, y)
  BY DecisionAssumption DEF LeadsTo, Superseding
<1>2. NoCircle'
  BY <1>1, FewerLeads DEF CircleInv
<1>3. LeftReview'
  BY DEF CircleInv, LeftReview, Superseding
<1> QED BY <1>2, <1>3 DEF CircleInv, UndecidedIsLast

\* The same for the steps that end a request and write at most its own row,
\* which then is decided.
LEMMA OwnRowStep ==
  ASSUME CircleInv, GovernanceInv, NEW d \in Decisions, Done(d), decision[d].pc # "idle",
         NEW row,
         binding' = [binding EXCEPT ![decision[d].b] = row],
         row.superseded_by \in {binding[decision[d].b].superseded_by, None},
         row.status \in Undecided => row.superseded_by = None /\ row = binding[decision[d].b]
  PROVE  CircleInv'
<1>1. decision[d].b \in Bindings /\ DOMAIN binding = Bindings /\ DOMAIN decision = Decisions
  BY DEF GovernanceInv, GovernanceTyped, DecisionsFit
<1>2. \A b \in Bindings : binding'[b].superseded_by \in {binding[b].superseded_by, None}
  BY <1>1
<1>3. \A b \in Bindings : binding'[b].status \in Undecided => binding'[b].superseded_by = None
  BY <1>1 DEF CircleInv, UndecidedIsLast
<1>4. \A c \in Decisions : Superseding(c)' => decision'[c] = decision[c]
  BY <1>1 DEF Done, Superseding, Idle
<1>5. \A b \in Bindings : binding'[b].status \in Undecided => binding[b].status \in Undecided
  BY <1>1
<1>6. \A c \in Decisions : Superseding(c)' => decision[c].b \in Bindings
  BY <1>4 DEF GovernanceInv, DecisionsFit, Superseding
<1> QED BY <1>2, <1>3, <1>4, <1>5, <1>6, QuietStep

\* A step that writes no row keeps the chains, as long as what is about to be
\* written stays the same.
LEMMA SameRowsStep ==
  ASSUME CircleInv, UNCHANGED binding,
         \A d \in Decisions : Superseding(d)' => decision'[d] = decision[d]
  PROVE  CircleInv'
BY QuietStep DEF CircleInv, UndecidedIsLast

\* Deleting rows cuts leads and makes none.
LEMMA DeleteCircle ==
  ASSUME CircleInv, GovernanceInv, NEW gone \in SUBSET Bindings, Delete(gone)
  PROVE  CircleInv'
<1>1. NoRow.superseded_by = None
  BY DEF NoRow
<1>2. \A a \in Bindings : binding[a] \in Rows
  BY DEF GovernanceInv, GovernanceTyped
<1>3. \A a \in gone : binding'[a] = NoRow
  BY DEF Delete, ClearForeignKeys
<1>4. \A a \in Bindings \ gone :
        /\ binding'[a].status = binding[a].status
        /\ binding'[a].superseded_by \in {binding[a].superseded_by, None}
  <2> SUFFICES ASSUME NEW a \in Bindings \ gone
      PROVE  /\ binding'[a].status = binding[a].status
             /\ binding'[a].superseded_by \in {binding[a].superseded_by, None}
    OBVIOUS
  <2>1. binding'[a] = [binding[a] EXCEPT !.superseded_by = IF @ \in gone THEN None ELSE @]
    BY DEF Delete, ClearForeignKeys
  <2> QED BY <1>2, <2>1 DEF Rows
<1>5. \A d \in Decisions : Superseding(d)' =>
        decision'[d] = decision[d] /\ decision[d].b \in Bindings \ gone
  <2> SUFFICES ASSUME NEW d \in Decisions, Superseding(d)'
      PROVE  decision'[d] = decision[d] /\ decision[d].b \in Bindings \ gone
    OBVIOUS
  <2>1. Idle.pc = "idle"
    BY DEF Idle
  <2>2. decision'[d] # Idle
    BY <2>1 DEF Superseding
  <2>3. decision'[d] = decision[d]
    BY <2>2 DEF Delete
  <2>4. decision[d].op = "supersede" /\ decision[d].pc # "idle"
    BY <2>3 DEF Superseding
  <2>5. decision[d].b \notin gone
    BY <2>2, <2>4 DEF Delete
  <2> QED BY <2>3, <2>4, <2>5 DEF GovernanceInv, DecisionsFit
<1>6. \A b \in Bindings : binding'[b].superseded_by \in {binding[b].superseded_by, None}
  BY <1>1, <1>3, <1>4
<1>7. \A b \in Bindings : binding'[b].status \in Undecided => binding'[b].superseded_by = None
  BY <1>1, <1>3, <1>4 DEF CircleInv, UndecidedIsLast
<1> QED BY <1>4, <1>5, <1>6, <1>7, QuietStep

\* The second read of a supersession finds its replacement in review: nothing
\* leads on from there.
LEMMA RefreshNewCircle ==
  ASSUME CircleInv, GovernanceInv, NEW d \in Decisions, RefreshNew(d)
  PROVE  CircleInv'
<1> DEFINE r == decision[d]
<1>1. r.pc = "half" /\ UNCHANGED binding /\ DOMAIN decision = Decisions
  BY DEF RefreshNew, GovernanceInv, DecisionsFit
<1>2. CASE r.from = "trusted" /\ IsReplacement(r.new)
  <2>1. decision' = [decision EXCEPT ![d].pc = "read"]
    BY <1>2 DEF RefreshNew
  <2>2. /\ decision'[d].pc = "read" /\ decision'[d].op = r.op /\ decision'[d].b = r.b
        /\ decision'[d].new = r.new /\ decision'[d].from = r.from
        /\ \A c \in Decisions \ {d} : decision'[c] = decision[c]
    <3>1. Fields \subseteq DOMAIN decision[d]
      BY DEF GovernanceInv, DecisionsFit
    <3> QED BY <1>1, <2>1, <3>1 DEF Fields
  <2>3. LeftReview'
    BY <1>1, <1>2, <2>2 DEF CircleInv, LeftReview, Superseding
  <2>4. CASE r.op # "supersede"
    <3>1. \A c \in Decisions : Superseding(c)' => decision'[c] = decision[c]
      BY <2>2, <2>4 DEF Superseding
    <3> QED BY <1>1, <3>1, SameRowsStep
  <2>5. CASE r.op = "supersede"
    <3>1. r.b \in Bindings /\ r.new \in Bindings /\ r.b # r.new
      BY <1>1, <2>5 DEF GovernanceInv, DecisionsFit
    <3>2. binding[r.new].status \in Undecided /\ binding[r.new].superseded_by = None
      BY <1>2, <3>1 DEF IsReplacement, Undecided, CircleInv, UndecidedIsLast
    <3>3. \A c \in Decisions : Superseding(c) /\ decision[c].pc = "read" => decision[c].b # r.new
      BY <3>2 DEF CircleInv, LeftReview
    <3>4. \A n \in {r.new} : \A y \in Bindings : ~LeadsTo(n, y)'
      BY <1>1, <2>2, <3>1, <3>2, <3>3, DecisionAssumption DEF LeadsTo, Superseding
    <3>5. \A x, y \in Bindings : LeadsTo(x, y)' => LeadsTo(x, y) \/ y = r.new
      BY <1>1, <2>2 DEF LeadsTo, Superseding
    <3>6. NoCircle'
      <4> SUFFICES ASSUME NEW S \in SUBSET Bindings, S # {}
          PROVE  \E b \in S : \A y \in S : ~LeadsTo(b, y)'
        BY DEF NoCircle
      <4>1. CASE r.new \in S
        BY <3>4, <4>1
      <4>2. CASE r.new \notin S
        <5>1. PICK b \in S : \A y \in S : ~LeadsTo(b, y)
          BY DEF CircleInv, NoCircle
        <5> QED BY <3>5, <4>2, <5>1
      <4> QED BY <4>1, <4>2
    <3> QED BY <1>1, <2>3, <3>6 DEF CircleInv, UndecidedIsLast
  <2> QED BY <2>4, <2>5
<1>3. CASE ~(r.from = "trusted" /\ IsReplacement(r.new))
  <2>1. Done(d)
    BY <1>3 DEF RefreshNew
  <2>2. \A c \in Decisions : Superseding(c)' => decision'[c] = decision[c]
    BY <1>1, <2>1 DEF Done, Superseding, Idle
  <2> QED BY <1>1, <2>2, SameRowsStep
<1> QED BY <1>2, <1>3

\* Reading the old row of a supersession again writes no lead yet.
LEMMA RefreshCircle ==
  ASSUME CircleInv, GovernanceInv, NEW d \in Decisions, Refresh(d)
  PROVE  CircleInv'
<1> DEFINE r == decision[d]
<1>1. UNCHANGED binding /\ DOMAIN decision = Decisions
  BY DEF Refresh, GovernanceInv, DecisionsFit
<1>2. CASE Passes(d)
  <2> DEFINE pc == IF r.op = "supersede" THEN "half" ELSE "read"
             from == binding[r.b].status
             had == r.b \in m2m
  <2>1. decision' = [decision EXCEPT ![d].pc = pc, ![d].from = from, ![d].hadM2M = had]
    BY <1>2 DEF Refresh
  <2>2. Fields \subseteq DOMAIN decision[d]
    BY DEF GovernanceInv, DecisionsFit
  <2> HIDE DEF pc, from, had
  <2>3. /\ decision'[d].pc = pc /\ decision'[d].op = r.op /\ decision'[d].b = r.b
        /\ decision'[d].from = from
        /\ \A c \in Decisions \ {d} : decision'[c] = decision[c]
    BY <1>1, <2>1, <2>2 DEF Fields
  <2>4. CASE r.op # "supersede"
    <3>1. \A c \in Decisions : Superseding(c)' => decision'[c] = decision[c]
      BY <2>3, <2>4 DEF Superseding
    <3> QED BY <1>1, <3>1, SameRowsStep
  <2>5. CASE r.op = "supersede"
    <3>1. pc = "half"
      BY <2>5 DEF pc
    <3>2. from = "trusted" => binding[r.b].status \notin Undecided
      BY DEF from, Undecided
    <3>3. LeftReview'
      BY <1>1, <2>3, <3>1, <3>2 DEF CircleInv, LeftReview, Superseding
    <3>4. \A x, y \in Bindings : LeadsTo(x, y)' => LeadsTo(x, y)
      BY <1>1, <2>3, <3>1 DEF LeadsTo, Superseding
    <3>5. NoCircle'
      BY <3>4, FewerLeads DEF CircleInv
    <3> QED BY <1>1, <3>3, <3>5 DEF CircleInv, UndecidedIsLast
  <2> QED BY <2>4, <2>5
<1>3. CASE ~Passes(d)
  <2>1. \A c \in Decisions : Superseding(c)' => decision'[c] = decision[c]
    BY <1>1, <1>3 DEF Refresh, Done, Superseding, Idle
  <2> QED BY <1>1, <2>1, SameRowsStep
<1> QED BY <1>2, <1>3

\* The two rows of a supersession, and no other, are written.
LEMMA SupersededRows ==
  ASSUME GovernanceInv, NEW d \in Decisions, Supersede(d)
  PROVE  LET r == decision[d] IN
           /\ binding'[r.b].status = "superseded" /\ binding'[r.b].superseded_by = r.new
           /\ binding'[r.new].status = "trusted"
           /\ binding'[r.new].superseded_by = binding[r.new].superseded_by
           /\ \A a \in Bindings \ {r.b, r.new} : binding'[a] = binding[a]
<1> DEFINE r == decision[d]
           old == [binding[r.b] EXCEPT !.status = "superseded", !.superseded_by = r.new]
           new == [binding[r.new] EXCEPT !.status = "trusted"]
<1>1. /\ r.b \in Bindings /\ r.new \in Bindings /\ r.b # r.new
      /\ DOMAIN binding = Bindings
  BY DEF GovernanceInv, GovernanceTyped, DecisionsFit, Supersede, Writing
<1>2. \A b \in Bindings : binding[b] \in Rows
  BY DEF GovernanceInv, GovernanceTyped
<1>3. old.status = "superseded" /\ old.superseded_by = r.new
      /\ new.status = "trusted" /\ new.superseded_by = binding[r.new].superseded_by
  BY <1>1, <1>2 DEF Rows
<1>4. binding' = [binding EXCEPT ![r.b] = old, ![r.new] = new]
  BY <1>1 DEF Supersede
<1> HIDE DEF old, new
<1> QED BY <1>1, <1>3, <1>4

\* What was about to be written is written.
LEMMA SupersedeCircle ==
  ASSUME CircleInv, GovernanceInv, NEW d \in Decisions, Supersede(d)
  PROVE  CircleInv'
<1> DEFINE r == decision[d]
<1>1. /\ r.b \in Bindings /\ r.new \in Bindings /\ r.b # r.new
      /\ Superseding(d) /\ r.pc = "read"
      /\ DOMAIN decision = Decisions /\ DOMAIN binding = Bindings
  BY DEF GovernanceInv, GovernanceTyped, DecisionsFit, Supersede, Writing, Superseding
<1>3. /\ binding'[r.b].status = "superseded" /\ binding'[r.b].superseded_by = r.new
      /\ binding'[r.new].status = "trusted"
      /\ binding'[r.new].superseded_by = binding[r.new].superseded_by
      /\ \A a \in Bindings \ {r.b, r.new} : binding'[a] = binding[a]
  BY SupersededRows
<1>4. \A c \in Decisions : Superseding(c)' => decision'[c] = decision[c]
  BY <1>1 DEF Supersede, Done, Superseding, Idle
<1>5. \A x, y \in Bindings : LeadsTo(x, y)' => LeadsTo(x, y)
  BY <1>1, <1>3, <1>4 DEF LeadsTo, Superseding
<1>6. NoCircle'
  BY <1>5, FewerLeads DEF CircleInv
<1>7. UndecidedIsLast'
  BY <1>1, <1>3 DEF CircleInv, UndecidedIsLast, Undecided
<1>8. \A b \in Bindings : binding'[b].status \in Undecided => binding[b].status \in Undecided
  BY <1>1, <1>3 DEF Undecided
<1>9. \A c \in Decisions : Superseding(c)' => decision[c].b \in Bindings
  BY <1>4 DEF GovernanceInv, DecisionsFit, Superseding
<1>10. LeftReview'
  BY <1>4, <1>8, <1>9 DEF CircleInv, LeftReview, Superseding
<1> QED BY <1>6, <1>7, <1>10 DEF CircleInv

\* No step closes a circle of supersessions.
LEMMA CircleStep ==
  ASSUME CircleInv, GovernanceInv, [GovernanceNext]_governance
  PROVE  CircleInv'
<1>1. ASSUME UNCHANGED binding, NEW d \in Decisions, Done(d) PROVE CircleInv'
  <2>1. DOMAIN decision = Decisions
    BY DEF GovernanceInv, DecisionsFit
  <2>2. \A c \in Decisions : Superseding(c)' => decision'[c] = decision[c]
    BY <1>1, <2>1 DEF Done, Superseding, Idle
  <2> QED BY <1>1, <2>2, SameRowsStep
<1>2. ASSUME NEW d \in Decisions, NEW op \in Ops, NEW b \in Bindings, NEW n \in Bindings,
             NEW u \in Users, Check(d, op, b, n, u)
      PROVE  CircleInv'
  <2> DEFINE r == [Idle EXCEPT !.pc = "checked", !.op = op, !.b = b, !.new = n,
                               !.actor = u, !.fp = Fingerprint(op, b, n)]
  <2>1. decision' = [decision EXCEPT ![d] = r] /\ UNCHANGED binding
    BY <1>2 DEF Check
  <2>2. r.pc = "checked"
    BY DEF Idle
  <2> HIDE DEF r
  <2>3. DOMAIN decision = Decisions
    BY DEF GovernanceInv, DecisionsFit
  <2>4. \A c \in Decisions : Superseding(c)' => decision'[c] = decision[c]
    BY <2>1, <2>2, <2>3 DEF Superseding
  <2> QED BY <2>1, <2>4, SameRowsStep
<1>3. ASSUME NEW d \in Decisions, Reaffirm(d) \/ Repair(d) PROVE CircleInv'
  BY <1>1, <1>3 DEF Reaffirm, Repair
<1>4. ASSUME NEW d \in Decisions, Reject(d) \/ Reverse(d) PROVE CircleInv'
  <2>1. PICK to \in {"rejected", "reversed"} : SetStatus(decision[d].b, to)
    BY <1>4 DEF Reject, Reverse
  <2> DEFINE b == decision[d].b
             row == [binding[b] EXCEPT !.status = to]
  <2>2. decision[d].pc # "idle" /\ Done(d) /\ b \in Bindings
    BY <1>4 DEF Reject, Reverse, Writing, GovernanceInv, DecisionsFit
  <2>3. binding[b] \in Rows /\ DOMAIN binding = Bindings
    BY <2>2 DEF GovernanceInv, GovernanceTyped
  <2>4. binding' = [binding EXCEPT ![b] = row]
    BY <2>1, <2>2, <2>3 DEF SetStatus
  <2>5. row.superseded_by = binding[b].superseded_by /\ row.status \notin Undecided
    BY <2>3 DEF Rows, Undecided
  <2> HIDE DEF row
  <2> QED BY <2>2, <2>4, <2>5, OwnRowStep
<1>5. ASSUME NEW d \in Decisions, Promote(d) PROVE CircleInv'
  <2> DEFINE r == decision[d]
             meth == CASE r.op = "approve" -> binding[r.b].method [] r.op = "link" -> "manual"
                       [] r.op = "create" -> "exact"
             row == [binding[r.b] EXCEPT !.status = "trusted", !.method = meth]
  <2>1. r.pc # "idle" /\ r.op \in {"approve", "link", "create"} /\ Done(d) /\ r.b \in Bindings
    BY <1>5 DEF Promote, Writing, GovernanceInv, DecisionsFit
  <2>2. binding[r.b] \in Rows /\ DOMAIN binding = Bindings
    BY <2>1 DEF GovernanceInv, GovernanceTyped
  <2>3. binding' = [binding EXCEPT ![r.b] = row]
    BY <1>5, <2>1, <2>2 DEF Promote
  <2> HIDE DEF meth
  <2>4. row.superseded_by = binding[r.b].superseded_by /\ row.status \notin Undecided
    BY <2>2 DEF Rows, Undecided
  <2> HIDE DEF row
  <2> QED BY <2>1, <2>3, <2>4, OwnRowStep
<1>6. ASSUME NEW d \in Decisions, Create(d) PROVE CircleInv'
  <2> DEFINE r == decision[d]
             row == [NoRow EXCEPT !.status = "trusted", !.method = "manual"]
  <2>1. r.pc # "idle" /\ Done(d)
    BY <1>6 DEF Create, Writing
  <2>2. row.superseded_by = None /\ row.status \notin Undecided
    BY DEF NoRow, Undecided
  <2>3. CASE binding[r.b].status = "none"
    <3>1. binding' = [binding EXCEPT ![r.b] = row]
      BY <1>6, <2>3 DEF Create
    <3> HIDE DEF row
    <3> QED BY <2>1, <2>2, <3>1, OwnRowStep
  <2>4. CASE binding[r.b].status # "none"
    BY <1>1, <1>6, <2>1, <2>4 DEF Create
  <2> QED BY <2>3, <2>4
<1>7. ASSUME NEW d \in Decisions, RemoveM2M(d) PROVE CircleInv'
  <2>1. DOMAIN decision = Decisions /\ Fields \subseteq DOMAIN decision[d]
    BY DEF GovernanceInv, DecisionsFit
  <2>2. decision' = [decision EXCEPT ![d].pc = "read"] /\ decision[d].op = "remove"
    BY <1>7 DEF RemoveM2M
  <2>3. decision'[d].op = "remove" /\ \A c \in Decisions \ {d} : decision'[c] = decision[c]
    BY <2>1, <2>2 DEF Fields
  <2>4. \A c \in Decisions : Superseding(c)' => decision'[c] = decision[c]
    BY <2>3 DEF Superseding
  <2> QED BY <1>7, <2>4, SameRowsStep DEF RemoveM2M
<1>8. ASSUME NEW d \in Decisions, Remove(d) PROVE CircleInv'
  <2>1. {decision[d].b} \in SUBSET Bindings
    BY <1>8 DEF Remove, Writing, GovernanceInv, DecisionsFit
  <2> QED BY <1>8, <2>1, DeleteCircle DEF Remove
<1>9. ASSUME AutolinkClear PROVE CircleInv'
  <2> DEFINE gone == {b \in Bindings : binding[b].status # "none"}
  <2>1. gone \in SUBSET Bindings /\ Delete(gone)
    BY <1>9 DEF AutolinkClear
  <2> HIDE DEF gone
  <2> QED BY <2>1, DeleteCircle
<1>10. ASSUME AutolinkPersist PROVE CircleInv'
  <2> DEFINE proposal == [NoRow EXCEPT !.status = "active_review"]
  <2>1. PICK found \in SUBSET {b \in Bindings : binding[b].status = "none"} :
          /\ binding' = [b \in Bindings |-> IF b \in found THEN proposal ELSE binding[b]]
          /\ decision' = decision
    BY <1>10 DEF AutolinkPersist
  <2>2. proposal.superseded_by = None
    BY DEF NoRow
  <2> HIDE DEF proposal
  <2>3. \A b \in Bindings : binding'[b].superseded_by \in {binding[b].superseded_by, None}
    BY <2>1, <2>2
  <2>4. \A b \in Bindings : binding'[b].status \in Undecided => binding'[b].superseded_by = None
    BY <2>1, <2>2 DEF CircleInv, UndecidedIsLast
  <2>5. \A b \in Bindings : binding'[b].status \in Undecided => binding[b].status \in Undecided
    BY <2>1 DEF Undecided
  <2>6. \A c \in Decisions : Superseding(c)' => decision[c].b \in Bindings
    BY <2>1 DEF GovernanceInv, DecisionsFit, Superseding
  <2> QED BY <2>1, <2>3, <2>4, <2>5, <2>6, QuietStep
<1>11. ASSUME UNCHANGED governance PROVE CircleInv'
  BY <1>11, SameRowsStep DEF governance
<1>12. ASSUME NEW d \in Decisions, Step(d) PROVE CircleInv'
  BY <1>2, <1>3, <1>4, <1>5, <1>6, <1>7, <1>8, <1>12,
     RefreshCircle, RefreshNewCircle, SupersedeCircle DEF Step
<1> QED BY <1>9, <1>10, <1>11, <1>12 DEF GovernanceNext

\* No group of rows replace one another in a circle, however many supersessions
\* read their two rows unlocked, one after the other and at the same time.
THEOREM ReplacementsEnd == GovernanceSpec => []SupersessionsEnd
<1>1. GovernanceInit => CircleInv
  BY DecisionAssumption DEF GovernanceInit, CircleInv, NoCircle, UndecidedIsLast, LeftReview,
     LeadsTo, Superseding, NoRow, Idle
<1>2. GovernanceInv /\ CircleInv /\ [GovernanceNext]_governance => CircleInv'
  BY CircleStep
<1>3. CircleInv => SupersessionsEnd
  <2> SUFFICES ASSUME CircleInv, NEW S \in SUBSET Bindings, S # {}
      PROVE  \E b \in S : binding[b].superseded_by \notin S
    BY DEF SupersessionsEnd
  <2>1. PICK b \in S : \A y \in S : ~LeadsTo(b, y)
    BY DEF CircleInv, NoCircle
  <2> QED BY <2>1 DEF LeadsTo
<1> QED BY <1>1, <1>2, <1>3, GovernanceInvariant, PTL DEF GovernanceSpec

-----------------------------------------------------------------------------
\* The links that stay.

\* The reference of a request that restores a missing M2M row says so.
RepairsNamed ==
  \A d \in Decisions : decision[d].op = "accepted_missing_m2m" =>
    decision[d].fp = <<"accepted_missing_m2m">>

Repaired(b) == \E e \in events[b] : e.fp = <<"accepted_missing_m2m">> \/ e.type = "reaffirmed"

\* A repair of an accepted link without its M2M row keeps the fingerprint that names it.
LEMMA RepairsNamedStep ==
  ASSUME RepairsNamed, GovernanceInv, [GovernanceNext]_governance
  PROVE  RepairsNamed'
<1> USE DEF RepairsNamed
<1>1. DOMAIN decision = Decisions /\ \A d \in Decisions : Fields \subseteq DOMAIN decision[d]
  BY DEF GovernanceInv, DecisionsFit
<1>2. Idle.op = "remove"
  BY DEF Idle
<1>3. ASSUME NEW d \in Decisions, Done(d) PROVE RepairsNamed'
  BY <1>1, <1>2, <1>3 DEF Done
<1>4. ASSUME NEW d \in Decisions, NEW op \in Ops, NEW b \in Bindings, NEW n \in Bindings,
             NEW u \in Users, Check(d, op, b, n, u)
      PROVE  RepairsNamed'
  <2> DEFINE fp == Fingerprint(op, b, n)
             r == [Idle EXCEPT !.pc = "checked", !.op = op, !.b = b, !.new = n,
                               !.actor = u, !.fp = fp]
  <2>1. decision' = [decision EXCEPT ![d] = r]
    BY <1>4 DEF Check
  <2>2. op = "accepted_missing_m2m" => fp = <<"accepted_missing_m2m">>
    BY DEF Fingerprint, Repairs
  <2> HIDE DEF fp
  <2>3. r.op = op /\ r.fp = fp
    BY DEF Idle
  <2> QED BY <1>1, <2>1, <2>2, <2>3
<1>5. ASSUME NEW d \in Decisions, Refresh(d), ~Done(d) PROVE RepairsNamed'
  <2> DEFINE pc == IF decision[d].op = "supersede" THEN "half" ELSE "read"
             from == binding[decision[d].b].status
             had == decision[d].b \in m2m
  <2>1. decision' = [decision EXCEPT ![d].pc = pc, ![d].from = from, ![d].hadM2M = had]
    BY <1>5 DEF Refresh
  <2> HIDE DEF pc, from, had
  <2>2. decision'[d].op = decision[d].op /\ decision'[d].fp = decision[d].fp
        /\ \A c \in Decisions \ {d} : decision'[c] = decision[c]
    BY <1>1, <2>1 DEF Fields
  <2> QED BY <2>2
<1>6. ASSUME NEW d \in Decisions, RefreshNew(d) \/ RemoveM2M(d), ~Done(d) PROVE RepairsNamed'
  <2>1. decision' = [decision EXCEPT ![d].pc = "read"]
    BY <1>6 DEF RefreshNew, RemoveM2M
  <2>2. decision'[d].op = decision[d].op /\ decision'[d].fp = decision[d].fp
        /\ \A c \in Decisions \ {d} : decision'[c] = decision[c]
    BY <1>1, <2>1 DEF Fields
  <2> QED BY <2>2
<1>7. ASSUME NEW gone \in SUBSET Bindings, Delete(gone) PROVE RepairsNamed'
  BY <1>1, <1>2, <1>7 DEF Delete
<1>8. ASSUME NEW d \in Decisions, Remove(d) PROVE RepairsNamed'
  <2>1. {decision[d].b} \in SUBSET Bindings
    BY <1>8 DEF Remove, Writing, GovernanceInv, DecisionsFit
  <2> QED BY <1>7, <1>8, <2>1 DEF Remove
<1>9. CASE AutolinkClear
  BY <1>7, <1>9 DEF AutolinkClear
<1>10. CASE AutolinkPersist \/ UNCHANGED governance
  BY <1>10 DEF AutolinkPersist, governance
<1>11. ASSUME NEW d \in Decisions,
              \/ Reject(d) \/ Reaffirm(d) \/ Reverse(d) \/ Promote(d) \/ Create(d)
              \/ Supersede(d) \/ Repair(d)
       PROVE  RepairsNamed'
  <2>1. Done(d)
    <3>1. CASE Reject(d) \/ Reaffirm(d) \/ Reverse(d)
      BY <3>1 DEF Reject, Reaffirm, Reverse
    <3>2. CASE Promote(d) \/ Create(d)
      BY <3>2 DEF Promote, Create
    <3>3. CASE Supersede(d) \/ Repair(d)
      BY <3>3 DEF Supersede, Repair
    <3> QED BY <1>11, <3>1, <3>2, <3>3
  <2> QED BY <1>3, <2>1
<1> HIDE DEF RepairsNamed
<1> QED
  BY <1>3, <1>4, <1>5, <1>6, <1>8, <1>9, <1>10, <1>11 DEF GovernanceNext, Step

\* An M2M row is added with a status that stands or with an event that repairs it,
\* and a link ends together with its M2M row.
LEMMA LingeringStep ==
  ASSUME LingeringLinkWasRepaired, m2m \subseteq Bindings, RepairsNamed, GovernanceInv,
         [GovernanceNext]_governance
  PROVE  LingeringLinkWasRepaired' /\ m2m' \subseteq Bindings
<1> DEFINE Ended(s) == s \in {"reversed", "superseded"}
           Kept == LingeringLinkWasRepaired' /\ m2m' \subseteq Bindings
<1>0. /\ \A b \in Bindings : binding[b] \in Rows
      /\ DOMAIN binding = Bindings /\ DOMAIN events = Bindings
      /\ \A d \in Decisions : decision[d].pc # "idle" =>
           decision[d].b \in Bindings /\ decision[d].new \in Bindings
      /\ \A d \in Decisions : decision[d].op = "supersede" => decision[d].b # decision[d].new
  BY DEF GovernanceInv, GovernanceTyped, DecisionsFit
<1>1. ASSUME NEW d \in Decisions, NEW to, Record(d, to), decision[d].pc # "idle"
      PROVE  \A b \in Bindings : Repaired(b) => Repaired(b)'
  BY <1>0, <1>1 DEF Record, RecordEvent, Repaired
<1>a. ASSUME NEW d \in Decisions, NEW to, Record(d, to), decision[d].pc # "idle"
      PROVE  \E e \in events'[decision[d].b] :
               e.type = EventType(decision[d].op) /\ e.fp = decision[d].fp
  <2> DEFINE type == EventType(decision[d].op)
  <2>1. /\ decision[d].b \in Bindings
        /\ events' = [events EXCEPT ![decision[d].b] =
             RecordEvent(decision[d].b, type, decision[d].fp, decision[d].actor,
                         decision[d].from, to, None)]
    BY <1>0, <1>a DEF Record
  <2> HIDE DEF type
  <2>2. \E e \in RecordEvent(decision[d].b, type, decision[d].fp, decision[d].actor,
                            decision[d].from, to, None) :
          e.type = type /\ e.fp = decision[d].fp
    <3>1. CASE FindExistingEvent(decision[d].b, type, decision[d].fp, decision[d].actor)
      BY <3>1 DEF RecordEvent, FindExistingEvent
    <3>2. CASE ~FindExistingEvent(decision[d].b, type, decision[d].fp, decision[d].actor)
      <4> DEFINE e == [type |-> type, fp |-> decision[d].fp, actor |-> decision[d].actor,
                       from |-> decision[d].from, to |-> to, other |-> None]
      <4>1. e \in RecordEvent(decision[d].b, type, decision[d].fp, decision[d].actor,
                              decision[d].from, to, None)
        BY <3>2 DEF RecordEvent
      <4>2. e.type = type /\ e.fp = decision[d].fp
        OBVIOUS
      <4> QED BY <4>1, <4>2
    <3> QED BY <3>1, <3>2
  <2>3. \E e \in events'[decision[d].b] : e.type = type /\ e.fp = decision[d].fp
    BY <1>0, <2>1, <2>2
  <2> QED BY <2>3 DEF type
<1>2. ASSUME NEW d \in Decisions, Reject(d) PROVE Kept
  <2>1. /\ decision[d].pc # "idle" /\ Record(d, "rejected") /\ UNCHANGED m2m
        /\ \A b \in Bindings : Ended(binding'[b].status) => Ended(binding[b].status)
    BY <1>0, <1>2 DEF Reject, Writing, SetStatus, Rows
  <2> QED BY <1>1, <2>1 DEF LingeringLinkWasRepaired, Repaired
<1>3. ASSUME NEW d \in Decisions, Reaffirm(d) PROVE Kept
  <2> DEFINE b == decision[d].b
  <2>1. /\ decision[d].pc # "idle" /\ b \in Bindings /\ Record(d, "trusted") /\ UNCHANGED binding
        /\ decision[d].op = "reaffirm" /\ m2m' \subseteq m2m \union {b}
    BY <1>0, <1>3 DEF Reaffirm, Writing
  <2>2. EventType(decision[d].op) = "reaffirmed"
    BY <2>1 DEF EventType, Repairs
  <2>3. \E e \in events'[b] : e.type = "reaffirmed"
    BY <1>a, <2>1, <2>2
  <2>4. \A a \in Bindings : Repaired(a) => Repaired(a)'
    BY <1>1, <2>1
  <2> QED BY <2>1, <2>3, <2>4 DEF LingeringLinkWasRepaired, Repaired
<1>4. ASSUME NEW d \in Decisions, Reverse(d) PROVE Kept
  <2>1. /\ decision[d].pc # "idle" /\ Record(d, "reversed") /\ m2m' = m2m \ {decision[d].b}
        /\ \A b \in Bindings \ {decision[d].b} : binding'[b] = binding[b]
    BY <1>0, <1>4 DEF Reverse, Writing, SetStatus
  <2> QED BY <1>1, <2>1 DEF LingeringLinkWasRepaired, Repaired
<1>5. ASSUME NEW d \in Decisions, Promote(d) PROVE Kept
  <2> DEFINE b == decision[d].b
  <2>1. /\ decision[d].pc # "idle" /\ b \in Bindings /\ Record(d, "trusted")
        /\ m2m' \subseteq m2m \union {b}
    BY <1>0, <1>5 DEF Promote, Writing
  <2>2. binding'[b].status = "trusted" /\ \A a \in Bindings \ {b} : binding'[a] = binding[a]
    <3> DEFINE meth == CASE decision[d].op = "approve" -> binding[b].method
                         [] decision[d].op = "link" -> "manual"
                         [] decision[d].op = "create" -> "exact"
    <3>1. binding' = [binding EXCEPT ![b].status = "trusted", ![b].method = meth]
      BY <1>0, <1>5, <2>1 DEF Promote, Writing
    <3> HIDE DEF meth
    <3> QED BY <1>0, <2>1, <3>1 DEF Rows
  <2> QED BY <1>1, <2>1, <2>2 DEF LingeringLinkWasRepaired, Repaired
<1>6. ASSUME NEW d \in Decisions, Create(d) PROVE Kept
  <2> DEFINE b == decision[d].b
  <2>1. decision[d].pc # "idle" /\ b \in Bindings
    BY <1>0, <1>6 DEF Create, Writing
  <2>2. CASE binding[b].status = "none"
    <3>1. /\ m2m' = m2m \union {b}
          /\ \A a \in Bindings : events[a] \subseteq events'[a]
          /\ \A a \in Bindings \ {b} : binding'[a] = binding[a]
      BY <1>0, <1>6, <2>1, <2>2 DEF Create, RecordEvent
    <3>2. binding'[b].status = "trusted"
      <4> DEFINE row == [NoRow EXCEPT !.status = "trusted", !.method = "manual"]
      <4>1. row.status = "trusted"
        BY DEF NoRow
      <4>2. binding' = [binding EXCEPT ![b] = row]
        BY <1>6, <2>2 DEF Create
      <4> HIDE DEF row
      <4> QED BY <1>0, <2>1, <4>1, <4>2
    <3> QED BY <2>1, <3>1, <3>2 DEF LingeringLinkWasRepaired, Repaired
  <2>3. CASE binding[b].status # "none"
    BY <1>6, <2>3 DEF Create, LingeringLinkWasRepaired
  <2> QED BY <2>2, <2>3
<1>7. ASSUME NEW d \in Decisions, Supersede(d) PROVE Kept
  <2> DEFINE r == decision[d]
  <2>1. /\ r.b \in Bindings /\ r.new \in Bindings
        /\ m2m' = (m2m \union {r.new}) \ {r.b}
        /\ \A a \in Bindings : events[a] \subseteq events'[a]
    BY <1>0, <1>7 DEF Supersede, Writing, RecordEvent
  <2>2. binding'[r.new].status = "trusted"
        /\ \A a \in Bindings \ {r.b, r.new} : binding'[a] = binding[a]
    BY <1>7, SupersededRows
  <2> QED BY <2>1, <2>2 DEF LingeringLinkWasRepaired, Repaired
<1>8. ASSUME NEW d \in Decisions, Repair(d) PROVE Kept
  <2> DEFINE b == decision[d].b
  <2>1. /\ decision[d].pc # "idle" /\ Record(d, decision[d].from) /\ UNCHANGED binding
        /\ m2m' = IF decision[d].op = "accepted_missing_m2m" THEN m2m \union {b} ELSE m2m \ {b}
    BY <1>8 DEF Repair
  <2>2. b \in Bindings
    BY <1>0, <2>1
  <2>3. decision[d].op = "accepted_missing_m2m" =>
          \E e \in events'[b] : e.fp = <<"accepted_missing_m2m">>
    BY <1>a, <2>1 DEF RepairsNamed
  <2>4. \A a \in Bindings : Repaired(a) => Repaired(a)'
    BY <1>1, <2>1
  <2> QED BY <2>1, <2>2, <2>3, <2>4 DEF LingeringLinkWasRepaired, Repaired
<1>9. ASSUME NEW d \in Decisions,
             \/ Refresh(d) \/ RefreshNew(d) \/ RemoveM2M(d)
             \/ \E op \in Ops, b \in Bindings, n \in Bindings, u \in Users : Check(d, op, b, n, u)
      PROVE  Kept
  <2>1. m2m' \subseteq m2m /\ UNCHANGED <<binding, events>>
    <3>1. CASE Refresh(d) \/ RefreshNew(d)
      BY <3>1 DEF Refresh, RefreshNew
    <3>2. CASE RemoveM2M(d)
      BY <3>2 DEF RemoveM2M
    <3>3. ASSUME NEW op \in Ops, NEW b \in Bindings, NEW n \in Bindings, NEW u \in Users,
                 Check(d, op, b, n, u)
          PROVE  m2m' \subseteq m2m /\ UNCHANGED <<binding, events>>
      BY <3>3 DEF Check
    <3> QED BY <1>9, <3>1, <3>2, <3>3
  <2> QED BY <2>1 DEF LingeringLinkWasRepaired
<1>10. ASSUME NEW gone \in SUBSET Bindings, Delete(gone), m2m' \subseteq m2m
       PROVE  Kept
  <2>1. NoRow.status = "none"
    BY DEF NoRow
  <2>2. \A b \in gone : binding'[b].status = "none"
    BY <1>10, <2>1 DEF Delete, ClearForeignKeys
  <2>3. \A b \in Bindings \ gone : binding'[b].status = binding[b].status /\ events'[b] = events[b]
    <3> SUFFICES ASSUME NEW b \in Bindings \ gone
        PROVE  binding'[b].status = binding[b].status /\ events'[b] = events[b]
      OBVIOUS
    <3>1. binding'[b] = [binding[b] EXCEPT !.superseded_by = IF @ \in gone THEN None ELSE @]
      BY <1>10 DEF Delete, ClearForeignKeys
    <3> QED BY <1>0, <1>10, <3>1 DEF Delete, Rows
  <2> QED BY <1>10, <2>2, <2>3 DEF LingeringLinkWasRepaired
<1>11. ASSUME NEW d \in Decisions, Remove(d) PROVE Kept
  <2>1. {decision[d].b} \in SUBSET Bindings
    BY <1>0, <1>11 DEF Remove, Writing
  <2> QED BY <1>10, <1>11, <2>1 DEF Remove
<1>12. CASE AutolinkClear
  BY <1>10, <1>12 DEF AutolinkClear
<1>13. CASE AutolinkPersist
  <2> DEFINE proposal == [NoRow EXCEPT !.status = "active_review"]
  <2>1. proposal.status = "active_review"
    BY DEF NoRow
  <2>2. PICK found \in SUBSET {b \in Bindings : binding[b].status = "none"} :
          /\ binding' = [b \in Bindings |-> IF b \in found THEN proposal ELSE binding[b]]
          /\ m2m' = m2m /\ events' = events
    BY <1>13 DEF AutolinkPersist
  <2> HIDE DEF proposal
  <2> QED BY <2>1, <2>2 DEF LingeringLinkWasRepaired
<1>14. CASE UNCHANGED governance
  BY <1>14 DEF governance, LingeringLinkWasRepaired
<1> QED
  BY <1>2, <1>3, <1>4, <1>5, <1>6, <1>7, <1>8, <1>9, <1>11, <1>12, <1>13, <1>14
  DEF GovernanceNext, Step

\* Requests that repair say so, repairs explain what lingers, and the M2M holds
\* pairs of the project.
LEMMA RepairsHold ==
  GovernanceSpec => [](RepairsNamed /\ LingeringLinkWasRepaired /\ m2m \subseteq Bindings)
<1>1. GovernanceInit => RepairsNamed /\ LingeringLinkWasRepaired /\ m2m \subseteq Bindings
  BY DEF GovernanceInit, RepairsNamed, LingeringLinkWasRepaired, NoRow, Idle
<1>2. /\ GovernanceInv /\ RepairsNamed /\ LingeringLinkWasRepaired /\ m2m \subseteq Bindings
      /\ [GovernanceNext]_governance
      => RepairsNamed' /\ LingeringLinkWasRepaired' /\ (m2m \subseteq Bindings)'
  BY RepairsNamedStep, LingeringStep
<1> QED BY <1>1, <1>2, GovernanceInvariant, PTL DEF GovernanceSpec

\* A reversed or superseded link still in its task's M2M was put there by a repair or
\* a reaffirmation of that very row: no promotion that overlaps the reversal leaves
\* it behind.
THEOREM OnlyRepairsLinger == GovernanceSpec => []LingeringLinkWasRepaired
BY RepairsHold, PTL

-----------------------------------------------------------------------------
(* Types.                                                                   *)

\* A request names rows of the project and a user, and so do the events.
RequestsTyped ==
  \A d \in Decisions : LET r == decision[d] IN
    /\ "actor" \in DOMAIN r
    /\ r.pc \in {"idle", "checked", "half", "read"} /\ r.op \in Ops
    /\ r.pc # "idle" => r.actor \in Users

EventTyped(e) == e.actor \in Users /\ e.other \in Bindings \union {None}
EventsTyped == \A b \in Bindings : \A e \in events[b] : EventTyped(e)

GovernanceTypes == RequestsTyped /\ EventsTyped

\* Every step keeps the types of the requests and their actors.
LEMMA RequestsTypedStep ==
  ASSUME GovernanceInv, RequestsTyped, [GovernanceNext]_governance
  PROVE  RequestsTyped'
<1> USE DEF RequestsTyped
<1>1. DOMAIN decision = Decisions /\ \A d \in Decisions : Fields \subseteq DOMAIN decision[d]
  BY DEF GovernanceInv, DecisionsFit
<1>2. "actor" \in DOMAIN Idle /\ Idle.pc = "idle" /\ Idle.op \in Ops
  BY DEF Idle, Ops
<1>3. ASSUME NEW d \in Decisions, Done(d) PROVE RequestsTyped'
  BY <1>1, <1>2, <1>3 DEF Done
<1>4. ASSUME NEW d \in Decisions, NEW r, decision' = [decision EXCEPT ![d] = r],
             DOMAIN r = DOMAIN decision[d], r.op = decision[d].op, r.actor = decision[d].actor,
             decision[d].pc # "idle", r.pc \in {"half", "read"}
      PROVE  RequestsTyped'
  BY <1>1, <1>4
<1>5. ASSUME NEW d \in Decisions, NEW op \in Ops, NEW b \in Bindings, NEW n \in Bindings,
             NEW u \in Users, Check(d, op, b, n, u)
      PROVE  RequestsTyped'
  <2> DEFINE fp == Fingerprint(op, b, n)
             r == [Idle EXCEPT !.pc = "checked", !.op = op, !.b = b, !.new = n,
                               !.actor = u, !.fp = fp]
  <2>1. decision' = [decision EXCEPT ![d] = r]
    BY <1>5 DEF Check
  <2> HIDE DEF fp
  <2>2. "actor" \in DOMAIN r /\ r.pc = "checked" /\ r.op = op /\ r.actor = u
    BY DEF Idle
  <2> HIDE DEF r
  <2> QED BY <1>1, <2>1, <2>2
<1>6. ASSUME NEW d \in Decisions, Refresh(d), ~Done(d) PROVE RequestsTyped'
  <2> DEFINE pc == IF decision[d].op = "supersede" THEN "half" ELSE "read"
             from == binding[decision[d].b].status
             had == decision[d].b \in m2m
             r == [decision[d] EXCEPT !.pc = pc, !.from = from, !.hadM2M = had]
  <2>1. decision' = [decision EXCEPT ![d].pc = pc, ![d].from = from, ![d].hadM2M = had]
    BY <1>6 DEF Refresh
  <2>2. pc \in {"half", "read"}
    OBVIOUS
  <2> HIDE DEF pc, from, had
  <2>3. decision' = [decision EXCEPT ![d] = r]
    BY <1>1, <2>1
  <2>4. /\ DOMAIN r = DOMAIN decision[d] /\ r.op = decision[d].op
        /\ r.actor = decision[d].actor /\ r.pc = pc
    BY <1>1 DEF Fields
  <2>5. decision[d].pc # "idle"
    BY <1>6 DEF Refresh
  <2> HIDE DEF r
  <2> QED BY <1>4, <2>2, <2>3, <2>4, <2>5
<1>7. ASSUME NEW d \in Decisions, RefreshNew(d) \/ RemoveM2M(d), ~Done(d) PROVE RequestsTyped'
  <2> DEFINE r == [decision[d] EXCEPT !.pc = "read"]
  <2>1. decision' = [decision EXCEPT ![d] = r] /\ decision[d].pc # "idle"
    BY <1>1, <1>7 DEF RefreshNew, RemoveM2M
  <2>2. /\ DOMAIN r = DOMAIN decision[d] /\ r.op = decision[d].op
        /\ r.actor = decision[d].actor /\ r.pc = "read"
    BY <1>1 DEF Fields
  <2> HIDE DEF r
  <2> QED BY <1>4, <2>1, <2>2
<1>8. ASSUME NEW gone, Delete(gone) PROVE RequestsTyped'
  BY <1>1, <1>2, <1>8 DEF Delete
<1>9. ASSUME NEW d \in Decisions,
             \/ Reject(d) \/ Reaffirm(d) \/ Reverse(d) \/ Promote(d) \/ Create(d)
             \/ Supersede(d) \/ Repair(d)
      PROVE  RequestsTyped'
  <2>1. Done(d)
    <3>1. CASE Reject(d) \/ Reaffirm(d) \/ Reverse(d)
      BY <3>1 DEF Reject, Reaffirm, Reverse
    <3>2. CASE Promote(d) \/ Create(d)
      BY <3>2 DEF Promote, Create
    <3>3. CASE Supersede(d) \/ Repair(d)
      BY <3>3 DEF Supersede, Repair
    <3> QED BY <1>9, <3>1, <3>2, <3>3
  <2> QED BY <1>3, <2>1
<1>10. CASE AutolinkClear \/ AutolinkPersist \/ UNCHANGED governance
  BY <1>8, <1>10 DEF AutolinkClear, AutolinkPersist, governance
<1> HIDE DEF RequestsTyped
<1> QED
  BY <1>3, <1>5, <1>6, <1>7, <1>8, <1>9, <1>10 DEF GovernanceNext, Step, Remove

\* An event that is recorded has the actor of its request and no partner but a row.
LEMMA RecordTyped ==
  ASSUME EventsTyped, NEW b \in Bindings, NEW type, NEW fp, NEW actor \in Users, NEW from,
         NEW to, NEW other \in Bindings \union {None}
  PROVE  \A e \in RecordEvent(b, type, fp, actor, from, to, other) : EventTyped(e)
BY DEF RecordEvent, EventsTyped, EventTyped

\* Every event is written with an actor and about rows of the schedule.
LEMMA EventsTypedStep ==
  ASSUME GovernanceInv, GovernanceTypes, [GovernanceNext]_governance
  PROVE  EventsTyped'
<1> USE DEF EventsTyped
<1>1. DOMAIN events = Bindings /\ EventsTyped
  BY DEF GovernanceInv, GovernanceTyped, GovernanceTypes
<1>2. \A d \in Decisions : decision[d].pc # "idle" =>
        decision[d].b \in Bindings /\ decision[d].new \in Bindings /\ decision[d].actor \in Users
  BY DEF GovernanceInv, DecisionsFit, GovernanceTypes, RequestsTyped
<1>3. ASSUME NEW d \in Decisions, decision[d].pc # "idle", NEW to, Record(d, to)
      PROVE  EventsTyped'
  <2> DEFINE r == decision[d]
             E == RecordEvent(r.b, EventType(r.op), r.fp, r.actor, r.from, to, None)
  <2>1. r.b \in Bindings /\ events' = [events EXCEPT ![r.b] = E]
    BY <1>2, <1>3 DEF Record
  <2>2. \A e \in E : EventTyped(e)
    BY <1>1, <1>2, <1>3, RecordTyped
  <2> HIDE DEF E
  <2>3. ASSUME NEW b \in Bindings, NEW e \in events'[b] PROVE EventTyped(e)
    BY <1>1, <2>1, <2>2, <2>3
  <2> QED BY <2>3 DEF EventTyped
<1>4. ASSUME NEW d \in Decisions,
             Reject(d) \/ Reaffirm(d) \/ Reverse(d) \/ Promote(d) \/ Repair(d)
      PROVE  EventsTyped'
  BY <1>3, <1>4 DEF Reject, Reaffirm, Reverse, Promote, Repair, Writing
<1>5. ASSUME NEW d \in Decisions, Create(d) PROVE EventsTyped'
  <2> DEFINE r == decision[d]
             E == RecordEvent(r.b, "approved", r.fp, r.actor, "active_review", "trusted", None)
  <2>1. r.b \in Bindings /\ r.actor \in Users
    BY <1>2, <1>5 DEF Create, Writing
  <2>2. \A e \in E : EventTyped(e)
    BY <1>1, <2>1, RecordTyped
  <2>3. events' = [events EXCEPT ![r.b] = E] \/ events' = events
    BY <1>5 DEF Create
  <2> HIDE DEF E
  <2>4. ASSUME NEW b \in Bindings, NEW e \in events'[b] PROVE EventTyped(e)
    BY <1>1, <2>1, <2>2, <2>3, <2>4
  <2> QED BY <2>4 DEF EventTyped
<1>6. ASSUME NEW d \in Decisions, Supersede(d) PROVE EventsTyped'
  <2> DEFINE r == decision[d]
             O == RecordEvent(r.b, "superseded", r.fp, r.actor, r.from, "superseded", r.new)
             N == RecordEvent(r.new, "superseding_acceptance", <<r.b, r.fp>>, r.actor,
                              "active_review", "trusted", r.b)
  <2>1. r.b \in Bindings /\ r.new \in Bindings /\ r.actor \in Users
    BY <1>2, <1>6 DEF Supersede, Writing
  <2>2. \A e \in O \union N : EventTyped(e)
    BY <1>1, <2>1, RecordTyped
  <2>3. events' = [events EXCEPT ![r.b] = O, ![r.new] = N]
    BY <1>6 DEF Supersede
  <2> HIDE DEF O, N
  <2>4. ASSUME NEW b \in Bindings, NEW e \in events'[b] PROVE EventTyped(e)
    BY <1>1, <2>1, <2>2, <2>3, <2>4
  <2> QED BY <2>4 DEF EventTyped
<1>7. ASSUME NEW gone, Delete(gone) PROVE EventsTyped'
  BY <1>1, <1>7 DEF Delete, EventTyped
<1>8. ASSUME UNCHANGED events PROVE EventsTyped'
  BY <1>1, <1>8 DEF EventTyped
<1> HIDE DEF EventsTyped
<1>9. ASSUME NEW d \in Decisions, Step(d) PROVE EventsTyped'
  <2>1. ASSUME NEW op, NEW b, NEW n, NEW u, Check(d, op, b, n, u) PROVE EventsTyped'
    BY <1>8, <2>1 DEF Check
  <2>2. CASE Refresh(d) \/ RefreshNew(d) \/ RemoveM2M(d)
    BY <1>8, <2>2 DEF Refresh, RefreshNew, RemoveM2M
  <2>3. CASE Remove(d)
    BY <1>7, <2>3 DEF Remove
  <2> QED BY <1>4, <1>5, <1>6, <1>9, <2>1, <2>2, <2>3 DEF Step
<1> QED
  BY <1>7, <1>8, <1>9 DEF GovernanceNext, AutolinkClear, AutolinkPersist, governance

\* Whatever requests, removals and autolink runs overlap, the governance keeps to
\* its types: M2M rows and events are about pairs and users of the project.
THEOREM GovernanceTypeCorrect == GovernanceSpec => []GovernanceTypeOK
<1>1. GovernanceInit => GovernanceTypes
  BY DEF GovernanceInit, GovernanceTypes, RequestsTyped, EventsTyped, Idle, Ops
<1>2. GovernanceInv /\ GovernanceTypes /\ [GovernanceNext]_governance => GovernanceTypes'
  BY RequestsTypedStep, EventsTypedStep DEF GovernanceTypes
<1>3. GovernanceInv /\ GovernanceTypes /\ m2m \subseteq Bindings => GovernanceTypeOK
  BY DEF GovernanceInv, GovernanceTyped, DecisionsFit, GovernanceTypes, RequestsTyped,
     EventsTyped, EventTyped, GovernanceTypeOK
<1> QED
  BY <1>1, <1>2, <1>3, GovernanceInvariant, RepairsHold, PTL DEF GovernanceSpec
=============================================================================
