------------------------- MODULE BindingGovernance -------------------------
(***************************************************************************)
(* The governance of schedule links in one project.  A TaskEntityBinding    *)
(* proposes that a task builds an element; decisions move it through its    *)
(* lifecycle, keep the legacy task-element M2M row in step and append       *)
(* BindingGovernanceEvents.  Every decision is a request of three moments:  *)
(* it previews and validates (Check), re-reads inside its transaction       *)
(* without locking (Refresh) and writes by primary key (Commit).            *)
(*                                                                         *)
(* needs_review and is_active are functions of governance_status, as the    *)
(* field sets every writer uses make them.  A fingerprint is the tuple of   *)
(* what the code hashes; an event is identified by its decision reference:  *)
(* type, fingerprint and actor.                                             *)
(***************************************************************************)
EXTENDS Common, Naturals, FiniteSets, Functions

CONSTANTS
  Bindings,     \* task-element pairs; the constraint allows one row for each
  Decisions,    \* concurrent requests
  MaxEvents     \* bound: no request starts with that many events recorded

ASSUME DecisionAssumption == None \notin Bindings

Inactive == {"rejected", "reversed", "superseded"}
Status == {"active_review", "trusted"} \union Inactive
NeedsReview(s) == s \in {"active_review", "rejected"}
Methods == {"exact", "manual"}

VARIABLES
  binding,   \* the rows; status "none" where there is none
  m2m,       \* pairs in Task.ifc_entities
  events,    \* the events of each row
  decision   \* what each request is doing and what it has read
governance == <<binding, m2m, events, decision>>

NoRow == [status |-> "none", method |-> "exact", superseded_by |-> None]
Rows == [status : Status \union {"none"}, method : Methods,
         superseded_by : Bindings \union {None}]

RowOps  == {"approve", "reject", "reaffirm", "reverse"}
Repairs == {"accepted_missing_m2m", "m2m_without_accepted", "review_m2m_leak"}
Ops     == RowOps \union Repairs \union {"supersede", "link", "create", "remove"}

Idle == [pc |-> "idle", op |-> "remove", b |-> None, new |-> None, actor |-> None,
         fp |-> <<>>, from |-> "none", hadM2M |-> FALSE]

EventType(op) ==
  CASE op = "reject" -> "rejected"
    [] op = "reaffirm" -> "reaffirmed"
    [] op = "reverse" -> "reversed"
    [] op = "supersede" -> "superseded"
    [] op \in Repairs -> "parity_repaired"
    [] OTHER -> "approved"

(* What the fingerprint of an operation hashes, without what is the same    *)
(* for every row the operation accepts.  Manual links have a constant one.  *)
Fingerprint(op, b, n) ==
  CASE op = "approve" -> <<binding[b].method>>
    [] op = "supersede" -> <<n, binding[b].status, binding[n].status>>
    [] op \in Repairs -> <<op>>
    [] op = "link" -> <<"trust-promotion">>
    [] op = "create" -> <<"trusted-create">>
    [] OTHER -> <<binding[b].status, binding[b].method>>

FindExistingEvent(b, type, fp, actor) ==
  \E e \in events[b] : e.type = type /\ e.fp = fp /\ e.actor = actor

(* The event record_event appends, unless its reference is already there.   *)
RecordEvent(b, type, fp, actor, from, to, other) ==
  IF FindExistingEvent(b, type, fp, actor) THEN events[b]
  ELSE events[b] \union {[type |-> type, fp |-> fp, actor |-> actor,
                          from |-> from, to |-> to, other |-> other]}

(* Mutant: any active row may replace another.                              *)
IsReplacementIfActive(n) == binding[n].status \in {"active_review", "trusted"}

IsReplacement(n) == binding[n].status = "active_review"

Eligible(op, b, n) ==
  LET s == binding[b].status IN
  CASE op = "approve" -> NeedsReview(s)
    [] op = "reject" -> s = "active_review"
    [] op \in {"reaffirm", "reverse"} -> s = "trusted"
    [] op = "supersede" -> s = "trusted" /\ IsReplacement(n)
    [] op = "accepted_missing_m2m" -> s = "trusted" /\ b \notin m2m
    [] op = "m2m_without_accepted" -> s # "trusted" /\ b \in m2m
    [] op = "review_m2m_leak" -> s = "active_review" /\ b \in m2m
    [] op = "link" -> s # "none"
    [] op = "create" -> s = "none"
    [] op = "remove" -> s # "none"

-----------------------------------------------------------------------------
(* Legacy M2M rows predate the governance.                                  *)
GovernanceInit ==
  /\ binding = [b \in Bindings |-> NoRow]
  /\ m2m \in SUBSET Bindings
  /\ events = [b \in Bindings |-> {}]
  /\ decision = [d \in Decisions |-> Idle]

(* A request validates.  A known reference ends it as a no-op; for a link   *)
(* or a removal nobody looks.                                               *)
Check(d, op, b, n, u) ==
  LET fp == Fingerprint(op, b, n) IN
  /\ decision[d].pc = "idle"
  /\ SumFunction([a \in Bindings |-> Cardinality(events[a])]) < MaxEvents
  /\ op = "supersede" \/ n = b
  /\ Eligible(op, b, n)
  /\ op \in {"approve", "link", "create", "remove"}
       \/ ~FindExistingEvent(b, EventType(op), fp, u)
  /\ decision' = [decision EXCEPT ![d] =
       [Idle EXCEPT !.pc = "checked", !.op = op, !.b = b, !.new = n,
                    !.actor = u, !.fp = fp]]
  /\ UNCHANGED <<binding, m2m, events>>

Done(d) == decision' = [decision EXCEPT ![d] = Idle]

(* refresh_from_db inside the transaction, and the second eligibility       *)
(* test.  Promotion passes any row that is not trusted yet; parity repair   *)
(* only reads the status it will put into the event.                        *)
Passes(d) ==
  LET r == decision[d] IN
  CASE r.op \in {"approve", "link", "create"} -> binding[r.b].status # "trusted"
    [] r.op \in Repairs \union {"supersede"} -> TRUE
    [] OTHER -> Eligible(r.op, r.b, r.new)

Refresh(d) ==
  LET r == decision[d] IN
  /\ r.pc = "checked"
  /\ r.op # "remove"
  /\ IF Passes(d)
     THEN decision' = [decision EXCEPT
            ![d].pc = IF r.op = "supersede" THEN "half" ELSE "read",
            ![d].from = binding[r.b].status,
            ![d].hadM2M = r.b \in m2m]
     ELSE Done(d)
  /\ UNCHANGED <<binding, m2m, events>>

(* A supersession reads its two rows one after the other.                   *)
RefreshNew(d) ==
  LET r == decision[d] IN
  /\ r.pc = "half"
  /\ IF r.from = "trusted" /\ IsReplacement(r.new)
     THEN decision' = [decision EXCEPT ![d].pc = "read"]
     ELSE Done(d)
  /\ UNCHANGED <<binding, m2m, events>>

Writing(d, op) == decision[d].pc = "read" /\ decision[d].op = op

SetStatus(b, s) == binding' = [binding EXCEPT ![b].status = s]

(* The event of a decision on its own row.                                  *)
Record(d, to) ==
  LET r == decision[d] IN
  events' = [events EXCEPT ![r.b] =
    RecordEvent(r.b, EventType(r.op), r.fp, r.actor, r.from, to, None)]

Reject(d) ==
  /\ Writing(d, "reject")
  /\ SetStatus(decision[d].b, "rejected")
  /\ Record(d, "rejected")
  /\ Done(d)
  /\ UNCHANGED m2m

(* With or without the optional M2M repair.                                 *)
Reaffirm(d) ==
  /\ Writing(d, "reaffirm")
  /\ m2m' \in {m2m, m2m \union {decision[d].b}}
  /\ Record(d, "trusted")
  /\ Done(d)
  /\ UNCHANGED binding

(* Mutant: the M2M row stays.                                               *)
ReverseKeepsM2M(d) ==
  /\ Writing(d, "reverse")
  /\ SetStatus(decision[d].b, "reversed")
  /\ Record(d, "reversed")
  /\ Done(d)
  /\ UNCHANGED m2m

Reverse(d) ==
  /\ Writing(d, "reverse")
  /\ SetStatus(decision[d].b, "reversed")
  /\ m2m' = m2m \ {decision[d].b}
  /\ Record(d, "reversed")
  /\ Done(d)

(* promote_bindings_to_trusted: the M2M row is added only if the            *)
(* transaction read none; a manual link also takes over the method.         *)
Promote(d) ==
  LET r == decision[d] IN
  /\ Writing(d, "approve") \/ Writing(d, "link") \/ Writing(d, "create")
  /\ r.from # "none"
  /\ binding' = [binding EXCEPT
       ![r.b].status = "trusted",
       ![r.b].method = CASE r.op = "approve" -> @ [] r.op = "link" -> "manual"
                         [] r.op = "create" -> "exact"]
  /\ m2m' = IF r.hadM2M THEN m2m ELSE m2m \union {r.b}
  /\ Record(d, "trusted")
  /\ Done(d)

(* create_trusted_bindings for a pair it read no row of: the constraint     *)
(* aborts it when one has appeared.                                         *)
Create(d) ==
  LET r == decision[d] IN
  /\ Writing(d, "create")
  /\ r.from = "none"
  /\ IF binding[r.b].status = "none"
     THEN /\ binding' = [binding EXCEPT
               ![r.b] = [NoRow EXCEPT !.status = "trusted", !.method = "manual"]]
          /\ m2m' = m2m \union {r.b}
          /\ events' = [events EXCEPT ![r.b] =
               RecordEvent(r.b, "approved", r.fp, r.actor, "active_review", "trusted", None)]
     ELSE UNCHANGED <<binding, m2m, events>>
  /\ Done(d)

(* Mutant: both events get the same reference, so the second is not made.   *)
SupersedeOneReference(d) ==
  LET r == decision[d] IN
  /\ Writing(d, "supersede")
  /\ binding' = [binding EXCEPT
       ![r.b].status = "superseded", ![r.b].superseded_by = r.new,
       ![r.new].status = "trusted"]
  /\ m2m' = (m2m \union {r.new}) \ {r.b}
  /\ events' = [events EXCEPT
       ![r.b] = RecordEvent(r.b, "superseded", r.fp, r.actor, r.from, "superseded", r.new)]
  /\ Done(d)

(* The reference of the second event is that of the first with ":new".      *)
Supersede(d) ==
  LET r == decision[d] IN
  /\ Writing(d, "supersede")
  /\ binding' = [binding EXCEPT
       ![r.b].status = "superseded", ![r.b].superseded_by = r.new,
       ![r.new].status = "trusted"]
  /\ m2m' = (m2m \union {r.new}) \ {r.b}
  /\ events' = [events EXCEPT
       ![r.b] = RecordEvent(r.b, "superseded", r.fp, r.actor, r.from, "superseded", r.new),
       ![r.new] = RecordEvent(r.new, "superseding_acceptance", <<r.b, r.fp>>, r.actor,
                              "active_review", "trusted", r.b)]
  /\ Done(d)

Repair(d) ==
  LET r == decision[d] IN
  /\ r.pc = "read"
  /\ r.op \in Repairs
  /\ m2m' = IF r.op = "accepted_missing_m2m" THEN m2m \union {r.b} ELSE m2m \ {r.b}
  /\ Record(d, r.from)
  /\ Done(d)
  /\ UNCHANGED binding

-----------------------------------------------------------------------------
(* Mutant: rows keep pointing at the one that is gone.                      *)
DanglingForeignKeys(gone) ==
  binding' = [b \in Bindings |-> IF b \in gone THEN NoRow ELSE binding[b]]

ClearForeignKeys(gone) ==
  binding' = [b \in Bindings |->
    IF b \in gone THEN NoRow
    ELSE [binding[b] EXCEPT !.superseded_by = IF @ \in gone THEN None ELSE @]]

(* Rows that are deleted take their foreign keys with them, and a request   *)
(* that was about such a row fails.  An orphan repair is about the pair,    *)
(* and so is the reference of its event.                                    *)
Delete(gone) ==
  /\ ClearForeignKeys(gone)
  /\ events' = [b \in Bindings |->
       IF b \in gone THEN {e \in events[b] : e.fp = <<"m2m_without_accepted">>}
       ELSE events[b]]
  /\ decision' = [d \in Decisions |->
       LET r == decision[d] IN
       IF /\ {r.b, r.new} \cap gone # {}
          /\ r.op # "m2m_without_accepted"
          /\ ~(r.op = "create" /\ r.from = "none")
       THEN Idle ELSE r]

(* BindingRemoveView: the M2M row first, the binding in a second            *)
(* transaction.                                                             *)
RemoveM2M(d) ==
  /\ decision[d].pc = "checked"
  /\ decision[d].op = "remove"
  /\ decision' = [decision EXCEPT ![d].pc = "read"]
  /\ m2m' = m2m \ {decision[d].b}
  /\ UNCHANGED <<binding, events>>

Remove(d) ==
  /\ Writing(d, "remove")
  /\ Delete({decision[d].b})
  /\ UNCHANGED m2m

(* run_autolink clears the links of its tasks, and minutes later inserts    *)
(* the proposals it found, skipping pairs that have a row again.            *)
AutolinkClear ==
  /\ Delete({b \in Bindings : binding[b].status # "none"})
  /\ m2m' = {}

AutolinkPersist ==
  \E found \in SUBSET {b \in Bindings : binding[b].status = "none"} :
    /\ found # {}
    /\ binding' = [b \in Bindings |->
         IF b \in found THEN [NoRow EXCEPT !.status = "active_review"] ELSE binding[b]]
    /\ UNCHANGED <<m2m, events, decision>>

-----------------------------------------------------------------------------
Step(d) ==
  \/ \E op \in Ops, b \in Bindings, n \in Bindings, u \in Users : Check(d, op, b, n, u)
  \/ Refresh(d) \/ RefreshNew(d)
  \/ Reject(d) \/ Reaffirm(d) \/ Reverse(d) \/ Promote(d) \/ Create(d)
  \/ Supersede(d) \/ Repair(d) \/ RemoveM2M(d) \/ Remove(d)

GovernanceNext ==
  \/ \E d \in Decisions : Step(d)
  \/ AutolinkClear
  \/ AutolinkPersist

GovernanceSpec == GovernanceInit /\ [][GovernanceNext]_governance

-----------------------------------------------------------------------------
GovernanceTypeOK ==
  /\ binding \in [Bindings -> Rows]
  /\ m2m \subseteq Bindings
  /\ \A b \in Bindings : \A e \in events[b] :
       e.actor \in Users /\ e.other \in Bindings \union {None}
  /\ \A d \in Decisions : LET r == decision[d] IN
       /\ r.pc \in {"idle", "checked", "half", "read"} /\ r.op \in Ops
       /\ r.pc # "idle" => {r.b, r.new} \subseteq Bindings

DecisionTypes == {"approved", "rejected", "reversed", "superseded", "superseding_acceptance"}

(* Whatever requests overlap, a row never has a decided status without an   *)
(* event of that very row that decided it: the references that make a       *)
(* repeated request a no-op never swallow the only event of a decision.     *)
StatusIsRecorded ==
  \A b \in Bindings : binding[b].status \notin {"none", "active_review"} =>
    \E e \in events[b] : e.type \in DecisionTypes /\ e.to = binding[b].status

(* Following superseded_by ends: no group of bindings replace one another   *)
(* in a circle, although the two rows of a supersession are read unlocked   *)
(* and one after the other.                                                 *)
SupersessionsEnd ==
  \A S \in (SUBSET Bindings) \ {{}} : \E b \in S : binding[b].superseded_by \notin S

(* A row that names its replacement and the replacement carry the two       *)
(* events that point at each other.                                         *)
SupersessionIsPaired ==
  \A b \in Bindings : LET n == binding[b].superseded_by IN
    n # None =>
      /\ \E e \in events[b] : e.type = "superseded" /\ e.other = n
      /\ \E e \in events[n] : e.type = "superseding_acceptance" /\ e.other = b

(* A link that was reversed or superseded is still in the task's M2M only   *)
(* if someone asked for a parity repair of that very row: no promotion      *)
(* that overlaps the reversal leaves it behind.                             *)
LingeringLinkWasRepaired ==
  \A b \in m2m : binding[b].status \in {"reversed", "superseded"} =>
    \E e \in events[b] : e.fp = <<"accepted_missing_m2m">> \/ e.type = "reaffirmed"
=============================================================================
