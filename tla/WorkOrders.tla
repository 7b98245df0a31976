----------------------------- MODULE WorkOrders -----------------------------
(***************************************************************************)
(* Work orders and the permits they need, in one project.  A view reads a   *)
(* row, a service method checks the object it was handed and saves it;      *)
(* nothing locks the row or looks at it again in between, so every request  *)
(* acts on what it read.  A transition and its WorkOrderStatusEvent commit  *)
(* together.  Bulk actions are requests one after the other.                *)
(*                                                                         *)
(* Dates are abstracted to whether they are set, the audit log of a work    *)
(* order to the set of statuses its events reached.                         *)
(***************************************************************************)
EXTENDS FiniteSets, Sequences

CONSTANTS
  WorkOrders, Permits, Requests, Users,
  RoleOf,        \* the active ProjectRole of each user
  Requesters,    \* users who file work orders
  Assignees,     \* whom a form may assign: users, None for a vendor
  EditStatuses,  \* statuses a permit form may carry
  None

FMAndOwner == {"facilitiesmanager", "buildingowner"}
EngineersAndVendors == {"maintenanceengineer", "contractor", "subcontractor"}

Statuses == {"DRAFT", "SUBMITTED", "TRIAGED", "ASSIGNED", "SCHEDULED", "IN_PROGRESS",
             "COMPLETED", "VERIFIED", "CLOSED", "CANCELLED"}
BeforeStart == {"DRAFT", "SUBMITTED", "TRIAGED", "ASSIGNED", "SCHEDULED"}
Terminal == {"CLOSED", "CANCELLED"}
PermitStatus == {"draft", "active", "lapsed", "expired", "revoked"}
  \* lapsed: ACTIVE outside its validity window

ASSUME FormsAssumption ==
  /\ Requesters \subseteq Users
  /\ Assignees \subseteq Users \union {None}
  /\ EditStatuses \subseteq PermitStatus
ASSUME NoneAssumption == None \notin Users \union WorkOrders \union Permits

Rule(from, name, to, roles, match) ==
  [from |-> from, name |-> name, to |-> to, roles |-> roles, match |-> match]
Transitions == {
  Rule("DRAFT", "submit", "SUBMITTED", {}, FALSE),
  Rule("SUBMITTED", "triage", "TRIAGED", FMAndOwner, FALSE),
  Rule("SUBMITTED", "cancel", "CANCELLED", FMAndOwner \union {"requester"}, FALSE),
  Rule("TRIAGED", "assign", "ASSIGNED", FMAndOwner, FALSE),
  Rule("TRIAGED", "cancel", "CANCELLED", FMAndOwner, FALSE),
  Rule("ASSIGNED", "schedule", "SCHEDULED",
       {"facilitiesmanager"} \union EngineersAndVendors, TRUE),
  Rule("ASSIGNED", "start", "IN_PROGRESS", EngineersAndVendors, TRUE),
  Rule("ASSIGNED", "cancel", "CANCELLED", FMAndOwner, FALSE),
  Rule("SCHEDULED", "start", "IN_PROGRESS", EngineersAndVendors, TRUE),
  Rule("SCHEDULED", "reassign", "ASSIGNED", FMAndOwner, FALSE),
  Rule("IN_PROGRESS", "complete", "COMPLETED", EngineersAndVendors, TRUE),
  Rule("IN_PROGRESS", "pause", "ASSIGNED",
       {"facilitiesmanager"} \union EngineersAndVendors, FALSE),
  Rule("COMPLETED", "verify", "VERIFIED", FMAndOwner, FALSE),
  Rule("COMPLETED", "reject", "ASSIGNED", FMAndOwner, FALSE),
  Rule("VERIFIED", "close", "CLOSED", FMAndOwner, FALSE),
  Rule("CLOSED", "reopen", "ASSIGNED", FMAndOwner \union {"auditor"}, FALSE)}

VARIABLES
  wo,       \* the WorkOrder rows
  trail,    \* the to_status values of each one's WorkOrderStatusEvents
  links,    \* permits linked to each work order
  permit,   \* status of each Permit
  pc,       \* what each request has read
  on,       \* the row it is about
  row,      \* the WorkOrder object it read
  read,     \* the status of the Permit it read
  blocking, \* start: linked permits it found not in force
  holding   \* revoke: work orders its query found in progress

db   == <<wo, trail, links, permit>>
mine == <<pc, on, row, read, blocking, holding>>
vars == <<db, mine>>

Rows == [status : Statuses \union {"none"}, assignee : Users \union {None},
         requester : Users \union {None}, started : BOOLEAN, ended : BOOLEAN,
         verified : BOOLEAN, closed : BOOLEAN]
Blank == [status |-> "none", assignee |-> None, requester |-> None, started |-> FALSE,
          ended |-> FALSE, verified |-> FALSE, closed |-> FALSE]
Created(w) == wo[w].status # "none"

Init ==
  /\ wo = [w \in WorkOrders |-> Blank]
  /\ trail = [w \in WorkOrders |-> {}]
  /\ links = [w \in WorkOrders |-> {}]
  /\ permit \in [Permits -> EditStatuses]      \* as the create form says
  /\ pc = [r \in Requests |-> "idle"]
  /\ on = [r \in Requests |-> None]
  /\ row = [r \in Requests |-> Blank]
  /\ read = [r \in Requests |-> "none"]
  /\ blocking = [r \in Requests |-> {}]
  /\ holding = [r \in Requests |-> {}]

-----------------------------------------------------------------------------
(* Reading: what a view fetches before it calls the service.  Which operation the         *)
(* request is for, and by whom, matters only once it acts: it is chosen there.           *)

Begins(r, x, label) ==
  /\ pc[r] = "idle"
  /\ pc' = [pc EXCEPT ![r] = label]
  /\ on' = [on EXCEPT ![r] = x]

\* The request is over; its objects are gone.
Ends(r) ==
  /\ pc' = [pc EXCEPT ![r] = "idle"]
  /\ on' = [on EXCEPT ![r] = None]
  /\ row' = [row EXCEPT ![r] = Blank]
  /\ read' = [read EXCEPT ![r] = "none"]
  /\ blocking' = [blocking EXCEPT ![r] = {}]
  /\ holding' = [holding EXCEPT ![r] = {}]

ReadWorkOrder(r) == \E w \in WorkOrders :
  /\ Created(w)
  /\ Begins(r, w, "order")
  /\ row' = [row EXCEPT ![r] = wo[w]]
  /\ UNCHANGED <<db, read, blocking, holding>>

\* The prefetch of get_work_order, a statement of its own; only start looks at it.
ReadPermits(r) ==
  /\ pc[r] = "order" /\ row[r].status \in {"ASSIGNED", "SCHEDULED"}
  /\ pc' = [pc EXCEPT ![r] = "permits"]
  /\ blocking' = [blocking EXCEPT ![r] = {p \in links[on[r]] : permit[p] # "active"}]
  /\ UNCHANGED <<db, on, row, read, holding>>

ReadPermit(r) == \E p \in Permits :
  /\ Begins(r, p, "permit")
  /\ read' = [read EXCEPT ![r] = permit[p]]
  /\ UNCHANGED <<db, row, blocking, holding>>

\* The service method raises and nothing changes.
Refuse(r) ==
  /\ pc[r] \notin {"idle", "holding"}
  /\ Ends(r)
  /\ UNCHANGED db

-----------------------------------------------------------------------------
(* Work orders. *)

Draft(u, v) == [Blank EXCEPT !.status = "DRAFT", !.requester = u, !.assignee = v]

\* The create form; the row and its first event commit together.
CreateWorkOrder == \E w \in WorkOrders, u \in Requesters, v \in Assignees :
  /\ ~Created(w)
  /\ wo' = [wo EXCEPT ![w] = Draft(u, v)]
  /\ trail' = [trail EXCEPT ![w] = {"DRAFT"}]
  /\ UNCHANGED <<links, permit, mine>>

\* _is_allowed, on the object as it was read.
IsAllowed(rule, o, u) ==
  \/ rule.roles = {}
  \/ "requester" \in rule.roles /\ u = o.requester
  \/ /\ RoleOf[u] \in rule.roles
     /\ rule.match /\ RoleOf[u] \in EngineersAndVendors => u = o.assignee

\* Mutant: the transition's name is stored for the status it leads to.
MovedToName(o, rule, v) == [o EXCEPT !.status = rule.name]

\* The field_updates of each transition; v is the assignee a form names.
Moved(o, rule, v) ==
  [o EXCEPT !.status = rule.to,
            !.assignee = IF rule.name \in {"assign", "reassign"} THEN v ELSE @,
            !.started = @ \/ rule.name = "start",
            !.ended = @ \/ rule.name = "complete",
            !.verified = @ \/ rule.name = "verify",
            !.closed = (@ \/ rule.name = "close") /\ rule.name # "reopen"]

\* Mutant: reopen takes both terminal statuses.
ApplicableReopens(r, u) == {rule \in Transitions :
  /\ \/ rule.from = row[r].status
     \/ rule.name = "reopen" /\ row[r].status \in Terminal
  /\ IsAllowed(rule, row[r], u)
  /\ rule.name = "start" => pc[r] = "permits" /\ blocking[r] = {}}

Applicable(r, u) == {rule \in Transitions :
  /\ rule.from = row[r].status
  /\ IsAllowed(rule, row[r], u)
  /\ rule.name = "start" => pc[r] = "permits" /\ blocking[r] = {}}

\* Mutant: the event is written with from and to swapped.
ApplyTransitionSwapped(r) ==
  /\ pc[r] \in {"order", "permits"}
  /\ \E u \in Users, v \in Assignees : \E rule \in Applicable(r, u) :
       /\ wo' = [wo EXCEPT ![on[r]] = Moved(row[r], rule, v)]
       /\ trail' = [trail EXCEPT ![on[r]] = @ \union {rule.from}]
  /\ Ends(r)
  /\ UNCHANGED <<links, permit>>

\* _apply_transition: the whole row as read, with the change, and its event.
ApplyTransition(r) ==
  /\ pc[r] \in {"order", "permits"}
  /\ \E u \in Users, v \in Assignees : \E rule \in Applicable(r, u) :
       /\ wo' = [wo EXCEPT ![on[r]] = Moved(row[r], rule, v)]
       /\ trail' = [trail EXCEPT ![on[r]] = @ \union {rule.to}]
  /\ Ends(r)
  /\ UNCHANGED <<links, permit>>

\* Mutant: the shortcut forgets its event.
SubmitSkipTriageSilent(r) ==
  /\ pc[r] = "order"
  /\ row[r].status = "DRAFT"
  /\ \E u \in Users : RoleOf[u] \in EngineersAndVendors /\ row[r].assignee = u
  /\ wo' = [wo EXCEPT ![on[r]].status = "ASSIGNED"]
  /\ Ends(r)
  /\ UNCHANGED <<trail, links, permit>>

\* Saves the status column only.
SubmitSkipTriage(r) ==
  /\ pc[r] = "order"
  /\ row[r].status = "DRAFT"
  /\ \E u \in Users : RoleOf[u] \in EngineersAndVendors /\ row[r].assignee = u
  /\ wo' = [wo EXCEPT ![on[r]].status = "ASSIGNED"]
  /\ trail' = [trail EXCEPT ![on[r]] = @ \union {"ASSIGNED"}]
  /\ Ends(r)
  /\ UNCHANGED <<links, permit>>

\* Mutant: the save leaves the status column alone, but not the dates.
UpdateWorkOrderKeepsStatus(r) ==
  /\ pc[r] = "order"
  /\ row[r].status \notin Terminal
  /\ wo' = [wo EXCEPT ![on[r]] = [row[r] EXCEPT !.status = wo[on[r]].status]]
  /\ Ends(r)
  /\ UNCHANGED <<trail, links, permit>>

\* Saves the whole row as read, with a new assignee if its status allows one.
UpdateWorkOrder(r) ==
  /\ pc[r] = "order"
  /\ row[r].status \notin Terminal
  /\ \E v \in Assignees \union {row[r].assignee} :
       /\ row[r].status \in BeforeStart \/ v = row[r].assignee
       /\ wo' = [wo EXCEPT ![on[r]] = [row[r] EXCEPT !.assignee = v]]
  /\ Ends(r)
  /\ UNCHANGED <<trail, links, permit>>

-----------------------------------------------------------------------------
(* Permits. *)

\* The row lock a revocation holds from its first save to its commit.
Locked(p) == \E r \in Requests : pc[r] = "holding" /\ on[r] = p

\* An edit form always carries a status.
EditPermit(p) ==
  /\ ~Locked(p)
  /\ \E s \in EditStatuses : permit' = [permit EXCEPT ![p] = s]
  /\ UNCHANGED <<wo, trail, links, mine>>

\* Time passes valid_until.
Lapse(p) ==
  /\ permit[p] = "active"
  /\ permit' = [permit EXCEPT ![p] = "lapsed"]
  /\ UNCHANGED <<wo, trail, links, mine>>

LinkPermit(w, p) ==
  /\ Created(w)
  /\ links' = [links EXCEPT ![w] = @ \union {p}]
  /\ UNCHANGED <<wo, trail, permit, mine>>

UnlinkPermit(w, p) ==
  /\ links' = [links EXCEPT ![w] = @ \ {p}]
  /\ UNCHANGED <<wo, trail, permit, mine>>

\* Inside the transaction: the permit is saved, the query has run.
RevokeQuery(r) ==
  /\ pc[r] = "permit"
  /\ read[r] # "revoked"
  /\ ~Locked(on[r])
  /\ pc' = [pc EXCEPT ![r] = "holding"]
  /\ holding' = [holding EXCEPT ![r] =
       {w \in WorkOrders : on[r] \in links[w] /\ wo[w].status = "IN_PROGRESS"}]
  /\ UNCHANGED <<db, on, row, read, blocking>>

\* The work orders it found go back to ASSIGNED, by their status column only.
RevokeCommit(r) ==
  /\ pc[r] = "holding"
  /\ permit' = [permit EXCEPT ![on[r]] = "revoked"]
  /\ wo' = [w \in WorkOrders |->
       IF w \in holding[r] THEN [wo[w] EXCEPT !.status = "ASSIGNED"] ELSE wo[w]]
  /\ trail' = [w \in WorkOrders |->
       IF w \in holding[r] THEN trail[w] \union {"ASSIGNED"} ELSE trail[w]]
  /\ Ends(r)
  /\ UNCHANGED links

-----------------------------------------------------------------------------
Next ==
  \/ CreateWorkOrder
  \/ \E r \in Requests :
       \/ ReadWorkOrder(r) \/ ReadPermits(r) \/ ReadPermit(r)
       \/ ApplyTransition(r) \/ SubmitSkipTriage(r) \/ UpdateWorkOrder(r)
       \/ RevokeQuery(r) \/ RevokeCommit(r)
       \/ Refuse(r)
  \/ \E p \in Permits :
       \/ EditPermit(p) \/ Lapse(p)
       \/ \E w \in WorkOrders : LinkPermit(w, p) \/ UnlinkPermit(w, p)

Spec == Init /\ [][Next]_vars

-----------------------------------------------------------------------------
(* Properties.  Each has to survive saves of rows that are out of date. *)

\* Type invariant of the rows and of the requests' objects.
WorkOrdersTypeOK ==
  /\ wo \in [WorkOrders -> Rows]
  /\ trail \in [WorkOrders -> SUBSET Statuses]
  /\ links \in [WorkOrders -> SUBSET Permits]
  /\ permit \in [Permits -> PermitStatus]
  /\ pc \in [Requests -> {"idle", "order", "permits", "permit", "holding"}]
  /\ on \in [Requests -> WorkOrders \union Permits \union {None}]
  /\ row \in [Requests -> Rows]
  /\ read \in [Requests -> PermitStatus \union {"none"}]
  /\ blocking \in [Requests -> SUBSET Permits]
  /\ holding \in [Requests -> SUBSET WorkOrders]

\* A row whose dates fit its status and come one after the other.
DatesFit(o) ==
  /\ o.status \in {"IN_PROGRESS", "COMPLETED", "VERIFIED", "CLOSED"} => o.started
  /\ o.status \in {"COMPLETED", "VERIFIED", "CLOSED"} => o.ended
  /\ o.status \in {"VERIFIED", "CLOSED"} => o.verified
  /\ o.status = "CLOSED" => o.closed
  /\ o.closed => o.verified
  /\ o.verified => o.ended
  /\ o.ended => o.started

\* Whatever order stale whole-row saves and status-only saves come in, no row mixes the
\* status of one writer with the dates of another: what is completed has a start and an
\* end, what is closed was verified (WorkOrderService, models.work.WorkOrder).
Stamped == \A w \in WorkOrders : DatesFit(wo[w])

\* A status reached by an event has a registered move into it from another one reached.
Led(s, reached) ==
  \/ s = "DRAFT"
  \/ \E rule \in Transitions : rule.to = s /\ rule.from \in reached
  \/ s = "ASSIGNED" /\ "DRAFT" \in reached     \* skip_triage

\* The audit log explains every row, lost updates included: the status a row shows is one
\* an event announced, and the events lead there from DRAFT by registered moves
\* (WorkOrderStatusEvent: one row per transition).
TrailExplains == \A w \in WorkOrders :
  /\ Created(w) => wo[w].status \in trail[w]
  /\ \A s \in trail[w] : Led(s, trail[w])

Dated(o) == {s \in {"IN_PROGRESS", "COMPLETED", "VERIFIED", "CLOSED"} :
  \/ s = "IN_PROGRESS" /\ o.started
  \/ s = "COMPLETED" /\ o.ended
  \/ s = "VERIFIED" /\ o.verified
  \/ s = "CLOSED" /\ o.closed}

\* No row carries a start, an end, a verification or a closing that no event recorded.
DatesHaveEvents == \A w \in WorkOrders : Dated(wo[w]) \subseteq trail[w]

\* A request that read w, or a revocation that found it in progress, before it was cancelled.
SawItAlive(w) == \E r \in Requests :
  \/ w \in holding[r]
  \/ pc[r] \in {"order", "permits"} /\ on[r] = w /\ row[r].status # "CANCELLED"

\* Nothing leaves CANCELLED (it has no entry in _TRANSITIONS and update_work_order refuses
\* it): only who saw the row before it was cancelled can still change it.
CancelledStays == [][\A w \in WorkOrders :
  wo[w].status = "CANCELLED" /\ wo'[w] # wo[w] => SawItAlive(w)]_vars

\* Work does not begin under a permit that has been revoked (WorkOrderService.start: "a
\* revoked, expired, or still-draft permit blocks the start").
NoStartUnderRevoked == [][\A w \in WorkOrders : \A p \in links[w] :
  permit[p] = "revoked" /\ wo[w].status # "IN_PROGRESS" => wo'[w].status # "IN_PROGRESS"]_vars
=============================================================================
