-------------------------- MODULE WorkOrdersProofs --------------------------
(***************************************************************************)
(* Theorems about WorkOrders, for any number of work orders, permits, users *)
(* and overlapping requests: what stale saves can never do to a row and to  *)
(* its audit log.  The invariant says of the objects the requests hold what *)
(* it says of the rows, since any of them may be written back.              *)
(***************************************************************************)
EXTENDS WorkOrders, TLAPS

\* Every object a request holds could be a row.
CopiesFit == \A r \in Requests : DatesFit(row[r])

\* A request about a work order read it after it was created.
CopiesOnTrail == \A r \in Requests : pc[r] \in {"order", "permits"} =>
  /\ on[r] \in WorkOrders
  /\ Created(on[r])
  /\ row[r].status \in trail[on[r]]
  /\ Dated(row[r]) \subseteq trail[on[r]]

\* A revocation holds work orders that were in progress.
HeldWereStarted == \A r \in Requests :
  /\ pc[r] \in {"permit", "holding"} => on[r] \in Permits
  /\ \A w \in holding[r] : Created(w) /\ "IN_PROGRESS" \in trail[w]

WorkOrdersInv ==
  /\ WorkOrdersTypeOK
  /\ Stamped
  /\ TrailExplains
  /\ DatesHaveEvents
  /\ CopiesFit
  /\ CopiesOnTrail
  /\ HeldWereStarted

-----------------------------------------------------------------------------
(* What the transition table says. *)

\* Each dated status is reached by one transition, and nothing leaves CANCELLED.
LEMMA TableFacts ==
  ASSUME NEW rule \in Transitions
  PROVE  /\ rule.from \in Statuses /\ rule.to \in Statuses
         /\ rule.from # "CANCELLED"
         /\ rule.name = "start" <=> rule.to = "IN_PROGRESS"
         /\ rule.name = "complete" <=> rule.to = "COMPLETED"
         /\ rule.name = "verify" <=> rule.to = "VERIFIED"
         /\ rule.name = "close" <=> rule.to = "CLOSED"
         /\ rule.name = "complete" => rule.from = "IN_PROGRESS"
         /\ rule.name = "verify" => rule.from = "COMPLETED"
         /\ rule.name = "close" => rule.from = "VERIFIED"
         /\ rule.from = "CLOSED" => rule.name = "reopen"
         /\ rule.name = "reopen" => rule.to = "ASSIGNED"
BY DEF Transitions, Rule, Statuses

\* A transition of an object whose dates fit gives one whose dates fit.
LEMMA MovedFits ==
  ASSUME NEW o \in Rows, DatesFit(o),
         NEW rule \in Transitions, rule.from = o.status,
         NEW v \in Users \union {None}
  PROVE  /\ Moved(o, rule, v) \in Rows
         /\ Moved(o, rule, v).status = rule.to
         /\ DatesFit(Moved(o, rule, v))
         /\ Dated(Moved(o, rule, v)) \subseteq Dated(o) \union {rule.to}
<1> DEFINE m == Moved(o, rule, v)
<1>1. m \in Rows
  <2> DEFINE a == IF rule.name \in {"assign", "reassign"} THEN v ELSE o.assignee
             started == o.started \/ rule.name = "start"
             ended == o.ended \/ rule.name = "complete"
             verified == o.verified \/ rule.name = "verify"
             closed == (o.closed \/ rule.name = "close") /\ rule.name # "reopen"
             n == [o EXCEPT !.status = rule.to, !.assignee = a, !.started = started,
                            !.ended = ended, !.verified = verified, !.closed = closed]
  <2>1. rule.to \in Statuses /\ o.assignee \in Users \union {None}
    BY TableFacts DEF Rows
  <2>2. a \in Users \union {None}
    BY <2>1
  <2>3. /\ started \in BOOLEAN /\ ended \in BOOLEAN
        /\ verified \in BOOLEAN /\ closed \in BOOLEAN
    OBVIOUS
  <2>4. m = n
    BY DEF Moved
  <2>5. n \in Rows
    <3> HIDE DEF a, started, ended, verified, closed
    <3> QED
      BY <2>1, <2>2, <2>3 DEF Rows
  <2> QED
    BY <2>4, <2>5
<1>2. /\ m.status = rule.to
      /\ m.started <=> (o.started \/ rule.name = "start")
      /\ m.ended <=> (o.ended \/ rule.name = "complete")
      /\ m.verified <=> (o.verified \/ rule.name = "verify")
      /\ m.closed <=> ((o.closed \/ rule.name = "close") /\ rule.name # "reopen")
  BY DEF Moved, Rows
<1>3. DatesFit(m)
  <2> HIDE DEF m
  <2> QED
    BY <1>2, TableFacts DEF DatesFit
<1>4. Dated(m) \subseteq Dated(o) \union {rule.to}
  <2> HIDE DEF m
  <2> QED
    BY <1>2, TableFacts DEF Dated
<1> QED
  BY <1>1, <1>2, <1>3, <1>4

\* More events never leave a status unexplained.
LEMMA LedMore ==
  ASSUME NEW s, NEW A, NEW B, A \subseteq B, Led(s, A)
  PROVE  Led(s, B)
BY DEF Led

-----------------------------------------------------------------------------
(* The steps. *)

\* Nothing has happened yet.
LEMMA InitInv == Init => WorkOrdersInv
<1> SUFFICES ASSUME Init PROVE WorkOrdersInv
  OBVIOUS
<1>1. Blank \in Rows /\ DatesFit(Blank) /\ Dated(Blank) = {} /\ Blank.status = "none"
  BY DEF Blank, Rows, DatesFit, Dated
<1>2. WorkOrdersTypeOK
  BY <1>1, FormsAssumption DEF Init, WorkOrdersTypeOK
<1>3. Stamped /\ TrailExplains /\ DatesHaveEvents
  BY <1>1 DEF Init, Stamped, TrailExplains, DatesHaveEvents, Created
<1>4. CopiesFit /\ CopiesOnTrail /\ HeldWereStarted
  BY <1>1 DEF Init, CopiesFit, CopiesOnTrail, HeldWereStarted
<1> QED
  BY <1>2, <1>3, <1>4 DEF WorkOrdersInv

\* A request that ends with a write: it is enough that the rows it leaves fit, and that
\* the audit logs grow and lead to them.
LEMMA WriteKeepsInv ==
  ASSUME WorkOrdersInv, NEW r \in Requests, Ends(r), UNCHANGED links,
         permit' \in [Permits -> PermitStatus],
         wo' \in [WorkOrders -> Rows],
         trail' \in [WorkOrders -> SUBSET Statuses],
         \A w \in WorkOrders :
           /\ trail[w] \subseteq trail'[w]
           /\ \A s \in trail'[w] : Led(s, trail'[w])
           /\ DatesFit(wo'[w])
           /\ Dated(wo'[w]) \subseteq trail'[w]
           /\ Created(w) => wo'[w].status # "none"
           /\ wo'[w].status # "none" => wo'[w].status \in trail'[w]
  PROVE  WorkOrdersInv'
<1> USE DEF WorkOrdersInv
<1>1. Blank \in Rows /\ DatesFit(Blank)
  BY DEF Blank, Rows, DatesFit
<1>2. WorkOrdersTypeOK'
  BY <1>1 DEF WorkOrdersTypeOK, Ends
<1>3. Stamped' /\ TrailExplains' /\ DatesHaveEvents'
  BY DEF Stamped, TrailExplains, DatesHaveEvents, Created
<1>4. CopiesFit'
  BY <1>1 DEF CopiesFit, Ends, WorkOrdersTypeOK
<1>5. \A q \in Requests : pc'[q] # "idle" =>
        pc'[q] = pc[q] /\ on'[q] = on[q] /\ row'[q] = row[q] /\ holding'[q] = holding[q]
  BY DEF Ends, WorkOrdersTypeOK
<1>6. \A q \in Requests : holding'[q] \in {holding[q], {}}
  BY DEF Ends, WorkOrdersTypeOK
<1>7. CopiesOnTrail'
  BY <1>5 DEF CopiesOnTrail, Created
<1>8. HeldWereStarted'
  BY <1>5, <1>6 DEF HeldWereStarted, Created, WorkOrdersTypeOK
<1> QED
  BY <1>2, <1>3, <1>4, <1>7, <1>8

\* One request writing one row and at most one event.
LEMMA RowWriteKeepsInv ==
  ASSUME WorkOrdersInv, NEW r \in Requests, Ends(r), UNCHANGED <<links, permit>>,
         NEW w \in WorkOrders, NEW o \in Rows, NEW s \in Statuses,
         Created(w), DatesFit(o), o.status = s,
         Dated(o) \subseteq trail[w] \union {s},
         Led(s, trail[w]),
         wo' = [wo EXCEPT ![w] = o],
         trail' = [trail EXCEPT ![w] = @ \union {s}]
  PROVE  WorkOrdersInv'
<1> USE DEF WorkOrdersInv
<1>1. /\ permit' \in [Permits -> PermitStatus]
      /\ wo' \in [WorkOrders -> Rows]
      /\ trail' \in [WorkOrders -> SUBSET Statuses]
  BY DEF WorkOrdersTypeOK
<1>2. s # "none"
  BY DEF Statuses
<1>3. ASSUME NEW x \in WorkOrders
      PROVE  /\ trail[x] \subseteq trail'[x]
             /\ \A t \in trail'[x] : Led(t, trail'[x])
             /\ DatesFit(wo'[x])
             /\ Dated(wo'[x]) \subseteq trail'[x]
             /\ Created(x) => wo'[x].status # "none"
             /\ wo'[x].status # "none" => wo'[x].status \in trail'[x]
  <2>1. CASE x = w
    <3>1. wo'[x] = o /\ trail'[x] = trail[w] \union {s}
      BY <2>1 DEF WorkOrdersTypeOK
    <3>2. \A t \in trail[w] \union {s} : Led(t, trail[w])
      BY DEF TrailExplains
    <3>3. \A t \in trail[w] \union {s} : Led(t, trail[w] \union {s})
      BY <3>2, LedMore
    <3> QED
      BY <1>2, <2>1, <3>1, <3>3
  <2>2. CASE x # w
    <3>1. wo'[x] = wo[x] /\ trail'[x] = trail[x]
      BY <2>2 DEF WorkOrdersTypeOK
    <3> QED
      BY <3>1 DEF Stamped, TrailExplains, DatesHaveEvents, Created
  <2> QED
    BY <2>1, <2>2
<1> QED
  BY <1>1, <1>3, WriteKeepsInv

\* A row put back to ASSIGNED keeps its dates, and they still fit.
LEMMA AssignedFits ==
  ASSUME NEW o \in Rows, DatesFit(o)
  PROVE  /\ [o EXCEPT !.status = "ASSIGNED"] \in Rows
         /\ [o EXCEPT !.status = "ASSIGNED"].status = "ASSIGNED"
         /\ DatesFit([o EXCEPT !.status = "ASSIGNED"])
         /\ Dated([o EXCEPT !.status = "ASSIGNED"]) = Dated(o)
<1> DEFINE n == [o EXCEPT !.status = "ASSIGNED"]
<1>1. /\ n.status = "ASSIGNED"
      /\ n.started = o.started /\ n.ended = o.ended
      /\ n.verified = o.verified /\ n.closed = o.closed
  BY DEF Rows
<1>2. n \in Rows
  BY DEF Rows, Statuses
<1>3. DatesFit(n) /\ Dated(n) = Dated(o)
  <2> HIDE DEF n
  <2> QED
    BY <1>1 DEF DatesFit, Dated
<1> QED
  BY <1>1, <1>2, <1>3

\* One step per action.
LEMMA NextKeepsInv == WorkOrdersInv /\ [Next]_vars => WorkOrdersInv'
<1> SUFFICES ASSUME WorkOrdersInv, [Next]_vars PROVE WorkOrdersInv'
  OBVIOUS
<1> USE DEF WorkOrdersInv
<1>1. CASE CreateWorkOrder
  <2>1. PICK w \in WorkOrders, u \in Requesters, v \in Assignees :
          /\ ~Created(w)
          /\ wo' = [wo EXCEPT ![w] = Draft(u, v)]
          /\ trail' = [trail EXCEPT ![w] = {"DRAFT"}]
          /\ UNCHANGED <<links, permit, mine>>
    BY <1>1 DEF CreateWorkOrder
  <2>2. /\ Draft(u, v) \in Rows /\ DatesFit(Draft(u, v))
        /\ Draft(u, v).status = "DRAFT" /\ Dated(Draft(u, v)) = {}
    BY FormsAssumption DEF Draft, Blank, Rows, Statuses, DatesFit, Dated
  <2>3. wo'[w] = Draft(u, v) /\ trail'[w] = {"DRAFT"}
    BY <2>1 DEF WorkOrdersTypeOK
  <2>4. \A x \in WorkOrders : x # w => wo'[x] = wo[x] /\ trail'[x] = trail[x]
    BY <2>1 DEF WorkOrdersTypeOK
  <2>5. WorkOrdersTypeOK'
    BY <2>1, <2>2 DEF WorkOrdersTypeOK, mine, Statuses
  <2>6. Led("DRAFT", {"DRAFT"})
    BY DEF Led
  <2>7. Stamped' /\ TrailExplains' /\ DatesHaveEvents'
    <3>1. \A x \in WorkOrders : DatesFit(wo'[x]) /\ Dated(wo'[x]) \subseteq trail'[x]
      BY <2>2, <2>3, <2>4 DEF Stamped, DatesHaveEvents
    <3>2. \A x \in WorkOrders : /\ Created(x)' => wo'[x].status \in trail'[x]
                               /\ \A s \in trail'[x] : Led(s, trail'[x])
      BY <2>2, <2>3, <2>4, <2>6 DEF TrailExplains, Created
    <3> QED
      BY <3>1, <3>2 DEF Stamped, TrailExplains, DatesHaveEvents
  <2>8. CopiesFit' /\ CopiesOnTrail' /\ HeldWereStarted'
    <3>1. \A x \in WorkOrders : Created(x) =>
            Created(x)' /\ trail'[x] = trail[x]
      BY <2>1, <2>4 DEF Created
    <3> QED
      BY <2>1, <3>1 DEF CopiesFit, CopiesOnTrail, HeldWereStarted, mine, WorkOrdersTypeOK
  <2> QED
    BY <2>5, <2>7, <2>8
<1>2. ASSUME NEW r \in Requests, ReadWorkOrder(r) PROVE WorkOrdersInv'
  <2>1. PICK w \in WorkOrders :
          /\ Created(w)
          /\ Begins(r, w, "order")
          /\ row' = [row EXCEPT ![r] = wo[w]]
          /\ UNCHANGED <<db, read, blocking, holding>>
    BY <1>2 DEF ReadWorkOrder
  <2> USE DEF db, Begins
  <2>2. WorkOrdersTypeOK'
    BY <2>1 DEF WorkOrdersTypeOK
  <2>3. Stamped' /\ TrailExplains' /\ DatesHaveEvents'
    BY <2>1 DEF Stamped, TrailExplains, DatesHaveEvents, Created
  <2>4. CopiesFit'
    BY <2>1 DEF CopiesFit, Stamped, WorkOrdersTypeOK
  <2>5. /\ on'[r] = w /\ row'[r] = wo[w] /\ pc'[r] = "order"
        /\ \A q \in Requests : q # r =>
             on'[q] = on[q] /\ row'[q] = row[q] /\ pc'[q] = pc[q]
    BY <2>1 DEF WorkOrdersTypeOK
  <2>6. CopiesOnTrail'
    BY <2>1, <2>5 DEF CopiesOnTrail, TrailExplains, DatesHaveEvents, Created
  <2>7. HeldWereStarted'
    BY <2>1, <2>5 DEF HeldWereStarted, Created
  <2> QED
    BY <2>2, <2>3, <2>4, <2>6, <2>7
<1>3. ASSUME NEW r \in Requests, ReadPermits(r) PROVE WorkOrdersInv'
  <2> USE <1>3 DEF ReadPermits, db
  <2>1. WorkOrdersTypeOK'
    BY DEF WorkOrdersTypeOK, CopiesOnTrail
  <2>2. Stamped' /\ TrailExplains' /\ DatesHaveEvents' /\ CopiesFit'
    BY DEF Stamped, TrailExplains, DatesHaveEvents, CopiesFit, Created
  <2>3. \A q \in Requests : pc'[q] = IF q = r THEN "permits" ELSE pc[q]
    BY DEF WorkOrdersTypeOK
  <2>4. CopiesOnTrail' /\ HeldWereStarted'
    BY <2>3 DEF CopiesOnTrail, HeldWereStarted, Created
  <2> QED
    BY <2>1, <2>2, <2>4
<1>4. ASSUME NEW r \in Requests, ReadPermit(r) PROVE WorkOrdersInv'
  <2>1. PICK p \in Permits :
          /\ Begins(r, p, "permit")
          /\ read' = [read EXCEPT ![r] = permit[p]]
          /\ UNCHANGED <<db, row, blocking, holding>>
    BY <1>4 DEF ReadPermit
  <2> USE DEF db, Begins
  <2>2. WorkOrdersTypeOK'
    BY <2>1 DEF WorkOrdersTypeOK
  <2>3. Stamped' /\ TrailExplains' /\ DatesHaveEvents' /\ CopiesFit'
    BY <2>1 DEF Stamped, TrailExplains, DatesHaveEvents, CopiesFit, Created
  <2>4. /\ on'[r] = p /\ pc'[r] = "permit"
        /\ \A q \in Requests : q # r => on'[q] = on[q] /\ pc'[q] = pc[q]
    BY <2>1 DEF WorkOrdersTypeOK
  <2>5. CopiesOnTrail' /\ HeldWereStarted'
    BY <2>1, <2>4 DEF CopiesOnTrail, HeldWereStarted, Created
  <2> QED
    BY <2>2, <2>3, <2>5
<1>5. ASSUME NEW r \in Requests, ApplyTransition(r) PROVE WorkOrdersInv'
  <2>1. PICK u \in Users, v \in Assignees, rule \in Transitions :
          /\ rule \in Applicable(r, u)
          /\ wo' = [wo EXCEPT ![on[r]] = Moved(row[r], rule, v)]
          /\ trail' = [trail EXCEPT ![on[r]] = @ \union {rule.to}]
    BY <1>5 DEF ApplyTransition, Applicable
  <2>2. /\ pc[r] \in {"order", "permits"} /\ Ends(r) /\ UNCHANGED <<links, permit>>
        /\ rule \in Transitions /\ rule.from = row[r].status
    BY <1>5, <2>1 DEF ApplyTransition, Applicable
  <2>3. /\ on[r] \in WorkOrders /\ Created(on[r])
        /\ row[r].status \in trail[on[r]] /\ Dated(row[r]) \subseteq trail[on[r]]
    BY <2>2 DEF CopiesOnTrail
  <2>4. row[r] \in Rows /\ DatesFit(row[r]) /\ v \in Users \union {None}
    BY FormsAssumption DEF CopiesFit, WorkOrdersTypeOK
  <2> DEFINE o == Moved(row[r], rule, v)
  <2>5. /\ o \in Rows /\ o.status = rule.to /\ DatesFit(o)
        /\ Dated(o) \subseteq Dated(row[r]) \union {rule.to}
    BY <2>2, <2>4, MovedFits
  <2>6. Led(rule.to, trail[on[r]])
    BY <2>2, <2>3 DEF Led
  <2>7. rule.to \in Statuses
    BY <2>2, TableFacts
  <2> QED
    <3> HIDE DEF o, WorkOrdersInv
    <3>1. wo' = [wo EXCEPT ![on[r]] = o]
      BY <2>1 DEF o
    <3>2. Dated(o) \subseteq trail[on[r]] \union {rule.to}
      BY <2>3, <2>5
    <3> QED
      BY <2>1, <2>2, <2>3, <2>5, <2>6, <2>7, <3>1, <3>2, RowWriteKeepsInv
<1>6. ASSUME NEW r \in Requests, SubmitSkipTriage(r) PROVE WorkOrdersInv'
  <2>1. /\ pc[r] = "order" /\ row[r].status = "DRAFT"
        /\ Ends(r) /\ UNCHANGED <<links, permit>>
        /\ wo' = [wo EXCEPT ![on[r]].status = "ASSIGNED"]
        /\ trail' = [trail EXCEPT ![on[r]] = @ \union {"ASSIGNED"}]
    BY <1>6 DEF SubmitSkipTriage
  <2>2. on[r] \in WorkOrders /\ Created(on[r]) /\ "DRAFT" \in trail[on[r]]
    BY <2>1 DEF CopiesOnTrail
  <2> DEFINE o == [wo[on[r]] EXCEPT !.status = "ASSIGNED"]
  <2>3. wo[on[r]] \in Rows /\ DatesFit(wo[on[r]]) /\ Dated(wo[on[r]]) \subseteq trail[on[r]]
    BY <2>2 DEF WorkOrdersTypeOK, Stamped, DatesHaveEvents
  <2>4. /\ o \in Rows /\ o.status = "ASSIGNED" /\ DatesFit(o)
        /\ Dated(o) \subseteq trail[on[r]] \union {"ASSIGNED"}
    BY <2>3, AssignedFits
  <2>5. Led("ASSIGNED", trail[on[r]]) /\ "ASSIGNED" \in Statuses
    BY <2>2 DEF Led, Statuses
  <2>6. wo' = [wo EXCEPT ![on[r]] = o]
    BY <2>1
  <2> QED
    <3> HIDE DEF o, WorkOrdersInv
    <3> QED
      BY <2>1, <2>2, <2>4, <2>5, <2>6, RowWriteKeepsInv
<1>7. ASSUME NEW r \in Requests, UpdateWorkOrder(r) PROVE WorkOrdersInv'
  <2>1. PICK v \in Assignees \union {row[r].assignee} :
          wo' = [wo EXCEPT ![on[r]] = [row[r] EXCEPT !.assignee = v]]
    BY <1>7 DEF UpdateWorkOrder
  <2>2. pc[r] = "order" /\ Ends(r) /\ UNCHANGED <<trail, links, permit>>
    BY <1>7 DEF UpdateWorkOrder
  <2>3. /\ on[r] \in WorkOrders /\ Created(on[r])
        /\ row[r].status \in trail[on[r]] /\ Dated(row[r]) \subseteq trail[on[r]]
    BY <2>2 DEF CopiesOnTrail
  <2> DEFINE o == [row[r] EXCEPT !.assignee = v]
             s == row[r].status
  <2>4. row[r] \in Rows /\ DatesFit(row[r]) /\ v \in Users \union {None}
    BY FormsAssumption DEF CopiesFit, WorkOrdersTypeOK, Rows
  <2>5. /\ o.status = s
        /\ o.started = row[r].started /\ o.ended = row[r].ended
        /\ o.verified = row[r].verified /\ o.closed = row[r].closed
    BY <2>4 DEF Rows
  <2>6. o \in Rows
    BY <2>4 DEF Rows
  <2>7. DatesFit(o) /\ Dated(o) = Dated(row[r])
    <3> HIDE DEF o
    <3> QED
      BY <2>4, <2>5 DEF DatesFit, Dated
  <2>8. s \in Statuses /\ Led(s, trail[on[r]])
    BY <2>3 DEF WorkOrdersTypeOK, TrailExplains
  <2>9. trail' = [trail EXCEPT ![on[r]] = @ \union {s}]
    <3>1. trail[on[r]] \union {s} = trail[on[r]]
      BY <2>3
    <3> QED
      BY <2>2, <2>3, <3>1 DEF WorkOrdersTypeOK
  <2> QED
    <3> HIDE DEF o, s, WorkOrdersInv
    <3>1. wo' = [wo EXCEPT ![on[r]] = o]
      BY <2>1 DEF o
    <3>2. Dated(o) \subseteq trail[on[r]] \union {s}
      BY <2>3, <2>7
    <3> QED
      BY <2>2, <2>3, <2>5, <2>6, <2>7, <2>8, <2>9, <3>1, <3>2, RowWriteKeepsInv
<1>8. ASSUME NEW r \in Requests, RevokeQuery(r) PROVE WorkOrdersInv'
  <2> USE <1>8 DEF RevokeQuery, db
  <2>1. WorkOrdersTypeOK'
    BY DEF WorkOrdersTypeOK
  <2>2. Stamped' /\ TrailExplains' /\ DatesHaveEvents' /\ CopiesFit'
    BY DEF Stamped, TrailExplains, DatesHaveEvents, CopiesFit, Created
  <2>3. /\ \A q \in Requests : pc'[q] = IF q = r THEN "holding" ELSE pc[q]
        /\ \A q \in Requests : q # r => holding'[q] = holding[q]
        /\ \A w \in holding'[r] : w \in WorkOrders /\ wo[w].status = "IN_PROGRESS"
    BY DEF WorkOrdersTypeOK
  <2>4. CopiesOnTrail'
    BY <2>3 DEF CopiesOnTrail, Created
  <2>5. HeldWereStarted'
    BY <2>3 DEF HeldWereStarted, Created, TrailExplains
  <2> QED
    BY <2>1, <2>2, <2>4, <2>5
<1>9. ASSUME NEW r \in Requests, RevokeCommit(r) PROVE WorkOrdersInv'
  <2>1. /\ pc[r] = "holding" /\ Ends(r) /\ UNCHANGED links
        /\ permit' = [permit EXCEPT ![on[r]] = "revoked"]
        /\ wo' = [w \in WorkOrders |-> IF w \in holding[r]
                    THEN [wo[w] EXCEPT !.status = "ASSIGNED"] ELSE wo[w]]
        /\ trail' = [w \in WorkOrders |-> IF w \in holding[r]
                       THEN trail[w] \union {"ASSIGNED"} ELSE trail[w]]
    BY <1>9 DEF RevokeCommit
  <2>2. \A w \in WorkOrders :
          /\ wo[w] \in Rows /\ DatesFit(wo[w]) /\ Dated(wo[w]) \subseteq trail[w]
          /\ trail[w] \subseteq Statuses
    BY DEF WorkOrdersTypeOK, Stamped, DatesHaveEvents
  <2>3. ASSUME NEW w \in WorkOrders
        PROVE  /\ wo'[w] \in Rows /\ trail'[w] \subseteq Statuses
               /\ trail[w] \subseteq trail'[w]
               /\ \A s \in trail'[w] : Led(s, trail'[w])
               /\ DatesFit(wo'[w])
               /\ Dated(wo'[w]) \subseteq trail'[w]
               /\ Created(w) => wo'[w].status # "none"
               /\ wo'[w].status # "none" => wo'[w].status \in trail'[w]
    <3>1. CASE w \in holding[r]
      <4> DEFINE o == [wo[w] EXCEPT !.status = "ASSIGNED"]
      <4>1. wo'[w] = o /\ trail'[w] = trail[w] \union {"ASSIGNED"}
        BY <2>1, <3>1
      <4>2. o \in Rows /\ o.status = "ASSIGNED" /\ DatesFit(o) /\ Dated(o) = Dated(wo[w])
        BY <2>2, AssignedFits
      <4>3. "IN_PROGRESS" \in trail[w]
        BY <3>1 DEF HeldWereStarted
      <4>4. Led("ASSIGNED", trail[w])
        BY <4>3 DEF Led, Transitions, Rule
      <4>5. \A s \in trail[w] \union {"ASSIGNED"} : Led(s, trail[w])
        BY <4>4 DEF TrailExplains
      <4>6. \A s \in trail[w] \union {"ASSIGNED"} : Led(s, trail[w] \union {"ASSIGNED"})
        BY <4>5, LedMore
      <4>7. "ASSIGNED" \in Statuses
        BY DEF Statuses
      <4> QED
        <5> HIDE DEF o
        <5> QED
          BY <2>2, <4>1, <4>2, <4>6, <4>7
    <3>2. CASE w \notin holding[r]
      <4>1. wo'[w] = wo[w] /\ trail'[w] = trail[w]
        BY <2>1, <3>2
      <4> QED
        BY <2>2, <4>1 DEF TrailExplains, Created
    <3> QED
      BY <3>1, <3>2
  <2>4. /\ wo' \in [WorkOrders -> Rows]
        /\ trail' \in [WorkOrders -> SUBSET Statuses]
    <3>1. /\ wo' = [w \in WorkOrders |-> wo'[w]]
          /\ trail' = [w \in WorkOrders |-> trail'[w]]
      BY <2>1
    <3> QED
      BY <2>3, <3>1
  <2>5. permit' \in [Permits -> PermitStatus]
    BY <2>1 DEF WorkOrdersTypeOK, PermitStatus
  <2> QED
    <3> HIDE DEF WorkOrdersInv
    <3> QED
      BY <2>1, <2>3, <2>4, <2>5, WriteKeepsInv
<1>10. ASSUME NEW r \in Requests, Refuse(r) PROVE WorkOrdersInv'
  <2>1. Ends(r) /\ UNCHANGED <<wo, trail, links, permit>>
    BY <1>10 DEF Refuse, db
  <2>2. /\ permit' \in [Permits -> PermitStatus]
        /\ wo' \in [WorkOrders -> Rows]
        /\ trail' \in [WorkOrders -> SUBSET Statuses]
    BY <2>1 DEF WorkOrdersTypeOK
  <2>3. \A w \in WorkOrders :
          /\ trail[w] \subseteq trail'[w]
          /\ \A s \in trail'[w] : Led(s, trail'[w])
          /\ DatesFit(wo'[w])
          /\ Dated(wo'[w]) \subseteq trail'[w]
          /\ Created(w) => wo'[w].status # "none"
          /\ wo'[w].status # "none" => wo'[w].status \in trail'[w]
    BY <2>1 DEF Stamped, TrailExplains, DatesHaveEvents, Created
  <2> QED
    <3> HIDE DEF WorkOrdersInv
    <3> QED
      BY <2>1, <2>2, <2>3, WriteKeepsInv
<1>11. ASSUME NEW p \in Permits,
              \/ EditPermit(p) \/ Lapse(p)
              \/ \E w \in WorkOrders : LinkPermit(w, p) \/ UnlinkPermit(w, p)
       PROVE  WorkOrdersInv'
  <2>1. /\ UNCHANGED <<wo, trail, mine>>
        /\ permit' \in [Permits -> PermitStatus]
        /\ links' \in [WorkOrders -> SUBSET Permits]
    BY <1>11, FormsAssumption
       DEF EditPermit, Lapse, LinkPermit, UnlinkPermit, WorkOrdersTypeOK, PermitStatus
  <2> QED
    BY <2>1 DEF WorkOrdersTypeOK, Stamped, TrailExplains, DatesHaveEvents, CopiesFit,
                CopiesOnTrail, HeldWereStarted, Created, mine
<1>12. CASE UNCHANGED vars
  BY <1>12 DEF WorkOrdersTypeOK, Stamped, TrailExplains, DatesHaveEvents, CopiesFit,
               CopiesOnTrail, HeldWereStarted, Created, vars, db, mine
<1> QED
  BY <1>1, <1>2, <1>3, <1>4, <1>5, <1>6, <1>7, <1>8, <1>9, <1>10, <1>11, <1>12 DEF Next

-----------------------------------------------------------------------------
(* The theorems. *)

\* The invariant holds in every reachable state.
THEOREM WorkOrdersInvariant == Spec => []WorkOrdersInv
<1>1. Init => WorkOrdersInv
  BY InitInv
<1>2. WorkOrdersInv /\ [Next]_vars => WorkOrdersInv'
  BY NextKeepsInv
<1> QED
  BY <1>1, <1>2, PTL DEF Spec

\* Type correctness of the rows and of the objects requests hold.
THEOREM WorkOrdersTypeCorrect == Spec => []WorkOrdersTypeOK
<1>1. WorkOrdersInv => WorkOrdersTypeOK
  BY DEF WorkOrdersInv
<1> QED
  BY <1>1, WorkOrdersInvariant, PTL

\* Stale saves never mix one writer's status with another's dates.
THEOREM DatesFollowStatus == Spec => []Stamped
<1>1. WorkOrdersInv => Stamped
  BY DEF WorkOrdersInv
<1> QED
  BY <1>1, WorkOrdersInvariant, PTL

\* The audit log leads by registered moves from DRAFT to whatever a row shows.
THEOREM AuditLogExplains == Spec => []TrailExplains
<1>1. WorkOrdersInv => TrailExplains
  BY DEF WorkOrdersInv
<1> QED
  BY <1>1, WorkOrdersInvariant, PTL

\* Every date a row carries was written with the event that explains it, whichever
\* request saved the row last.
THEOREM DatesAreRecorded == Spec => []DatesHaveEvents
<1>1. WorkOrdersInv => DatesHaveEvents
  BY DEF WorkOrdersInv
<1> QED
  BY <1>1, WorkOrdersInvariant, PTL

\* What one step may do to a cancelled work order.
LEMMA CancelledStep ==
  ASSUME WorkOrdersInv, [Next]_vars, NEW w \in WorkOrders,
         wo[w].status = "CANCELLED", wo'[w] # wo[w]
  PROVE  SawItAlive(w)
<1> USE DEF WorkOrdersInv
<1>1. wo \in [WorkOrders -> Rows]
  BY DEF WorkOrdersTypeOK
<1>2. CASE CreateWorkOrder
  BY <1>1, <1>2 DEF CreateWorkOrder, Created
<1>3. ASSUME NEW r \in Requests, ApplyTransition(r)
      PROVE  pc[r] \in {"order", "permits"} /\ on[r] = w /\ row[r].status # "CANCELLED"
  <2>1. PICK u \in Users, v \in Assignees, rule \in Transitions :
          /\ rule.from = row[r].status
          /\ wo' = [wo EXCEPT ![on[r]] = Moved(row[r], rule, v)]
    BY <1>3 DEF ApplyTransition, Applicable
  <2>2. on[r] = w
    BY <1>1, <2>1
  <2> QED
    BY <1>3, <2>1, <2>2, TableFacts DEF ApplyTransition
<1>4. ASSUME NEW r \in Requests, SubmitSkipTriage(r)
      PROVE  pc[r] \in {"order", "permits"} /\ on[r] = w /\ row[r].status # "CANCELLED"
  BY <1>1, <1>4 DEF SubmitSkipTriage
<1>5. ASSUME NEW r \in Requests, UpdateWorkOrder(r)
      PROVE  pc[r] \in {"order", "permits"} /\ on[r] = w /\ row[r].status # "CANCELLED"
  BY <1>1, <1>5 DEF UpdateWorkOrder, Terminal
<1>6. ASSUME NEW r \in Requests, RevokeCommit(r)
      PROVE  w \in holding[r]
  BY <1>6 DEF RevokeCommit
<1>7. ASSUME NEW r \in Requests,
             ReadWorkOrder(r) \/ ReadPermits(r) \/ ReadPermit(r) \/ RevokeQuery(r) \/ Refuse(r)
      PROVE  FALSE
  BY <1>7 DEF ReadWorkOrder, ReadPermits, ReadPermit, RevokeQuery, Refuse, db
<1>8. ASSUME NEW p \in Permits,
             \/ EditPermit(p) \/ Lapse(p)
             \/ \E x \in WorkOrders : LinkPermit(x, p) \/ UnlinkPermit(x, p)
      PROVE  FALSE
  BY <1>8 DEF EditPermit, Lapse, LinkPermit, UnlinkPermit
<1>9. CASE UNCHANGED vars
  BY <1>9 DEF vars, db
<1> QED
  BY <1>2, <1>3, <1>4, <1>5, <1>6, <1>7, <1>8, <1>9 DEF Next, SawItAlive

\* Only a request or a revocation that saw the work order before it was cancelled can
\* still bring it back.
THEOREM CancelledIsFinal == Spec => CancelledStays
<1>1. WorkOrdersInv /\ [Next]_vars =>
        [\A w \in WorkOrders :
           wo[w].status = "CANCELLED" /\ wo'[w] # wo[w] => SawItAlive(w)]_vars
  BY CancelledStep
<1> QED
  BY <1>1, WorkOrdersInvariant, PTL DEF Spec, CancelledStays

-----------------------------------------------------------------------------
(* Starts.  permit_race shows work begin under a revoked permit.  Two reads can be out   *)
(* of date when they are used: the permits a start looked at, and the whole row a save   *)
(* of a work order in progress writes back.  Were neither, no start would slip through.  *)

\* Until a request that has looked at the permits is over, none of its work order's is
\* revoked and no revoked one is linked; and a work order in progress keeps its status as
\* long as a request holds it to save it.
UndisturbedStep == \A r \in Requests :
  /\ pc[r] = "permits" =>
       \A p \in links'[on[r]] :
         permit'[p] = "revoked" => p \in links[on[r]] /\ permit[p] = "revoked"
  /\ pc[r] = "order" /\ pc'[r] = "order" /\ row[r].status = "IN_PROGRESS" =>
       wo'[on[r]].status = wo[on[r]].status
Undisturbed == [][UndisturbedStep]_vars

\* What requests have read of permits and of work in progress is still so.
ReadsCurrent == \A r \in Requests :
  /\ pc[r] = "permits" =>
       \A p \in links[on[r]] : permit[p] = "revoked" => p \in blocking[r]
  /\ pc[r] = "order" /\ row[r].status = "IN_PROGRESS" => wo[on[r]].status = "IN_PROGRESS"

\* A request reads what is so, and while it is about its work order nothing changes that.
LEMMA ReadsStep ==
  ASSUME WorkOrdersInv, ReadsCurrent, UndisturbedStep \/ UNCHANGED vars, [Next]_vars
  PROVE  ReadsCurrent'
<1>a. /\ pc \in [Requests -> {"idle", "order", "permits", "permit", "holding"}]
      /\ on \in [Requests -> WorkOrders \union Permits \union {None}]
      /\ row \in [Requests -> Rows] /\ blocking \in [Requests -> SUBSET Permits]
  BY DEF WorkOrdersInv, WorkOrdersTypeOK
<1> SUFFICES ASSUME NEW r \in Requests
             PROVE  /\ pc'[r] = "permits" =>
                         \A p \in links'[on'[r]] : permit'[p] = "revoked" => p \in blocking'[r]
                    /\ pc'[r] = "order" /\ row'[r].status = "IN_PROGRESS" =>
                         wo'[on'[r]].status = "IN_PROGRESS"
  BY DEF ReadsCurrent
<1> DEFINE Same == /\ pc'[r] = pc[r] /\ on'[r] = on[r]
                   /\ row'[r] = row[r] /\ blocking'[r] = blocking[r]
<1>1. CASE Same
  <2>1. CASE UNCHANGED vars
    BY <2>1 DEF vars, db, mine, ReadsCurrent
  <2>2. CASE UndisturbedStep
    BY <1>1, <2>2 DEF UndisturbedStep, ReadsCurrent
  <2> QED BY <2>1, <2>2
<1>2. CASE ReadWorkOrder(r)
  BY <1>a, <1>2 DEF ReadWorkOrder, Begins, db
<1>3. CASE ReadPermits(r)
  BY <1>a, <1>3 DEF ReadPermits, db
<1>4. CASE ReadPermit(r) \/ RevokeQuery(r)
  BY <1>a, <1>4 DEF ReadPermit, RevokeQuery, Begins
<1>5. CASE Ends(r)
  BY <1>a, <1>5 DEF Ends
<1>6. Same \/ ReadWorkOrder(r) \/ ReadPermits(r) \/ ReadPermit(r) \/ RevokeQuery(r) \/ Ends(r)
  <2>1. ASSUME NEW q \in Requests, Ends(q) PROVE Same \/ Ends(r)
    BY <1>a, <2>1 DEF Ends
  <2>2. ASSUME NEW q \in Requests, q # r,
               ReadWorkOrder(q) \/ ReadPermits(q) \/ ReadPermit(q) \/ RevokeQuery(q)
        PROVE  Same
    BY <1>a, <2>2 DEF ReadWorkOrder, ReadPermits, ReadPermit, RevokeQuery, Begins
  <2>3. ASSUME NEW q \in Requests,
               \/ ApplyTransition(q) \/ SubmitSkipTriage(q) \/ UpdateWorkOrder(q)
               \/ RevokeCommit(q) \/ Refuse(q)
        PROVE  Ends(q)
    BY <2>3 DEF ApplyTransition, SubmitSkipTriage, UpdateWorkOrder, RevokeCommit, Refuse
  <2>4. ASSUME \/ CreateWorkOrder
               \/ \E p \in Permits :
                    \/ EditPermit(p) \/ Lapse(p)
                    \/ \E w \in WorkOrders : LinkPermit(w, p) \/ UnlinkPermit(w, p)
               \/ UNCHANGED vars
        PROVE  Same
    BY <2>4 DEF CreateWorkOrder, EditPermit, Lapse, LinkPermit, UnlinkPermit, vars, mine
  <2> QED
    BY <2>1, <2>2, <2>3, <2>4 DEF Next
<1> QED
  BY <1>1, <1>2, <1>3, <1>4, <1>5, <1>6

NoStart == \A w \in WorkOrders : \A p \in links[w] :
  permit[p] = "revoked" /\ wo[w].status # "IN_PROGRESS" => wo'[w].status # "IN_PROGRESS"

\* A work order gets to IN_PROGRESS by a start, which has looked at its permits, or by the
\* save of a row that was there already.
LEMMA NoStartStep ==
  ASSUME WorkOrdersInv, ReadsCurrent, [Next]_vars
  PROVE  NoStart
<1> SUFFICES ASSUME NEW w \in WorkOrders, NEW p \in links[w], permit[p] = "revoked",
                    wo[w].status # "IN_PROGRESS", wo'[w].status = "IN_PROGRESS"
             PROVE  FALSE
  BY DEF NoStart
<1>a. wo \in [WorkOrders -> Rows]
  BY DEF WorkOrdersInv, WorkOrdersTypeOK
<1>1. CASE CreateWorkOrder
  BY <1>a, <1>1 DEF CreateWorkOrder, Draft, Blank, Rows
<1>2. ASSUME NEW r \in Requests, ApplyTransition(r) PROVE FALSE
  <2>1. PICK u \in Users, v \in Assignees, rule \in Transitions :
          /\ rule \in Applicable(r, u)
          /\ wo' = [wo EXCEPT ![on[r]] = Moved(row[r], rule, v)]
    BY <1>2 DEF ApplyTransition, Applicable
  <2>2. on[r] = w /\ wo'[w] = Moved(row[r], rule, v)
    BY <1>a, <2>1
  <2>3. rule.to = "IN_PROGRESS"
    <3>1. row[r] \in Rows
      BY DEF WorkOrdersInv, WorkOrdersTypeOK
    <3>2. Moved(row[r], rule, v).status = rule.to
      BY <3>1 DEF Moved, Rows
    <3> QED BY <2>2, <3>2
  <2>4. rule.name = "start"
    BY <2>3, TableFacts
  <2>5. pc[r] = "permits" /\ blocking[r] = {}
    BY <2>1, <2>4 DEF Applicable
  <2> QED
    BY <2>2, <2>5 DEF ReadsCurrent
<1>3. ASSUME NEW r \in Requests, UpdateWorkOrder(r) PROVE FALSE
  <2>1. PICK v \in Assignees \union {row[r].assignee} :
          wo' = [wo EXCEPT ![on[r]] = [row[r] EXCEPT !.assignee = v]]
    BY <1>3 DEF UpdateWorkOrder
  <2>2. pc[r] = "order" /\ on[r] = w /\ row[r] \in Rows
    BY <1>a, <1>3, <2>1 DEF UpdateWorkOrder, WorkOrdersInv, WorkOrdersTypeOK
  <2>3. row[r].status = "IN_PROGRESS"
    BY <1>a, <2>1, <2>2 DEF Rows
  <2> QED
    BY <2>2, <2>3 DEF ReadsCurrent
<1>4. ASSUME NEW r \in Requests, SubmitSkipTriage(r) PROVE FALSE
  BY <1>a, <1>4 DEF SubmitSkipTriage, Rows
<1>5. ASSUME NEW r \in Requests, RevokeCommit(r) PROVE FALSE
  BY <1>a, <1>5 DEF RevokeCommit, Rows
<1>6. CASE UNCHANGED wo
  BY <1>6
<1>7. ASSUME NEW r \in Requests,
             ReadWorkOrder(r) \/ ReadPermits(r) \/ ReadPermit(r) \/ RevokeQuery(r) \/ Refuse(r)
      PROVE  FALSE
  BY <1>6, <1>7 DEF ReadWorkOrder, ReadPermits, ReadPermit, RevokeQuery, Refuse, db
<1>8. ASSUME NEW q \in Permits,
             \/ EditPermit(q) \/ Lapse(q)
             \/ \E x \in WorkOrders : LinkPermit(x, q) \/ UnlinkPermit(x, q)
      PROVE  FALSE
  BY <1>6, <1>8 DEF EditPermit, Lapse, LinkPermit, UnlinkPermit
<1>9. CASE UNCHANGED vars
  BY <1>6, <1>9 DEF vars, db
<1> QED
  BY <1>1, <1>2, <1>3, <1>4, <1>5, <1>7, <1>8, <1>9 DEF Next

\* Were what a request has read kept from changing until it saves, as select_for_update
\* would do, no work would begin under a revoked permit: the windows between the reads and
\* the save are all that permit_race needs.
THEOREM UndisturbedStartsAreSafe == Spec /\ Undisturbed => NoStartUnderRevoked
<1>1. Init => ReadsCurrent
  BY DEF Init, ReadsCurrent
<1>2. WorkOrdersInv /\ ReadsCurrent /\ [UndisturbedStep]_vars /\ [Next]_vars => ReadsCurrent'
  BY ReadsStep
<1>3. WorkOrdersInv /\ ReadsCurrent /\ [Next]_vars => [NoStart]_vars
  BY NoStartStep
<1>4. [][NoStart]_vars => NoStartUnderRevoked
  BY PTL DEF NoStartUnderRevoked, NoStart
<1> QED
  BY <1>1, <1>2, <1>3, <1>4, WorkOrdersInvariant, PTL DEF Spec, Undisturbed
=============================================================================
