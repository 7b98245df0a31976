---------------------------- MODULE SessionProofs ----------------------------
(***************************************************************************)
(* What a session may rely on, for any number of overlapping requests: a    *)
(* clean session of the editable tables agrees with what was saved, and no  *)
(* message of a chat session is lost by compacting it.                      *)
(***************************************************************************)
EXTENDS EditableTables, Compaction, SequenceTheorems, TLAPS

(***************************************************************************)
(* Editable tables.                                                         *)
(***************************************************************************)
Session == [edits : SUBSET Edits, pending : (SUBSET Targets) \union {Nothing},
            shown : SUBSET TableRows, revision : Nat, dirty : BOOLEAN]
TableRequest == [pc : {"idle", "loaded", "served"}, browser : Browsers \union {None},
                 op : {"edit", "page", "save_new", "save", "open"},
                 posted : Nat, copy : Session]

TablesTyped ==
  /\ saved \in Seq(Saves)
  /\ table \in [revision : Nat, state : Saves]
  /\ session \in [Browsers -> Session]
  /\ form \in [Browsers -> Nat]
  /\ request \in [TableRequests -> TableRequest]

\* The row is what its last save put there.
RowIsLastSave ==
  /\ table.revision = Len(saved)
  /\ table.revision > 0 => table.state = saved[table.revision]

\* A session, or a copy of one, that says it is clean is what its revision was.
HonestTo(c, history) ==
  /\ c.revision <= Len(history)
  /\ c.revision > 0 /\ ~c.dirty => AsSaved(c, history[c.revision])

SessionsHonest == \A b \in Browsers : HonestTo(session[b], saved)
CopiesHonest == \A r \in TableRequests : HonestTo(request[r].copy, saved)

TablesInv == TablesTyped /\ RowIsLastSave /\ SessionsHonest /\ CopiesHonest

\* The rebuild keeps a copy honest: a row that has its target to itself is
\* matched, and a row that shares its target is not vouched for.
LEMMA RebuiltHonest ==
  ASSUME NEW c \in Session, NEW q \in Queries, HonestTo(c, saved)
  PROVE  /\ Rebuilt(c, q) \in Session
         /\ HonestTo(Rebuilt(c, q), saved)
         /\ Rebuilt(c, q).pending = Nothing
<1>1. CASE c.pending = Nothing
  BY <1>1 DEF Rebuilt
<1>2. CASE c.pending # Nothing
  <2> DEFINE matched == {e \in Alone(q) : Target[e] \in c.pending}
             d == Rebuilt(c, q)
  <2>1. /\ d = [c EXCEPT !.edits = (c.edits \cap Measures) \union matched,
                         !.pending = Nothing, !.shown = IF c.dirty THEN {} ELSE q]
    BY <1>2 DEF Rebuilt, Session
  <2>2. matched \subseteq TableRows /\ q \subseteq TableRows /\ matched \cap Measures = {}
    BY TableAssumption DEF Alone
  <2> HIDE DEF matched
  <2>3. d \in Session /\ d.pending = Nothing /\ d.dirty = c.dirty /\ d.revision = c.revision
    BY <2>1, <2>2 DEF Session, Edits
  <2>4. ASSUME c.revision > 0, ~c.dirty
        PROVE  AsSaved(d, saved[c.revision])
    <3> DEFINE save == saved[c.revision]
    <3>1. c.edits \cap Measures = save \cap Measures /\ c.pending = save \ Measures
      BY <1>2, <2>4 DEF HonestTo, AsSaved
    <3> HIDE DEF save
    <3>2. d.shown = q /\ d.edits = (c.edits \cap Measures) \union matched
      BY <2>1, <2>4 DEF Session
    <3>3. ASSUME NEW e \in Alone(q) PROVE e \in d.edits <=> Target[e] \in save
      <4>1. e \in TableRows /\ e \notin Measures /\ Target[e] \notin Measures
        BY TableAssumption DEF Alone
      <4> QED BY <3>1, <3>2, <4>1 DEF matched
    <3>4. d.edits \cap Measures = save \cap Measures
      BY <2>2, <3>1, <3>2
    <3> QED BY <2>3, <3>2, <3>3, <3>4 DEF AsSaved, save
  <2> QED BY <2>3, <2>4 DEF HonestTo
<1> QED BY <1>1, <1>2

\* A change nobody has saved keeps a copy honest: it no longer says it is clean.
LEMMA UnsavedHonest ==
  ASSUME NEW c \in Session, HonestTo(c, saved), NEW E \in SUBSET Edits
  PROVE  LET d == Unsaved([c EXCEPT !.edits = E]) IN
           d \in Session /\ d.dirty /\ d.revision = c.revision /\ HonestTo(d, saved)
BY DEF Unsaved, Session, HonestTo

\* What was honest stays so when a save is added to the history.
LEMMA HistoryGrows ==
  ASSUME saved \in Seq(Saves), NEW c \in Session, HonestTo(c, saved), NEW E \in Saves
  PROVE  HonestTo(c, Append(saved, E))
BY DEF HonestTo, Session

\* The copy a save leaves behind, and what it saves.
LEMMA SavedHonest ==
  ASSUME TablesInv, NEW r \in TableRequests, NEW q \in Queries
  PROVE  LET d == Bound(SaveCopy(r, q), Len(saved) + 1) IN
           /\ d \in Session
           /\ State(r, q) \in Saves
           /\ HonestTo(d, Append(saved, State(r, q)))
<1> DEFINE c == SaveCopy(r, q)
           d == Bound(c, Len(saved) + 1)
           E == State(r, q)
<1>1. c \in Session /\ c.pending = Nothing /\ c.shown = q /\ q \subseteq TableRows
  <2> DEFINE b == Rebuilt(request[r].copy, q)
  <2>1. b \in Session /\ b.pending = Nothing
    BY RebuiltHonest DEF TablesInv, TablesTyped, TableRequest, CopiesHonest
  <2>2. c = [b EXCEPT !.shown = q] /\ q \subseteq TableRows
    BY TableAssumption DEF SaveCopy
  <2> HIDE DEF b
  <2> QED BY <2>1, <2>2 DEF Session
<1>2. E = {Target[e] : e \in c.edits \cap q} \union (c.edits \cap Measures)
  BY DEF State, Capture
<1> HIDE DEF c, E
<1>3. E \in Saves
  BY <1>1, <1>2, TableAssumption DEF Saves
<1>4. Len(saved) + 1 \in Nat /\ Len(Append(saved, E)) = Len(saved) + 1
      /\ Append(saved, E)[Len(saved) + 1] = E
  BY <1>3 DEF TablesInv, TablesTyped
<1>5. /\ d \in Session /\ d.edits = c.edits /\ d.pending = Nothing
      /\ d.shown = q /\ d.revision = Len(saved) + 1
  BY <1>1, <1>4 DEF Bound, Session
<1>6. c.edits \cap Measures = E \cap Measures
  BY <1>1, <1>2, TableAssumption
<1>7. ASSUME NEW e \in Alone(q) PROVE e \in c.edits <=> Target[e] \in E
  <2>1. e \in q /\ e \in TableRows /\ Target[e] \notin Measures
    BY <1>1, TableAssumption DEF Alone
  <2>2. \A x \in q : Target[x] = Target[e] => x = e
    BY DEF Alone
  <2> QED BY <1>2, <2>1, <2>2
<1>8. AsSaved(d, E)
  BY <1>5, <1>6, <1>7 DEF AsSaved
<1> QED
  <2> HIDE DEF d
  <2>1. HonestTo(d, Append(saved, E))
    BY <1>4, <1>5, <1>8 DEF HonestTo
  <2> QED BY <1>3, <1>5, <2>1 DEF c, d, E

\* A response is the copy it keeps.
LEMMA Responded ==
  ASSUME TablesTyped, NEW r \in TableRequests, NEW c \in Session, Responds(r, c)
  PROVE  /\ request' \in [TableRequests -> TableRequest]
         /\ \A x \in TableRequests : request'[x].copy = IF x = r THEN c ELSE request[x].copy
<1> DEFINE served == [NotRunning EXCEPT !.pc = "served", !.browser = request[r].browser,
                                        !.copy = c]
<1>1. served \in TableRequest /\ served.copy = c
  BY DEF TablesTyped, TableRequest, NotRunning
<1>2. request' = [request EXCEPT ![r] = served]
  BY DEF Responds
<1> HIDE DEF served
<1> QED BY <1>1, <1>2 DEF TablesTyped

\* A refused request keeps nothing.
LEMMA Refused ==
  ASSUME TablesTyped, NEW r \in TableRequests, Refuses(r)
  PROVE  /\ request' \in [TableRequests -> TableRequest]
         /\ \A x \in TableRequests :
              request'[x].copy = IF x = r THEN NewSession ELSE request[x].copy
         /\ NewSession \in Session
<1>1. NotRunning \in TableRequest /\ NotRunning.copy = NewSession /\ NewSession \in Session
  BY DEF NotRunning, TableRequest, Session, NewSession
<1> QED BY <1>1 DEF Refuses, TablesTyped

\* A step that keeps the row and its history: only the copies have to be honest.
LEMMA RespondKeeps ==
  ASSUME TablesInv, NEW r \in TableRequests, NEW c \in Session, HonestTo(c, saved),
         Responds(r, c) \/ (Refuses(r) /\ c = NewSession),
         UNCHANGED <<table, saved, session>>, form' \in [Browsers -> Nat]
  PROVE  TablesInv'
<1>1. /\ request' \in [TableRequests -> TableRequest]
      /\ \A x \in TableRequests : request'[x].copy = IF x = r THEN c ELSE request[x].copy
  BY Responded, Refused DEF TablesInv
<1>2. \A x \in TableRequests : HonestTo(request'[x].copy, saved)
  BY <1>1 DEF TablesInv, CopiesHonest
<1>3. CopiesHonest'
  BY <1>2 DEF CopiesHonest, HonestTo, AsSaved
<1> QED
  BY <1>1, <1>3 DEF TablesInv, TablesTyped, RowIsLastSave, SessionsHonest, HonestTo, AsSaved

\* A request that is refused keeps the invariant.
LEMMA RefuseKeeps ==
  ASSUME TablesInv, NEW r \in TableRequests, Refuses(r),
         UNCHANGED <<table, saved, session, form>>
  PROVE  TablesInv'
<1>1. NewSession \in Session /\ HonestTo(NewSession, saved)
  BY DEF Session, NewSession, HonestTo, TablesInv, TablesTyped
<1>2. form' \in [Browsers -> Nat]
  BY DEF TablesInv, TablesTyped
<1> QED BY <1>1, <1>2, RespondKeeps

\* A save: the row, its history and the copy move together.
LEMMA SaveKeeps ==
  ASSUME TablesInv, NEW r \in TableRequests, NEW q \in Queries,
         table' = [revision |-> table.revision + 1, state |-> State(r, q)],
         saved' = Append(saved, State(r, q)),
         Responds(r, Bound(SaveCopy(r, q), table.revision + 1)),
         UNCHANGED <<session, form>>
  PROVE  TablesInv'
<1> DEFINE d == Bound(SaveCopy(r, q), Len(saved) + 1)
           E == State(r, q)
<1>1. d \in Session /\ E \in Saves /\ HonestTo(d, saved')
  BY SavedHonest
<1>2. Responds(r, d) /\ saved' = Append(saved, E)
      /\ table' = [revision |-> Len(saved) + 1, state |-> E]
  BY DEF TablesInv, RowIsLastSave
<1> HIDE DEF d, E
<1>3. /\ request' \in [TableRequests -> TableRequest]
      /\ \A x \in TableRequests : request'[x].copy = IF x = r THEN d ELSE request[x].copy
  BY <1>1, <1>2, Responded DEF TablesInv
<1>4. TablesTyped' /\ RowIsLastSave'
  BY <1>1, <1>2, <1>3 DEF TablesInv, TablesTyped, RowIsLastSave
<1>5. \A b \in Browsers : HonestTo(session[b], saved')
  BY <1>1, <1>2, HistoryGrows DEF TablesInv, TablesTyped, SessionsHonest
<1>6. ASSUME NEW x \in TableRequests PROVE HonestTo(request'[x].copy, saved')
  <2>1. request[x].copy \in Session /\ HonestTo(request[x].copy, saved)
    BY DEF TablesInv, TablesTyped, TableRequest, CopiesHonest
  <2>2. HonestTo(request[x].copy, saved')
    BY <1>1, <1>2, <2>1, HistoryGrows DEF TablesInv, TablesTyped
  <2> QED BY <1>1, <1>3, <2>2
<1>7. SessionsHonest' /\ CopiesHonest'
  BY <1>5, <1>6 DEF SessionsHonest, CopiesHonest, HonestTo, AsSaved
<1> QED
  BY <1>4, <1>7 DEF TablesInv

\* The first save is a save: the history was empty.
LEMMA FirstSave ==
  ASSUME TablesInv, NEW r \in TableRequests, SaveNew(r), table.revision = 0
  PROVE  \E q \in Queries :
           /\ table' = [revision |-> table.revision + 1, state |-> State(r, q)]
           /\ saved' = Append(saved, State(r, q))
           /\ Responds(r, Bound(SaveCopy(r, q), table.revision + 1))
           /\ UNCHANGED <<session, form>>
<1>1. PICK q \in Queries :
        /\ table' = [revision |-> 1, state |-> State(r, q)]
        /\ saved' = <<State(r, q)>>
        /\ Responds(r, Bound(SaveCopy(r, q), 1))
        /\ UNCHANGED <<session, form>>
  BY DEF SaveNew
<1>2. saved = <<>>
  <2>1. saved \in Seq(Saves) /\ Len(saved) = 0
    BY DEF TablesInv, TablesTyped, RowIsLastSave
  <2> QED BY <2>1, EmptySeq
<1>3. Append(saved, State(r, q)) = <<State(r, q)>>
  BY <1>2
<1>4. table.revision + 1 = 1
  OBVIOUS
<1> QED BY <1>1, <1>3, <1>4

\* The copy that an edit leaves, or a page.
LEMMA EditHonest ==
  ASSUME TablesInv, NEW r \in TableRequests, NEW q \in Queries, NEW e \in Edits
  PROVE  LET c == IF e \in TableRows THEN request[r].copy ELSE Rebuilt(request[r].copy, q)
             d == Unsaved([c EXCEPT !.edits = @ \union {e}])
         IN  /\ c \in Session /\ HonestTo(c, saved)
             /\ d \in Session /\ d.dirty /\ d.revision = c.revision /\ HonestTo(d, saved)
             /\ d.edits = c.edits \union {e} /\ d.pending = c.pending
<1> DEFINE c == IF e \in TableRows THEN request[r].copy ELSE Rebuilt(request[r].copy, q)
           d == Unsaved([c EXCEPT !.edits = @ \union {e}])
<1>1. c \in Session /\ HonestTo(c, saved)
  BY RebuiltHonest DEF TablesInv, TablesTyped, TableRequest, CopiesHonest
<1> HIDE DEF c
<1>2. c.edits \union {e} \in SUBSET Edits
  BY <1>1 DEF Session
<1>3. d \in Session /\ d.dirty /\ d.revision = c.revision /\ HonestTo(d, saved)
  BY <1>1, <1>2, UnsavedHonest DEF Session
<1>4. d.edits = c.edits \union {e} /\ d.pending = c.pending
  BY <1>1 DEF Unsaved, Session
<1> QED BY <1>1, <1>3, <1>4 DEF c

\* The copy that a page leaves, whether it differs from the saved view or not.
LEMMA PageHonest ==
  ASSUME TablesInv, NEW r \in TableRequests, NEW q \in Queries, NEW differs \in BOOLEAN
  PROVE  LET c == IF request[r].copy.revision > 0 /\ ~pinned THEN request[r].copy
                  ELSE Rebuilt(request[r].copy, q)
             d == IF differs THEN Unsaved(c) ELSE c
         IN  /\ c \in Session /\ HonestTo(c, saved)
             /\ d \in Session /\ d.revision = c.revision /\ HonestTo(d, saved)
             /\ d.edits = c.edits /\ d.pending = c.pending /\ (~d.dirty => d = c)
<1> DEFINE c == IF request[r].copy.revision > 0 /\ ~pinned THEN request[r].copy
                ELSE Rebuilt(request[r].copy, q)
           d == IF differs THEN Unsaved(c) ELSE c
<1>1. c \in Session /\ HonestTo(c, saved)
  BY RebuiltHonest DEF TablesInv, TablesTyped, TableRequest, CopiesHonest
<1> HIDE DEF c
<1>2. Unsaved(c) = Unsaved([c EXCEPT !.edits = c.edits]) /\ c.edits \in SUBSET Edits
  BY <1>1 DEF Unsaved, Session
<1>3. d \in Session /\ d.revision = c.revision /\ HonestTo(d, saved)
  BY <1>1, <1>2, UnsavedHonest
<1>4. d.edits = c.edits /\ d.pending = c.pending /\ (~d.dirty => d = c)
  BY <1>1 DEF Unsaved, Session
<1> QED BY <1>1, <1>3, <1>4 DEF c

\* The copy of a table that is opened.
LEMMA OpenHonest ==
  ASSUME TablesInv, NEW r \in TableRequests, table.revision > 0
  PROVE  LET d == Bound([request[r].copy EXCEPT
                           !.edits = table.state \cap Measures,
                           !.pending = table.state \ Measures, !.shown = {}], table.revision)
         IN  /\ d \in Session /\ HonestTo(d, saved) /\ d.revision = table.revision
             /\ d.edits = table.state \cap Measures /\ d.pending = table.state \ Measures
             /\ d.pending # Nothing
<1> DEFINE c == request[r].copy
           d == Bound([c EXCEPT !.edits = table.state \cap Measures,
                                !.pending = table.state \ Measures, !.shown = {}],
                      table.revision)
<1>1. c \in Session
  BY DEF TablesInv, TablesTyped, TableRequest
<1>2. table.revision \in Nat /\ table.state \subseteq Targets \union Measures
  BY DEF TablesInv, TablesTyped, Saves
<1>3. table.state \ Measures \in SUBSET Targets /\ table.state \ Measures # Nothing
  BY <1>2, TableAssumption DEF Nothing
<1> HIDE DEF c
<1>4. /\ d \in Session /\ d.revision = table.revision
      /\ d.edits = table.state \cap Measures /\ d.pending = table.state \ Measures
  BY <1>1, <1>2, <1>3 DEF Bound, Session, Edits
<1>5. HonestTo(d, saved)
  <2> HIDE DEF d
  <2> QED BY <1>2, <1>3, <1>4 DEF HonestTo, AsSaved, TablesInv, RowIsLastSave
<1> QED BY <1>3, <1>4, <1>5 DEF c

\* A request that edits, renders, saves or opens a table keeps the invariant.
LEMMA RequestStep ==
  ASSUME TablesInv, NEW r \in TableRequests,
         EditRow(r) \/ RenderPage(r) \/ SaveNew(r) \/ SaveUpdate(r) \/ OpenTable(r)
  PROVE  TablesInv'
<1>0. form \in [Browsers -> Nat]
  BY DEF TablesInv, TablesTyped
<1>1. CASE EditRow(r)
  <2>1. PICK q \in Queries : \E e \in q \union Measures :
          LET c == IF e \in TableRows THEN request[r].copy ELSE Rebuilt(request[r].copy, q)
          IN  Responds(r, Unsaved([c EXCEPT !.edits = @ \union {e}]))
    BY <1>1 DEF EditRow
  <2>2. q \union Measures \subseteq Edits
    BY TableAssumption DEF Edits
  <2>3. UNCHANGED <<table, saved, session>> /\ form' \in [Browsers -> Nat]
    BY <1>0, <1>1 DEF EditRow
  <2> QED BY <2>1, <2>2, <2>3, EditHonest, RespondKeeps
<1>2. CASE RenderPage(r)
  <2>1. PICK q \in Queries, differs \in BOOLEAN :
          LET c == IF request[r].copy.revision > 0 /\ ~pinned THEN request[r].copy
                   ELSE Rebuilt(request[r].copy, q)
          IN  Responds(r, IF differs THEN Unsaved(c) ELSE c)
    BY <1>2 DEF RenderPage
  <2>2. form' \in [Browsers -> Nat] /\ UNCHANGED <<table, saved, session>>
    BY <1>2 DEF RenderPage, TablesInv, TablesTyped
  <2> QED BY <2>1, <2>2, PageHonest, RespondKeeps
<1>3. CASE SaveNew(r)
  <2>1. CASE table.revision = 0
    BY <1>3, <2>1, FirstSave, SaveKeeps
  <2>2. CASE table.revision # 0
    BY <1>3, <2>2, RefuseKeeps DEF SaveNew
  <2> QED BY <2>1, <2>2
<1>4. CASE SaveUpdate(r)
  <2>1. CASE request[r].posted = table.revision /\ pinned
    BY <1>4, <2>1, SaveKeeps DEF SaveUpdate
  <2>2. CASE ~(request[r].posted = table.revision /\ pinned)
    BY <1>4, <2>2, RefuseKeeps DEF SaveUpdate
  <2> QED BY <2>1, <2>2
<1>5. CASE OpenTable(r)
  <2>1. CASE table.revision > 0 /\ pinned
    BY <1>0, <1>5, <2>1, OpenHonest, RespondKeeps DEF OpenTable
  <2>2. CASE ~(table.revision > 0 /\ pinned)
    BY <1>5, <2>2, RefuseKeeps DEF OpenTable
  <2> QED BY <2>1, <2>2
<1> QED
  BY <1>1, <1>2, <1>3, <1>4, <1>5

\* What a request copies as it begins and what it leaves as it ends.
LEMMA Began ==
  ASSUME TablesTyped, NEW r \in TableRequests, NEW b \in Browsers,
         NEW op \in {"edit", "page", "save_new", "save", "open"}, Begin(r, b, op)
  PROVE  /\ request' \in [TableRequests -> TableRequest]
         /\ \A x \in TableRequests :
              request'[x].copy = IF x = r THEN session[b] ELSE request[x].copy
         /\ UNCHANGED <<table, saved, session, form>>
<1> DEFINE begun == [pc |-> "loaded", browser |-> b, op |-> op,
                     posted |-> IF op = "save" THEN form[b] ELSE 0, copy |-> session[b]]
<1>1. begun \in TableRequest /\ begun.copy = session[b]
  BY DEF TablesTyped, TableRequest
<1>2. request' = [request EXCEPT ![r] = begun] /\ UNCHANGED <<table, saved, session, form>>
  BY DEF Begin
<1> HIDE DEF begun
<1> QED BY <1>1, <1>2 DEF TablesTyped

\* A request takes a copy of its session and may store it over a later one.
LEMMA SessionStep ==
  ASSUME TablesInv, NEW r \in TableRequests,
         \/ \E b \in Browsers, op \in {"edit", "page", "save_new", "save", "open"} :
              Begin(r, b, op)
         \/ StoreSession(r)
  PROVE  TablesInv'
<1>1. ASSUME NEW b \in Browsers, NEW op \in {"edit", "page", "save_new", "save", "open"},
             Begin(r, b, op)
      PROVE  TablesInv'
  <2>1. /\ request' \in [TableRequests -> TableRequest]
        /\ \A x \in TableRequests :
             request'[x].copy = IF x = r THEN session[b] ELSE request[x].copy
        /\ UNCHANGED <<table, saved, session, form>>
    BY <1>1, Began DEF TablesInv
  <2>2. \A x \in TableRequests : HonestTo(request'[x].copy, saved)
    BY <2>1 DEF TablesInv, CopiesHonest, SessionsHonest
  <2> QED
    BY <2>1, <2>2 DEF TablesInv, TablesTyped, RowIsLastSave, SessionsHonest, CopiesHonest,
       HonestTo, AsSaved
<1>2. CASE StoreSession(r)
  <2> DEFINE b == request[r].browser
  <2>1. request[r].copy \in Session /\ HonestTo(request[r].copy, saved)
    BY DEF TablesInv, TablesTyped, TableRequest, CopiesHonest
  <2>2. /\ session' = [session EXCEPT ![b] = request[r].copy] /\ Refuses(r)
        /\ UNCHANGED <<table, saved, form>>
    BY <1>2 DEF StoreSession
  <2>3. session' \in [Browsers -> Session] /\ \A x \in Browsers : HonestTo(session'[x], saved)
    BY <2>1, <2>2 DEF TablesInv, TablesTyped, SessionsHonest
  <2>4. HonestTo(NewSession, saved)
    BY DEF NewSession, HonestTo, TablesInv, TablesTyped
  <2>5. /\ request' \in [TableRequests -> TableRequest]
        /\ \A x \in TableRequests : HonestTo(request'[x].copy, saved)
    BY <2>2, <2>4, Refused DEF TablesInv, CopiesHonest
  <2> QED
    BY <2>2, <2>3, <2>5 DEF TablesInv, TablesTyped, RowIsLastSave, SessionsHonest,
       CopiesHonest, HonestTo, AsSaved
<1> QED
  BY <1>1, <1>2

\* The inductive invariant holds however the browsers' requests overlap.
THEOREM TablesInvariant == TablesSpec => []TablesInv
<1>1. TablesInit => TablesInv
  BY DEF TablesInit, TablesInv, TablesTyped, Session, TableRequest, NewSession, NotRunning,
     RowIsLastSave, SessionsHonest, CopiesHonest, HonestTo, Saves
<1>2. TablesInv /\ [TablesNext]_tables => TablesInv'
  <2> SUFFICES ASSUME TablesInv, [TablesNext]_tables PROVE TablesInv'
    OBVIOUS
  <2>1. CASE ChangeFile \/ UNCHANGED tables
    BY <2>1 DEF ChangeFile, tables, TablesInv, TablesTyped, RowIsLastSave, SessionsHonest,
       CopiesHonest, HonestTo, AsSaved
  <2>2. CASE TablesNext /\ ~ChangeFile
    BY <2>2, RequestStep, SessionStep DEF TablesNext
  <2> QED BY <2>1, <2>2
<1> QED
  BY <1>1, <1>2, PTL DEF TablesSpec

\* However the requests of a browser overwrite its session, and whatever rows
\* each of them shows, one that says it has no unsaved changes agrees with the
\* revision it has open: on every choice, on what is still to be matched, and
\* on each row it was saved or matched by that has its target to itself.
THEOREM CleanSessionsAreSaved == TablesSpec => []CleanIsSaved
<1>1. TablesInv => CleanIsSaved
  BY DEF TablesInv, SessionsHonest, HonestTo, CleanIsSaved
<1> QED
  BY <1>1, TablesInvariant, PTL

\* What a stale form breaks: a save posts the revision its session has open,
\* not the one a later page has shown.
OwnRevisions ==
  \A r \in TableRequests : Serves(r, "save") => request[r].posted = request[r].copy.revision

\* What a filter or a shared target breaks: the rows that a request rebuilds
\* have all its edited rows, each with its target to itself, and one such row
\* for every target that is to be matched.
ShowsAll(c) == \A q \in Queries :
  /\ c.edits \cap TableRows \subseteq Alone(q)
  /\ c.pending # Nothing => \A t \in c.pending : \E e \in Alone(q) : Target[e] = t

QueriesShowAll ==
  \A r \in TableRequests : request[r].pc = "loaded" => ShowsAll(request[r].copy)

\* What a session has, in the terms of a save.
Holds(c) ==
  (c.edits \cap Measures)
    \union (IF c.pending = Nothing THEN {Target[e] : e \in c.edits \cap TableRows}
            ELSE c.pending)

\* A session, or a copy of one, has all that the revision it has open holds
\* (edits are only added), and no more when it says it is clean.
Keeps(c, history) ==
  c.revision > 0 => /\ history[c.revision] \subseteq Holds(c)
                    /\ ~c.dirty => Holds(c) = history[c.revision]

AllKeep(history) ==
  /\ \A b \in Browsers : Keeps(session[b], history)
  /\ \A r \in TableRequests : Keeps(request[r].copy, history)

\* A rebuild that shows all keeps all, and a save of it saves all.
LEMMA RebuildHolds ==
  ASSUME NEW c \in Session, NEW q \in Queries, ShowsAll(c)
  PROVE  LET d == Rebuilt(c, q) IN
           /\ Holds(d) = Holds(c) /\ d.revision = c.revision /\ d.dirty = c.dirty
           /\ Capture(d, q) = Holds(d)
<1> DEFINE d == Rebuilt(c, q)
<1>1. q \subseteq TableRows /\ Alone(q) \subseteq q /\ TableRows \cap Measures = {}
  BY TableAssumption DEF Alone
<1>2. CASE c.pending = Nothing
  <2>1. d = c
    BY <1>2 DEF Rebuilt
  <2>2. c.edits \cap TableRows = c.edits \cap q
    BY <1>1 DEF ShowsAll
  <2> QED BY <1>2, <2>1, <2>2 DEF Holds, Capture
<1>3. CASE c.pending # Nothing
  <2> DEFINE matched == {e \in Alone(q) : Target[e] \in c.pending}
  <2>1. /\ d.edits = (c.edits \cap Measures) \union matched /\ d.pending = Nothing
        /\ d.revision = c.revision /\ d.dirty = c.dirty
    BY <1>3 DEF Rebuilt, Session
  <2>2. {Target[e] : e \in matched} = c.pending
    BY <1>3 DEF ShowsAll
  <2>3. matched \subseteq Alone(q)
    OBVIOUS
  <2> HIDE DEF matched, d
  <2>4. d.edits \cap Measures = c.edits \cap Measures
    BY <1>1, <2>1, <2>3
  <2>5. d.edits \cap TableRows = matched /\ d.edits \cap q = matched
    BY <1>1, <2>1, <2>3
  <2>6. Holds(c) = (c.edits \cap Measures) \union c.pending
    BY <1>3 DEF Holds
  <2>7. Holds(d) = (d.edits \cap Measures) \union {Target[e] : e \in d.edits \cap TableRows}
    BY <2>1 DEF Holds
  <2>8. Capture(d, q) = {Target[e] : e \in d.edits \cap q} \union (d.edits \cap Measures)
    BY DEF Capture
  <2>9. Holds(d) = Holds(c) /\ Capture(d, q) = Holds(d)
    BY <2>2, <2>4, <2>5, <2>6, <2>7, <2>8
  <2> QED BY <2>1, <2>9 DEF d
<1> QED BY <1>2, <1>3

\* It stays so when a save is added to the history.
LEMMA KeepsMore ==
  ASSUME TablesInv, AllKeep(saved), NEW E \in Saves
  PROVE  AllKeep(Append(saved, E))
<1>1. ASSUME NEW c \in Session, c.revision <= Len(saved), Keeps(c, saved)
      PROVE  Keeps(c, Append(saved, E))
  <2>1. c.revision > 0 => Append(saved, E)[c.revision] = saved[c.revision]
    BY <1>1 DEF TablesInv, TablesTyped, Session
  <2> QED BY <1>1, <2>1 DEF Keeps
<1>2. ASSUME NEW b \in Browsers PROVE Keeps(session[b], Append(saved, E))
  BY <1>1 DEF TablesInv, TablesTyped, SessionsHonest, HonestTo, AllKeep
<1>3. ASSUME NEW r \in TableRequests PROVE Keeps(request[r].copy, Append(saved, E))
  BY <1>1 DEF TablesInv, TablesTyped, TableRequest, CopiesHonest, HonestTo, AllKeep
<1> QED
  BY <1>2, <1>3 DEF AllKeep

\* The sessions and copies of the next state, one by one.
LEMMA AllKeepNext ==
  ASSUME \A b \in Browsers : Keeps(session'[b], saved'),
         \A r \in TableRequests : Keeps(request'[r].copy, saved')
  PROVE  AllKeep(saved)'
BY DEF AllKeep, Keeps, Holds

\* A response that keeps the history.
LEMMA RespondKeepsAll ==
  ASSUME TablesInv, AllKeep(saved), NEW r \in TableRequests, NEW c \in Session,
         Keeps(c, saved), Responds(r, c) \/ (Refuses(r) /\ c = NewSession),
         UNCHANGED <<saved, session>>
  PROVE  AllKeep(saved)'
<1>1. \A x \in TableRequests : request'[x].copy = IF x = r THEN c ELSE request[x].copy
  BY Responded, Refused DEF TablesInv
<1> QED
  BY <1>1, AllKeepNext DEF AllKeep

\* A refused request has nothing to keep.
LEMMA RefuseKeepsAll ==
  ASSUME TablesInv, AllKeep(saved), NEW r \in TableRequests, Refuses(r),
         UNCHANGED <<saved, session>>
  PROVE  AllKeep(saved)'
<1>1. NewSession \in Session /\ Keeps(NewSession, saved)
  BY DEF NewSession, Session, Keeps
<1> QED BY <1>1, RespondKeepsAll

\* A save adds what its copy holds, and what an earlier save held before it.
LEMMA SaveKeepsAll ==
  ASSUME TablesInv, AllKeep(saved), NEW r \in TableRequests, NEW q \in Queries,
         ShowsAll(request[r].copy),
         saved' = Append(saved, State(r, q)),
         Responds(r, Bound(SaveCopy(r, q), table.revision + 1)),
         UNCHANGED session
  PROVE  AllKeep(saved)' /\ State(r, q) = Holds(request[r].copy)
<1> DEFINE c == request[r].copy
           b == Rebuilt(c, q)
           d == Bound(SaveCopy(r, q), Len(saved) + 1)
           E == State(r, q)
<1>1. c \in Session /\ b \in Session
  BY RebuiltHonest DEF TablesInv, TablesTyped, TableRequest, CopiesHonest
<1>2. Holds(b) = Holds(c) /\ Capture(b, q) = Holds(b)
  BY <1>1, RebuildHolds
<1>3. d \in Session /\ E \in Saves
  BY SavedHonest
<1>4. d = Bound([b EXCEPT !.shown = q], Len(saved) + 1) /\ E = Capture([b EXCEPT !.shown = q], q)
  BY DEF SaveCopy, State
<1>5. Responds(r, d) /\ saved' = Append(saved, E)
  BY DEF TablesInv, RowIsLastSave
<1> HIDE DEF c, b, d, E
<1>6. Holds(d) = Holds(b) /\ E = Capture(b, q) /\ d.revision = Len(saved) + 1
  BY <1>1, <1>4 DEF Bound, Holds, Capture, Session
<1>7. saved'[Len(saved) + 1] = E
  BY <1>3, <1>5 DEF TablesInv, TablesTyped
<1>8. Keeps(d, saved') /\ E = Holds(c)
  BY <1>2, <1>6, <1>7 DEF Keeps
<1>9. AllKeep(saved')
  BY <1>3, <1>5, KeepsMore
<1>10. \A x \in TableRequests : request'[x].copy = IF x = r THEN d ELSE request[x].copy
  BY <1>3, <1>5, Responded DEF TablesInv
<1>11. AllKeep(saved)'
  BY <1>8, <1>9, <1>10, AllKeepNext DEF AllKeep
<1> QED BY <1>8, <1>11 DEF c, E

\* Every copy in use keeps what the revision it shows was saved with.
LEMMA KeepsStep ==
  ASSUME TablesInv, AllKeep(saved), QueriesShowAll, [TablesNext]_tables
  PROVE  AllKeep(saved)'
<1>1. ASSUME NEW r \in TableRequests, NEW b \in Browsers,
             NEW op \in {"edit", "page", "save_new", "save", "open"}, Begin(r, b, op)
      PROVE  AllKeep(saved)'
  <2>1. /\ UNCHANGED <<saved, session>>
        /\ \A x \in TableRequests :
             request'[x].copy = IF x = r THEN session[b] ELSE request[x].copy
    BY <1>1, Began DEF TablesInv
  <2> QED BY <2>1, AllKeepNext DEF AllKeep
<1>2. ASSUME NEW r \in TableRequests, request[r].pc = "loaded"
      PROVE  /\ request[r].copy \in Session /\ Keeps(request[r].copy, saved)
             /\ ShowsAll(request[r].copy)
             /\ \A q \in Queries : Keeps(Rebuilt(request[r].copy, q), saved)
  <2>1. /\ request[r].copy \in Session /\ Keeps(request[r].copy, saved)
        /\ ShowsAll(request[r].copy)
    BY <1>2 DEF TablesInv, TablesTyped, TableRequest, AllKeep, QueriesShowAll
  <2>2. ASSUME NEW q \in Queries PROVE Keeps(Rebuilt(request[r].copy, q), saved)
    BY <2>1, RebuildHolds DEF Keeps
  <2> QED BY <2>1, <2>2
<1>3. ASSUME NEW r \in TableRequests, EditRow(r)
      PROVE  AllKeep(saved)'
  <2>1. PICK q \in Queries : \E e \in q \union Measures :
          LET c == IF e \in TableRows THEN request[r].copy ELSE Rebuilt(request[r].copy, q)
          IN  Responds(r, Unsaved([c EXCEPT !.edits = @ \union {e}]))
    BY <1>3 DEF EditRow
  <2>2. q \union Measures \subseteq Edits
    BY TableAssumption DEF Edits
  <2>3. PICK e \in Edits :
          LET c == IF e \in TableRows THEN request[r].copy ELSE Rebuilt(request[r].copy, q)
          IN  Responds(r, Unsaved([c EXCEPT !.edits = @ \union {e}]))
    BY <2>1, <2>2
  <2> DEFINE c == IF e \in TableRows THEN request[r].copy ELSE Rebuilt(request[r].copy, q)
             d == Unsaved([c EXCEPT !.edits = @ \union {e}])
  <2>4. /\ d \in Session /\ d.dirty /\ d.revision = c.revision
        /\ d.edits = c.edits \union {e} /\ d.pending = c.pending
    BY EditHonest
  <2>5. Keeps(c, saved) /\ UNCHANGED <<saved, session>> /\ Responds(r, d)
    BY <1>2, <1>3, <2>3 DEF EditRow, Serves
  <2> HIDE DEF c, d
  <2>6. Holds(c) \subseteq Holds(d)
    BY <2>4 DEF Holds
  <2>7. Keeps(d, saved)
    BY <2>4, <2>5, <2>6 DEF Keeps
  <2> QED BY <2>4, <2>5, <2>7, RespondKeepsAll
<1>4. ASSUME NEW r \in TableRequests, RenderPage(r)
      PROVE  AllKeep(saved)'
  <2>1. PICK q \in Queries, differs \in BOOLEAN :
          LET c == IF request[r].copy.revision > 0 /\ ~pinned THEN request[r].copy
                   ELSE Rebuilt(request[r].copy, q)
          IN  Responds(r, IF differs THEN Unsaved(c) ELSE c)
    BY <1>4 DEF RenderPage
  <2> DEFINE c == IF request[r].copy.revision > 0 /\ ~pinned THEN request[r].copy
                  ELSE Rebuilt(request[r].copy, q)
             d == IF differs THEN Unsaved(c) ELSE c
  <2>2. /\ d \in Session /\ d.revision = c.revision
        /\ d.edits = c.edits /\ d.pending = c.pending /\ (~d.dirty => d = c)
    BY PageHonest
  <2>3. Keeps(c, saved) /\ UNCHANGED <<saved, session>> /\ Responds(r, d)
    BY <1>2, <1>4, <2>1 DEF RenderPage, Serves
  <2> HIDE DEF c, d
  <2>4. Holds(d) = Holds(c)
    BY <2>2 DEF Holds
  <2>5. Keeps(d, saved)
    BY <2>2, <2>3, <2>4 DEF Keeps
  <2> QED BY <2>2, <2>3, <2>5, RespondKeepsAll
<1>5. ASSUME NEW r \in TableRequests, SaveNew(r)
      PROVE  AllKeep(saved)'
  <2>1. CASE table.revision = 0
    BY <1>2, <1>5, <2>1, FirstSave, SaveKeepsAll DEF SaveNew, Serves
  <2>2. CASE table.revision # 0
    BY <1>5, <2>2, RefuseKeepsAll DEF SaveNew
  <2> QED BY <2>1, <2>2
<1>6. ASSUME NEW r \in TableRequests, SaveUpdate(r)
      PROVE  AllKeep(saved)'
  <2>1. CASE request[r].posted = table.revision /\ pinned
    BY <1>2, <1>6, <2>1, SaveKeepsAll DEF SaveUpdate, Serves
  <2>2. CASE ~(request[r].posted = table.revision /\ pinned)
    BY <1>6, <2>2, RefuseKeepsAll DEF SaveUpdate
  <2> QED BY <2>1, <2>2
<1>7. ASSUME NEW r \in TableRequests, OpenTable(r)
      PROVE  AllKeep(saved)'
  <2>1. CASE table.revision > 0 /\ pinned
    <3> DEFINE d == Bound([request[r].copy EXCEPT
                             !.edits = table.state \cap Measures,
                             !.pending = table.state \ Measures, !.shown = {}],
                          table.revision)
    <3>1. /\ d \in Session /\ d.revision = table.revision /\ d.pending # Nothing
          /\ d.edits = table.state \cap Measures /\ d.pending = table.state \ Measures
      BY <2>1, OpenHonest
    <3>2. Responds(r, d) /\ UNCHANGED <<saved, session>>
      BY <1>7, <2>1 DEF OpenTable
    <3> HIDE DEF d
    <3>3. Holds(d) = table.state
      BY <3>1 DEF Holds
    <3>4. Keeps(d, saved)
      BY <2>1, <3>1, <3>3 DEF Keeps, TablesInv, RowIsLastSave
    <3> QED BY <3>1, <3>2, <3>4, RespondKeepsAll
  <2>2. CASE ~(table.revision > 0 /\ pinned)
    BY <1>7, <2>2, RefuseKeepsAll DEF OpenTable
  <2> QED BY <2>1, <2>2
<1>8. ASSUME NEW r \in TableRequests, StoreSession(r)
      PROVE  AllKeep(saved)'
  <2>1. /\ session' = [session EXCEPT ![request[r].browser] = request[r].copy]
        /\ saved' = saved /\ Refuses(r)
    BY <1>8 DEF StoreSession
  <2>2. \A x \in TableRequests : request'[x].copy = IF x = r THEN NewSession ELSE request[x].copy
    BY <2>1, Refused DEF TablesInv
  <2>3. \A b \in Browsers : Keeps(session'[b], saved')
    BY <2>1 DEF AllKeep, TablesInv, TablesTyped
  <2>4. Keeps(NewSession, saved')
    BY DEF NewSession, Keeps
  <2>5. \A x \in TableRequests : Keeps(request'[x].copy, saved')
    BY <2>1, <2>2, <2>4 DEF AllKeep
  <2> QED BY <2>3, <2>5, AllKeepNext
<1>9. CASE ChangeFile \/ UNCHANGED tables
  BY <1>9, AllKeepNext DEF ChangeFile, tables, AllKeep
<1> QED
  BY <1>1, <1>3, <1>4, <1>5, <1>6, <1>7, <1>8, <1>9 DEF TablesNext

\* Only a save adds to the history; the one it follows is in it.
LEMMA NextSaveIncludes ==
  ASSUME TablesInv, AllKeep(saved), OwnRevisions, QueriesShowAll, SavesKeepEarlierSaves,
         [TablesNext]_tables
  PROVE  SavesKeepEarlierSaves'
<1>1. ASSUME NEW r \in TableRequests, SaveNew(r)
      PROVE  SavesKeepEarlierSaves'
  BY <1>1 DEF SaveNew, SavesKeepEarlierSaves
<1>2. ASSUME NEW r \in TableRequests, SaveUpdate(r),
             request[r].posted = table.revision, pinned
      PROVE  SavesKeepEarlierSaves'
  <2> DEFINE c == request[r].copy
  <2>1. PICK q \in Queries :
          /\ saved' = Append(saved, State(r, q)) /\ UNCHANGED session
          /\ Responds(r, Bound(SaveCopy(r, q), table.revision + 1))
    BY <1>2 DEF SaveUpdate
  <2>2. ShowsAll(c)
    BY <1>2 DEF SaveUpdate, Serves, QueriesShowAll
  <2> DEFINE E == State(r, q)
  <2>3. E = Holds(c) /\ E \in Saves
    BY <2>1, <2>2, SaveKeepsAll, SavedHonest
  <2>4. c.revision = Len(saved) /\ Keeps(c, saved)
    BY <1>2 DEF OwnRevisions, SaveUpdate, TablesInv, RowIsLastSave, AllKeep
  <2>5. Len(saved) > 0 => saved[Len(saved)] \subseteq E
    BY <2>3, <2>4 DEF Keeps
  <2>6. saved' = Append(saved, E)
    BY <2>1
  <2> HIDE DEF E, c
  <2> QED BY <2>3, <2>5, <2>6 DEF SavesKeepEarlierSaves, TablesInv, TablesTyped
<1>3. ASSUME UNCHANGED saved PROVE SavesKeepEarlierSaves'
  BY <1>3 DEF SavesKeepEarlierSaves
<1> QED
  BY <1>1, <1>2, <1>3 DEF TablesNext, Begin, EditRow, RenderPage, SaveUpdate, OpenTable,
     StoreSession, ChangeFile, tables

\* A session that says it has no unsaved changes holds what the revision it has
\* open was saved with, and nothing else.
SessionsHoldTheirSaves ==
  \A b \in Browsers : session[b].revision > 0 /\ ~session[b].dirty =>
    Holds(session[b]) = saved[session[b].revision]

\* While every request shows all the edited rows of its session, each under a
\* target of its own, a clean session and its revision are the same: it is the
\* filter of a save, or a shared target, that makes them differ.
THEOREM ShownSessionsAreSaved ==
  TablesSpec /\ []QueriesShowAll => []SessionsHoldTheirSaves
<1> DEFINE Inv == AllKeep(saved)
<1>1. TablesInit => Inv
  BY DEF TablesInit, AllKeep, Keeps, NewSession, NotRunning
<1>2. TablesInv /\ Inv /\ QueriesShowAll /\ [TablesNext]_tables => Inv'
  BY KeepsStep
<1>3. Inv => SessionsHoldTheirSaves
  BY DEF AllKeep, Keeps, SessionsHoldTheirSaves
<1> HIDE DEF Inv
<1> QED
  BY <1>1, <1>2, <1>3, TablesInvariant, PTL DEF TablesSpec

\* A project whose pages have no filter and whose rows have a target each.
Unfiltered ==
  /\ Queries = {TableRows} /\ Targets = {Target[e] : e \in TableRows}
  /\ \A d, e \in TableRows : Target[d] = Target[e] => d = e

\* There, a request always rebuilds all that its session has.
LEMMA UnfilteredShowsAll ==
  ASSUME TablesInv, Unfiltered
  PROVE  QueriesShowAll
<1> SUFFICES ASSUME NEW r \in TableRequests PROVE ShowsAll(request[r].copy)
  BY DEF QueriesShowAll
<1>1. request[r].copy \in Session
  BY DEF TablesInv, TablesTyped, TableRequest
<1>2. Alone(TableRows) = TableRows
  BY DEF Unfiltered, Alone
<1>3. ASSUME request[r].copy.pending # Nothing, NEW t \in request[r].copy.pending
      PROVE  \E e \in TableRows : Target[e] = t
  BY <1>1, <1>3 DEF Session, Unfiltered
<1> QED BY <1>2, <1>3 DEF ShowsAll, Unfiltered

\* So the condition of the theorem is not a vain one.
THEOREM UnfilteredSessionsAreSaved ==
  ASSUME Unfiltered
  PROVE  TablesSpec => []SessionsHoldTheirSaves
<1>1. TablesInv => QueriesShowAll
  BY UnfilteredShowsAll
<1> QED
  BY <1>1, TablesInvariant, ShownSessionsAreSaved, PTL

\* Were the revision a form posts that of the session it saves, and every
\* edited row in its view under a target of its own, no save would take back
\* what an earlier one saved.
THEOREM OwnRevisionsKeepSaves ==
  TablesSpec /\ []OwnRevisions /\ []QueriesShowAll => []SavesKeepEarlierSaves
<1> DEFINE Inv == AllKeep(saved) /\ SavesKeepEarlierSaves
<1>1. TablesInit => Inv
  BY DEF TablesInit, AllKeep, Keeps, NewSession, NotRunning, SavesKeepEarlierSaves
<1>2. TablesInv /\ Inv /\ OwnRevisions /\ QueriesShowAll /\ [TablesNext]_tables => Inv'
  BY KeepsStep, NextSaveIncludes
<1>3. Inv => SavesKeepEarlierSaves
  OBVIOUS
<1> HIDE DEF Inv
<1> QED
  BY <1>1, <1>2, <1>3, TablesInvariant, PTL DEF TablesSpec

\* The bound holds although only SaveUpdate tests it: a new table has revision
\* 1.  No page is rendered with a later revision than the row has.
WithinBound ==
  /\ pinned \in BOOLEAN
  /\ table.revision <= MaxRevision
  /\ form \in [Browsers -> 0 .. MaxRevision]

\* No revision number passes the bound.
LEMMA BoundStep ==
  ASSUME TablesInv, WithinBound, [TablesNext]_tables
  PROVE  WithinBound'
<1> USE TableAssumption DEF WithinBound
<1>1. CASE ChangeFile \/ UNCHANGED tables
  BY <1>1 DEF ChangeFile, tables
<1>2. ASSUME NEW r \in TableRequests,
             \/ \E b \in Browsers, op \in {"edit", "page", "save_new", "save", "open"} :
                  Begin(r, b, op)
             \/ EditRow(r) \/ OpenTable(r) \/ StoreSession(r)
      PROVE  WithinBound'
  BY <1>2 DEF Begin, EditRow, OpenTable, StoreSession
<1>3. ASSUME NEW r \in TableRequests, RenderPage(r)
      PROVE  WithinBound'
  <2>1. UNCHANGED <<table, pinned>>
    BY <1>3 DEF RenderPage
  <2> DEFINE n == IF request[r].copy.revision > 0 THEN table.revision ELSE 0
  <2>2. form' = [form EXCEPT ![request[r].browser] = n]
    BY <1>3 DEF RenderPage
  <2>3. n \in 0 .. MaxRevision
    BY DEF TablesInv, TablesTyped
  <2> HIDE DEF n
  <2> QED BY <2>1, <2>2, <2>3
<1>4. ASSUME NEW r \in TableRequests, SaveNew(r)
      PROVE  WithinBound'
  <2>1. CASE table.revision = 0
    <3>1. table'.revision = 1 /\ pinned' = TRUE /\ form' = form
      BY <1>4, <2>1 DEF SaveNew
    <3> QED BY <3>1
  <2>2. CASE table.revision # 0
    BY <1>4, <2>2 DEF SaveNew
  <2> QED BY <2>1, <2>2
<1>5. ASSUME NEW r \in TableRequests, SaveUpdate(r)
      PROVE  WithinBound'
  BY <1>5 DEF SaveUpdate, TablesInv, TablesTyped
<1> QED
  BY <1>1, <1>2, <1>3, <1>4, <1>5 DEF TablesNext

\* The row's revision counts its saves, and no session, form or request leaves
\* its type, however requests and saves overlap.
THEOREM TablesTypeCorrect == TablesSpec => []TablesTypeOK
<1>1. TablesInit => WithinBound
  BY TableAssumption DEF TablesInit, WithinBound
<1>2. TablesInv /\ WithinBound /\ [TablesNext]_tables => WithinBound'
  BY BoundStep
<1>3. TablesInv /\ WithinBound => TablesTypeOK
  BY DEF TablesInv, TablesTyped, WithinBound, RowIsLastSave, TablesTypeOK,
     Session, TableRequest
<1> QED
  BY <1>1, <1>2, <1>3, TablesInvariant, PTL DEF TablesSpec

(***************************************************************************)
(* Compaction.                                                              *)
(***************************************************************************)
Phases == {"idle", "listed", "asking", "created", "marked"}

Summary == [number : Nat, covers : SUBSET Int]
JobState == [pc : Phases, messages : SUBSET Int, previous : Summary]

ChatTyped ==
  /\ created \in Nat
  /\ job \in [Jobs -> JobState]
  /\ summaries \subseteq Summary
  /\ \A s \in summaries : s.number \in 1 .. created
  /\ \A j \in Jobs : job[j].previous.number <= created

Needs(j) == job[j].previous.covers \union job[j].messages

\* A compaction that has made its summary may delete the one it read: another,
\* newer one covers what that one covers and its own messages.
Replaced == \A j \in Jobs : job[j].pc \in {"created", "marked"} =>
  \E s \in summaries : s.number > job[j].previous.number /\ Needs(j) \subseteq s.covers

CompactionInv == ChatTyped /\ Replaced /\ CompactedIsCovered

\* A job that lists the messages to compact keeps the invariant.
LEMMA ListStep ==
  ASSUME CompactionInv, NEW j \in Jobs, ListMessages(j)
  PROVE  CompactionInv'
<1>1. PICK M \in SUBSET Int : job' = [job EXCEPT ![j].pc = "listed", ![j].messages = M]
  BY DEF ListMessages
<1>2. ChatTyped'
  <2>1. [job[j] EXCEPT !.pc = "listed", !.messages = M] \in JobState
    BY DEF CompactionInv, ChatTyped, JobState, Phases
  <2>2. \A k \in Jobs : job'[k].previous = job[k].previous
    BY <1>1 DEF CompactionInv, ChatTyped, JobState
  <2> QED BY <1>1, <2>1, <2>2 DEF CompactionInv, ChatTyped, ListMessages
<1>3. Replaced'
  BY <1>1 DEF CompactionInv, ChatTyped, JobState, Replaced, Needs, ListMessages
<1> QED
  BY <1>2, <1>3 DEF CompactionInv, CompactedIsCovered, ListMessages

\* A job that reads the previous summary keeps it.
LEMMA ReadStep ==
  ASSUME CompactionInv, NEW j \in Jobs, ReadPrevious(j)
  PROVE  CompactionInv'
<1>1. PICK s \in summaries \union {NoSummary} :
        job' = [job EXCEPT ![j].pc = "asking", ![j].previous = s]
  BY DEF ReadPrevious
<1>2. s \in Summary /\ s.number <= created
  BY <1>1 DEF CompactionInv, ChatTyped, Summary, NoSummary
<1> DEFINE asking == [job[j] EXCEPT !.pc = "asking", !.previous = s]
<1>3. ChatTyped'
  <2>1. asking \in JobState /\ asking.previous = s
    BY <1>2 DEF CompactionInv, ChatTyped, JobState, Phases
  <2>2. job' = [job EXCEPT ![j] = asking]
    BY <1>1 DEF CompactionInv, ChatTyped
  <2> QED BY <1>2, <2>1, <2>2 DEF CompactionInv, ChatTyped, ReadPrevious
<1>4. Replaced'
  <2>1. job'[j].pc = "asking" /\ \A k \in Jobs \ {j} : job'[k] = job[k]
    BY <1>1 DEF CompactionInv, ChatTyped, JobState
  <2> QED BY <2>1 DEF CompactionInv, Replaced, Needs, ReadPrevious
<1> QED
  BY <1>3, <1>4 DEF CompactionInv, CompactedIsCovered, ReadPrevious

\* A new summary covers the messages its job is about to mark.
LEMMA SummaryStep ==
  ASSUME CompactionInv, NEW j \in Jobs, CreateSummary(j)
  PROVE  CompactionInv'
<1> DEFINE new == [number |-> created + 1, covers |-> Needs(j)]
<1>1. /\ summaries' = summaries \union {new}
      /\ created' = created + 1
      /\ job' = [job EXCEPT ![j].pc = "created"]
      /\ compacted' = compacted
  BY DEF CreateSummary, Needs
<1>2. new \in Summary /\ new.number > job[j].previous.number
  BY DEF CompactionInv, ChatTyped, Needs, Summary, JobState
<1>3. ChatTyped'
  <2>1. summaries' \subseteq Summary
    BY <1>1, <1>2 DEF CompactionInv, ChatTyped
  <2>2. \A s \in summaries' : s.number \in 1 .. created'
    BY <1>1 DEF CompactionInv, ChatTyped
  <2>3. /\ created' \in Nat
        /\ job' \in [Jobs -> JobState]
    BY <1>1 DEF CompactionInv, ChatTyped, JobState, Phases
  <2>4. ASSUME NEW k \in Jobs PROVE job'[k].previous.number <= created'
    <3>1. job'[k].previous = job[k].previous /\ job[k].previous.number \in Nat
      BY <1>1 DEF CompactionInv, ChatTyped, Summary, JobState
    <3> QED BY <1>1, <3>1 DEF CompactionInv, ChatTyped
  <2> QED BY <2>1, <2>2, <2>3, <2>4 DEF ChatTyped
<1>4. Replaced'
  <2> SUFFICES ASSUME NEW k \in Jobs, job'[k].pc \in {"created", "marked"}
      PROVE  \E s \in summaries' :
               s.number > job'[k].previous.number /\ Needs(k)' \subseteq s.covers
    BY DEF Replaced
  <2>1. job'[k].previous = job[k].previous /\ Needs(k)' = Needs(k)
    BY <1>1 DEF CompactionInv, ChatTyped, JobState, Needs
  <2>2. CASE k = j
    BY <1>1, <1>2, <2>1, <2>2 DEF CompactionInv, ChatTyped
  <2>3. CASE k # j
    BY <1>1, <2>1, <2>3 DEF CompactionInv, ChatTyped, Replaced
  <2> QED BY <2>2, <2>3
<1> QED
  BY <1>1, <1>3, <1>4 DEF CompactionInv, CompactedIsCovered

\* Marking messages is covered by the summary the job has made.
LEMMA MarkStep ==
  ASSUME CompactionInv, NEW j \in Jobs, MarkCompacted(j)
  PROVE  CompactionInv'
<1>1. /\ job' = [job EXCEPT ![j].pc = "marked"]
      /\ compacted' = compacted \union job[j].messages
      /\ UNCHANGED <<summaries, created>>
  BY DEF MarkCompacted
<1>2. ChatTyped'
  BY <1>1 DEF CompactionInv, ChatTyped, Summary, JobState, Phases
<1>3. Replaced'
  BY <1>1 DEF CompactionInv, ChatTyped, JobState, Replaced, Needs, MarkCompacted
<1>4. \A m \in job[j].messages : \E s \in summaries : m \in s.covers
  BY DEF CompactionInv, Replaced, Needs, MarkCompacted
<1> QED
  BY <1>1, <1>2, <1>3, <1>4 DEF CompactionInv, CompactedIsCovered

\* The summary that is deleted is covered by its successor.
LEMMA DropPreviousStep ==
  ASSUME CompactionInv, NEW j \in Jobs, DeletePrevious(j)
  PROVE  CompactionInv'
<1> DEFINE gone == job[j].previous
<1>1. /\ job' = [job EXCEPT ![j] = Waiting]
      /\ summaries' = summaries \ {gone}
      /\ UNCHANGED <<compacted, created>>
  BY DEF DeletePrevious
<1>2. PICK t \in summaries : t.number > gone.number /\ gone.covers \subseteq t.covers
  BY DEF CompactionInv, Replaced, Needs, DeletePrevious
<1>3. t \in summaries'
  BY <1>1, <1>2 DEF CompactionInv, ChatTyped
<1>4. ChatTyped'
  BY <1>1 DEF CompactionInv, ChatTyped, Summary, JobState, Phases, Waiting, NoSummary
<1>5. Replaced'
  <2> SUFFICES ASSUME NEW k \in Jobs, job'[k].pc \in {"created", "marked"}
      PROVE  \E s \in summaries' :
               s.number > job'[k].previous.number /\ Needs(k)' \subseteq s.covers
    BY DEF Replaced
  <2>1. k # j /\ job'[k] = job[k] /\ Needs(k)' = Needs(k)
    BY <1>1 DEF CompactionInv, ChatTyped, JobState, Waiting, NoSummary, Needs
  <2>2. PICK s \in summaries : s.number > job[k].previous.number /\ Needs(k) \subseteq s.covers
    BY <2>1 DEF CompactionInv, Replaced
  <2>3. CASE s = gone
    <3>1. {s.number, t.number, job[k].previous.number} \subseteq Nat
      BY <1>2, <2>2 DEF CompactionInv, ChatTyped, Summary, JobState
    <3>2. t.number > job[k].previous.number
      BY <1>2, <2>2, <2>3, <3>1
    <3> QED BY <1>2, <1>3, <2>1, <2>2, <2>3, <3>2
  <2>4. CASE s # gone
    BY <1>1, <2>1, <2>2, <2>4
  <2> QED BY <2>3, <2>4
<1>6. CompactedIsCovered'
  BY <1>1, <1>2, <1>3 DEF CompactionInv, CompactedIsCovered
<1> QED
  BY <1>4, <1>5, <1>6 DEF CompactionInv

\* New messages and abandoned jobs keep the invariant.
LEMMA OtherStep ==
  ASSUME CompactionInv, SendMessage \/ (\E j \in Jobs : Abandon(j)) \/ UNCHANGED chat
  PROVE  CompactionInv'
<1>1. CASE SendMessage
  BY <1>1 DEF SendMessage, CompactionInv, ChatTyped, JobState, Replaced, Needs, CompactedIsCovered
<1>2. ASSUME NEW j \in Jobs, Abandon(j) PROVE CompactionInv'
  <2>1. ChatTyped'
    BY <1>2 DEF Abandon, CompactionInv, ChatTyped, Summary, JobState, Phases, Waiting, NoSummary
  <2>2. Replaced'
    BY <1>2 DEF Abandon, CompactionInv, ChatTyped, JobState, Replaced, Needs, Waiting
  <2> QED BY <1>2, <2>1, <2>2 DEF Abandon, CompactionInv, CompactedIsCovered
<1>3. CASE UNCHANGED chat
  BY <1>3 DEF chat, CompactionInv, ChatTyped, JobState, Replaced, Needs, CompactedIsCovered
<1> QED BY <1>1, <1>2, <1>3

\* The inductive invariant holds however the jobs overlap and wherever they stop.
THEOREM CompactionInvariant == CompactionSpec => []CompactionInv
<1>1. CompactionInit => CompactionInv
  BY DEF CompactionInit, CompactionInv, ChatTyped, Summary, JobState, Phases, Waiting, NoSummary,
     Replaced, CompactedIsCovered
<1>2. CompactionInv /\ [CompactionNext]_chat => CompactionInv'
  BY ListStep, ReadStep, SummaryStep, MarkStep, DropPreviousStep, OtherStep DEF CompactionNext
<1> QED
  BY <1>1, <1>2, PTL DEF CompactionSpec

\* However compactions overlap, stop half way and delete each other's
\* summaries, every compacted message is covered by a summary that exists.
THEOREM NoMessageLost == CompactionSpec => []CompactedIsCovered
BY CompactionInvariant, PTL DEF CompactionInv

\* What is summarised or compacted are messages that were sent.
Sent == 1 .. sent
OfMessagesSent ==
  /\ sent \in 0 .. MaxMessages /\ created \in 0 .. MaxSummaries
  /\ compacted \subseteq Sent
  /\ \A s \in summaries : s.covers \subseteq Sent
  /\ \A j \in Jobs : Needs(j) \subseteq Sent

\* Summaries and jobs are about messages that were sent.
LEMMA OfMessagesSentStep ==
  ASSUME CompactionInv, OfMessagesSent, [CompactionNext]_chat
  PROVE  OfMessagesSent'
<1>1. CASE SendMessage
  <2>1. Sent \subseteq Sent' /\ sent' \in 0 .. MaxMessages
    BY <1>1, CompactionAssumption DEF SendMessage, Sent, OfMessagesSent
  <2>2. UNCHANGED <<compacted, summaries, created, job>>
    BY <1>1 DEF SendMessage
  <2> QED BY <2>1, <2>2 DEF OfMessagesSent, Needs
<1>2. ASSUME NEW j \in Jobs, ListMessages(j)
      PROVE  OfMessagesSent'
  <2>1. PICK M \in SUBSET Sent : job' = [job EXCEPT ![j].pc = "listed", ![j].messages = M]
    BY <1>2 DEF ListMessages, Sent
  <2>2. \A k \in Jobs : Needs(k)' \subseteq Sent
    BY <2>1 DEF CompactionInv, ChatTyped, JobState, OfMessagesSent, Needs
  <2> QED BY <1>2, <2>2 DEF ListMessages, OfMessagesSent, Sent
<1>3. ASSUME NEW j \in Jobs, ReadPrevious(j)
      PROVE  OfMessagesSent'
  <2>1. PICK s \in summaries \union {NoSummary} :
          job' = [job EXCEPT ![j].pc = "asking", ![j].previous = s]
    BY <1>3 DEF ReadPrevious
  <2>2. s.covers \subseteq Sent
    BY <2>1 DEF OfMessagesSent, NoSummary
  <2>3. \A k \in Jobs : Needs(k)' \subseteq Sent
    BY <2>1, <2>2 DEF CompactionInv, ChatTyped, JobState, OfMessagesSent, Needs
  <2> QED BY <1>3, <2>3 DEF ReadPrevious, OfMessagesSent, Sent
<1>4. ASSUME NEW j \in Jobs, CreateSummary(j)
      PROVE  OfMessagesSent'
  <2>1. \A k \in Jobs : Needs(k)' = Needs(k)
    BY <1>4 DEF CreateSummary, CompactionInv, ChatTyped, JobState, Needs
  <2>2. summaries' = summaries \union {[number |-> created', covers |-> Needs(j)]}
    BY <1>4 DEF CreateSummary, Needs
  <2>3. created' \in 0 .. MaxSummaries /\ UNCHANGED <<sent, compacted>>
    BY <1>4, CompactionAssumption DEF CreateSummary, OfMessagesSent
  <2> QED BY <2>1, <2>2, <2>3 DEF OfMessagesSent, Sent
<1>5. ASSUME NEW j \in Jobs, MarkCompacted(j)
      PROVE  OfMessagesSent'
  <2>1. \A k \in Jobs : Needs(k)' = Needs(k)
    BY <1>5 DEF MarkCompacted, CompactionInv, ChatTyped, JobState, Needs
  <2>2. compacted' \subseteq Sent
    BY <1>5 DEF MarkCompacted, OfMessagesSent, Needs
  <2> QED BY <1>5, <2>1, <2>2 DEF MarkCompacted, OfMessagesSent, Sent
<1>6. ASSUME NEW j \in Jobs, DeletePrevious(j) \/ Abandon(j)
      PROVE  OfMessagesSent'
  <2>1. \A k \in Jobs : Needs(k)' \subseteq Needs(k)
    BY <1>6 DEF DeletePrevious, Abandon, CompactionInv, ChatTyped, JobState, Needs, Waiting, NoSummary
  <2>2. summaries' \subseteq summaries /\ UNCHANGED <<sent, compacted, created>>
    BY <1>6 DEF DeletePrevious, Abandon
  <2> QED BY <2>1, <2>2 DEF OfMessagesSent, Sent
<1>7. CASE UNCHANGED chat
  BY <1>7 DEF chat, OfMessagesSent, Sent, Needs
<1> QED
  BY <1>1, <1>2, <1>3, <1>4, <1>5, <1>6, <1>7 DEF CompactionNext

\* Only messages that were sent are listed, compacted or summarised, and every
\* summary has the number it was made with.
THEOREM CompactionTypeCorrect == CompactionSpec => []CompactionTypeOK
<1>1. CompactionInit => OfMessagesSent
  BY CompactionAssumption DEF CompactionInit, OfMessagesSent, Needs, Sent, Waiting, NoSummary
<1>2. CompactionInv /\ OfMessagesSent /\ [CompactionNext]_chat => OfMessagesSent'
  BY OfMessagesSentStep
<1>3. CompactionInv /\ OfMessagesSent => CompactionTypeOK
  <2> SUFFICES ASSUME CompactionInv, OfMessagesSent PROVE CompactionTypeOK
    OBVIOUS
  <2>1. summaries \subseteq [number : 1 .. created, covers : SUBSET Sent]
    BY DEF CompactionInv, ChatTyped, OfMessagesSent, Summary
  <2>2. \A j \in Jobs : job[j].pc \in Phases /\ job[j].messages \subseteq Sent
    BY DEF CompactionInv, ChatTyped, JobState, OfMessagesSent, Needs
  <2> QED BY <2>1, <2>2 DEF CompactionTypeOK, OfMessagesSent, Sent, Phases
<1> QED
  BY <1>1, <1>2, <1>3, CompactionInvariant, PTL DEF CompactionSpec
==============================================================================
