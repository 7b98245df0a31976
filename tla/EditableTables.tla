--------------------------- MODULE EditableTables ---------------------------
(***************************************************************************)
(* Saving and reopening an editable quantity table.  The working table of a *)
(* browser session (its overlays, which table is open at which revision and *)
(* whether it has unsaved changes) is in the Django session, which every    *)
(* request loads as it begins and stores, whole, as it ends; the last one   *)
(* wins.  The saved table has a revision that save_update compares with the *)
(* one the form posts.                                                      *)
(*                                                                         *)
(* The overlays are a set of edits: rows that are mapped or reviewed, and   *)
(* choices of a measurement.  A row is one of the rows that a query shows;  *)
(* what is saved of it goes by its measurement target, which other rows may *)
(* share (a class and its only type, an aggregate and the row it expands    *)
(* to).  "pending" are the targets a reopened table still has to match with *)
(* the rows of the next rebuild.                                            *)
(***************************************************************************)
EXTENDS Common, Naturals, Sequences

CONSTANTS
  Browsers,      \* browser sessions
  TableRequests, \* concurrent requests
  TableRows,     \* rows of the table
  Targets,
  Target,        \* the target of a row
  Measures,      \* choices of a measurement, each kept by its own target
  Queries,       \* the rows that the filters and the grain of a page show
  MaxRevision    \* bound on the saves

Edits == TableRows \union Measures
Saves == SUBSET (Targets \union Measures)

ASSUME TableAssumption ==
  /\ Target \in [TableRows -> Targets]
  /\ Queries \subseteq SUBSET TableRows
  /\ Measures \cap (TableRows \union Targets) = {}
  /\ None \notin Browsers \union Edits \union Targets
  /\ MaxRevision \in Nat \ {0}

VARIABLES
  table,     \* revision (0: no row) and state
  pinned,    \* the IFC the table is pinned to has the content it had
  saved,     \* what each revision held, for the properties
  session,   \* what the session store has
  form,      \* the revision in the save form of the last page rendered
  request
tables == <<table, pinned, saved, session, form, request>>

Nothing == {None}   \* no pending restore
\* "shown", for the properties: the rows a clean session was saved or matched by.
NewSession == [edits |-> {}, pending |-> Nothing, shown |-> {},
               revision |-> 0, dirty |-> FALSE]
NotRunning == [pc |-> "idle", browser |-> None, op |-> "page", posted |-> 0,
               copy |-> NewSession]

TablesInit ==
  /\ table = [revision |-> 0, state |-> {}]
  /\ pinned = TRUE
  /\ saved = <<>>
  /\ session = [b \in Browsers |-> NewSession]
  /\ form = [b \in Browsers |-> 0]
  /\ request = [r \in TableRequests |-> NotRunning]

(* A request begins: it loads the session and has what the browser posts.   *)
(* The query and the edit it comes with are chosen where they are used.     *)
Begin(r, b, op) ==
  /\ request[r].pc = "idle"
  /\ op = "save" => form[b] > 0
  /\ op = "save_new" => table.revision = 0   \* bound: one table
  /\ request' = [request EXCEPT
       ![r] = [pc |-> "loaded", browser |-> b, op |-> op,
               posted |-> IF op = "save" THEN form[b] ELSE 0, copy |-> session[b]]]
  /\ UNCHANGED <<table, pinned, saved, session, form>>

Serves(r, op) == request[r].pc = "loaded" /\ request[r].op = op
Responds(r, copy) ==
  request' = [request EXCEPT
    ![r] = [NotRunning EXCEPT !.pc = "served", !.browser = request[r].browser, !.copy = copy]]
Refuses(r) == request' = [request EXCEPT ![r] = NotRunning]

\* The rows of a query that share their target with no other one of it.
Alone(q) == {e \in q : \A d \in q : Target[d] = Target[e] => d = e}

(* The rebuild of the rows puts what is pending in the place of the mapped  *)
(* and reviewed rows.  A target that matches no row of the query, or        *)
(* several, is dropped, and that is no change to save.                      *)
Rebuilt(c, q) ==
  IF c.pending = Nothing THEN c
  ELSE [c EXCEPT !.edits = (@ \cap Measures)
                             \union {e \in Alone(q) : Target[e] \in c.pending},
                 !.pending = Nothing, !.shown = IF c.dirty THEN {} ELSE q]

(* What a save keeps: every choice, and the edited rows the query shows, by *)
(* their targets.                                                           *)
Capture(c, q) == {Target[e] : e \in c.edits \cap q} \union (c.edits \cap Measures)

Unsaved(c) == [c EXCEPT !.dirty = TRUE, !.shown = {}]

(* A mapping or review of a row the page shows, or a measurement, which     *)
(* rebuilds.                                                                *)
EditRow(r) ==
  /\ Serves(r, "edit")
  /\ \E q \in Queries : \E e \in q \union Measures :
       LET c == IF e \in TableRows THEN request[r].copy ELSE Rebuilt(request[r].copy, q)
       IN  Responds(r, Unsaved([c EXCEPT !.edits = @ \union {e}]))
  /\ UNCHANGED <<table, pinned, saved, session, form>>

(* The page rebuilds, unless the source of the open table has changed, and  *)
(* its save form gets the revision the table has now.  Looking at the table *)
(* in another way than it was saved is an unsaved change.                   *)
RenderPage(r) ==
  LET open == request[r].copy.revision > 0 IN
  /\ Serves(r, "page")
  /\ \E q \in Queries, differs \in {FALSE, open} :
       LET c == IF open /\ ~pinned THEN request[r].copy ELSE Rebuilt(request[r].copy, q)
       IN  Responds(r, IF differs THEN Unsaved(c) ELSE c)
  /\ form' = [form EXCEPT ![request[r].browser] = IF open THEN table.revision ELSE 0]
  /\ UNCHANGED <<table, pinned, saved, session>>

Bound(c, revision) == [c EXCEPT !.revision = revision, !.dirty = FALSE]

\* The copy a save goes by, and what it saves.
SaveCopy(r, q) == [Rebuilt(request[r].copy, q) EXCEPT !.shown = q]
State(r, q) == Capture(SaveCopy(r, q), q)

(* A save makes the session clean, and leaves it the edits of rows that the *)
(* query does not show.                                                     *)
SaveNew(r) ==
  /\ Serves(r, "save_new")
  /\ IF table.revision = 0
     THEN \E q \in Queries :
            /\ table' = [revision |-> 1, state |-> State(r, q)]
            /\ pinned' = TRUE
            /\ saved' = <<State(r, q)>>
            /\ Responds(r, Bound(SaveCopy(r, q), 1))
     ELSE Refuses(r) /\ UNCHANGED <<table, pinned, saved>>
  /\ UNCHANGED <<session, form>>

(* Mutant: the session keeps the revision it had.                           *)
SaveUpdateUnbound(r) ==
  /\ Serves(r, "save")
  /\ table.revision < MaxRevision
  /\ IF request[r].posted = table.revision /\ pinned
     THEN \E q \in Queries :
            /\ table' = [revision |-> table.revision + 1, state |-> State(r, q)]
            /\ saved' = Append(saved, State(r, q))
            /\ Responds(r, [SaveCopy(r, q) EXCEPT !.dirty = FALSE])
     ELSE Refuses(r) /\ UNCHANGED <<table, saved>>
  /\ UNCHANGED <<pinned, session, form>>

(* The row is locked; another revision than the posted one, or another      *)
(* content of the IFC, is refused before anything is rebuilt.               *)
SaveUpdate(r) ==
  /\ Serves(r, "save")
  /\ table.revision < MaxRevision
  /\ IF request[r].posted = table.revision /\ pinned
     THEN \E q \in Queries :
            /\ table' = [revision |-> table.revision + 1, state |-> State(r, q)]
            /\ saved' = Append(saved, State(r, q))
            /\ Responds(r, Bound(SaveCopy(r, q), table.revision + 1))
     ELSE Refuses(r) /\ UNCHANGED <<table, saved>>
  /\ UNCHANGED <<pinned, session, form>>

(* The choices come back at once, the rows with the next rebuild.           *)
OpenTable(r) ==
  /\ Serves(r, "open")
  /\ IF table.revision > 0 /\ pinned
     THEN Responds(r, Bound([request[r].copy EXCEPT
            !.edits = table.state \cap Measures, !.pending = table.state \ Measures,
            !.shown = {}], table.revision))
     ELSE Refuses(r)
  /\ UNCHANGED <<table, pinned, saved, session, form>>

StoreSession(r) ==
  /\ request[r].pc = "served"
  /\ session' = [session EXCEPT ![request[r].browser] = request[r].copy]
  /\ Refuses(r)
  /\ UNCHANGED <<table, pinned, saved, form>>

ChangeFile == pinned' = FALSE /\ UNCHANGED <<table, saved, session, form, request>>

TablesNext ==
  \/ \E r \in TableRequests :
       \/ \E b \in Browsers, op \in {"edit", "page", "save_new", "save", "open"} :
            Begin(r, b, op)
       \/ EditRow(r) \/ RenderPage(r) \/ SaveNew(r) \/ SaveUpdate(r) \/ OpenTable(r)
       \/ StoreSession(r)
  \/ ChangeFile

TablesSpec == TablesInit /\ [][TablesNext]_tables

-----------------------------------------------------------------------------
TablesTypeOK ==
  /\ table.revision = Len(saved) /\ table.state \in Saves
  /\ pinned \in BOOLEAN
  /\ \A b \in Browsers : /\ session[b].edits \subseteq Edits
                         /\ session[b].dirty \in BOOLEAN
  /\ form \in [Browsers -> 0 .. MaxRevision]
  /\ \A r \in TableRequests : request[r].pc \in {"idle", "loaded", "served"}

\* What a session has agrees with a save, among the rows it was saved or
\* matched by that have their target to themselves.
AsSaved(c, save) ==
  /\ c.edits \cap Measures = save \cap Measures
  /\ IF c.pending # Nothing THEN c.pending = save \ Measures
     ELSE \A e \in Alone(c.shown) : e \in c.edits <=> Target[e] \in save

(* A session that says it has no unsaved changes agrees with the revision   *)
(* it has open, although its requests overwrite one another's session and a *)
(* reopened table is matched only by a later one.  (It may hold more: edits *)
(* of rows that the query of the save did not show are in no revision.)     *)
CleanIsSaved ==
  \A b \in Browsers : LET c == session[b] IN
    c.revision > 0 /\ ~c.dirty => AsSaved(c, saved[c.revision])

(* "Reject stale revisions": what one save put into the table is in it      *)
(* after the next (no edit is ever taken back here), so no session          *)
(* overwrites another's save without having seen it.                        *)
SavesKeepEarlierSaves == \A n \in 2 .. Len(saved) : saved[n - 1] \subseteq saved[n]
=============================================================================
