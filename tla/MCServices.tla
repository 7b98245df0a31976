----------------------------- MODULE MCServices -----------------------------
(***************************************************************************)
(* Six parts of the program that share no table, one in each behaviour:     *)
(* "part" is chosen at the start and the others stay as they begin.         *)
(***************************************************************************)
EXTENDS BindingGovernance, ScheduleImport, CriticalPath, Membership, EditableTables,
        Compaction, TLC

CONSTANTS b1, b2, d1, d2, i1, i2, i3, a1, u1, u2, u3, m1, m2, s1, s2, r1, r2, e1, e2, t1, k1,
          j1, j2

VARIABLE part

-----------------------------------------------------------------------------
(* The schedules: three tasks, any two of these links.                      *)
FiveDays == 0 .. 4
SevenDays == 0 .. 6
Link(p, s, type, lag) == [pred |-> p, succ |-> s, type |-> type, lag |-> lag]
Links == {Link(1, 2, "FS", 0), Link(1, 2, "SS", 1), Link(1, 3, "FS", 2), Link(1, 3, "FF", 1),
          Link(2, 3, "FS", -1), Link(2, 3, "SF", 0), Link(2, 3, "FF", 0), Link(3, 1, "FS", 0)}
NotBegun == [complete |-> FALSE, start |-> None, end |-> None, remaining |-> 1]
Begun == [NotBegun EXCEPT !.start = 1, !.remaining = 2]
Ended == [NotBegun EXCEPT !.start = 1, !.end = 2, !.complete = TRUE]
Progresses == {<<NotBegun, NotBegun, NotBegun>>, <<NotBegun, Begun, NotBegun>>,
               <<Ended, NotBegun, NotBegun>>,
               <<NotBegun, NotBegun, [NotBegun EXCEPT !.complete = TRUE]>>}
Plans == {[start |-> <<0, 4, 2>>, finish |-> <<3, 8, 2>>],
          [start |-> <<1, 1, 0>>, finish |-> <<1, 5, 2>>]}
NoDates == <<None, None, None>>
Dates == {[not_before |-> NoDates, deadline |-> NoDates],
          [not_before |-> <<None, 5, None>>, deadline |-> NoDates],
          [not_before |-> NoDates, deadline |-> <<None, 4, None>>]}
Calendars == {<<FiveDays, FiveDays, FiveDays>>, <<SevenDays, SevenDays, SevenDays>>,
              <<FiveDays, SevenDays, FiveDays>>}
MCSchedules ==
  {[links |-> ls, progress |-> g, calendar |-> c, data_date |-> d] @@ p @@ x :
     ls \in {L \in SUBSET Links : Cardinality(L) <= 2}, g \in Progresses,
     c \in Calendars, d \in {1, 5}, p \in Plans, x \in Dates}

\* Rows of a quantity table with one measurement target.
SharedTarget == [e \in TableRows |-> t1]

\* No operation tells these apart.
Symmetry == Permutations(Bindings) \union Permutations(Decisions)
            \union Permutations(TableRequests)

-----------------------------------------------------------------------------
Parts == {"governance", "import", "network", "members", "tables", "chat"}

Chosen(p, begins, stays) == IF part = p THEN begins ELSE stays

ServicesInit ==
  /\ part \in Parts
  /\ GovernanceInit /\ Chosen("governance", TRUE, m2m = {})
  /\ ScheduleInit
  /\ Chosen("network", CPMInit, computed = <<>> /\ stored = <<>>)
  /\ MembershipInit /\ Chosen("members", TRUE, owner = u1)
  /\ TablesInit
  /\ CompactionInit

ServicesNext ==
  /\ UNCHANGED part
  /\ \/ /\ part = "governance" /\ GovernanceNext
        /\ UNCHANGED <<imports, network, membership, tables, chat>>
     \/ /\ part = "import" /\ ScheduleNext
        /\ UNCHANGED <<governance, network, membership, tables, chat>>
     \/ /\ part = "network" /\ CPMNext
        /\ UNCHANGED <<governance, imports, membership, tables, chat>>
     \/ /\ part = "members" /\ MembershipNext
        /\ UNCHANGED <<governance, imports, network, tables, chat>>
     \/ /\ part = "tables" /\ TablesNext
        /\ UNCHANGED <<governance, imports, network, membership, chat>>
     \/ /\ part = "chat" /\ CompactionNext
        /\ UNCHANGED <<governance, imports, network, membership, tables>>

ServicesSpec ==
  ServicesInit /\ [][ServicesNext]_<<part, governance, imports, network, membership, tables, chat>>

(* Every variable of the six parts keeps to its type.                       *)
ServicesTypeOK ==
  /\ GovernanceTypeOK /\ ImportTypeOK /\ NetworkTypeOK
  /\ MembershipTypeOK /\ TablesTypeOK /\ CompactionTypeOK
=============================================================================
