------------------------- MODULE CriticalPathProofs -------------------------
(***************************************************************************)
(* The calendar arithmetic and the two passes of CriticalPath, for any      *)
(* tasks, links and calendars.                                              *)
(***************************************************************************)
EXTENDS CriticalPath, FiniteSetTheorems, TLAPS

(***************************************************************************)
(* Largest and smallest elements.                                           *)
(***************************************************************************)

\* A finite set of integers that is not empty has a largest element.
LEMMA MaxExists ==
  ASSUME NEW S \in SUBSET Int, IsFiniteSet(S), S # {}
  PROVE  Max(S) \in S /\ \A y \in S : Max(S) >= y
<1> DEFINE Top(U) == \E x \in U : \A y \in U : x >= y
           Bad == {U \in SUBSET S : U # {} /\ ~Top(U)}
<1>1. SUFFICES Top(S)
  BY DEF Max
<1>2. SUFFICES ASSUME S \in Bad PROVE FALSE
  OBVIOUS
<1>3. Bad \subseteq FiniteSubsetsOf(S)
  BY FS_FiniteSubsetsOfFinite
<1>4. PICK U \in Bad : \A y \in Bad : <<y, U>> \notin StrictSubsetOrdering(S)
  <2> HIDE DEF Bad
  <2> QED
    BY <1>2, <1>3, FS_StrictSubsetOrderingWellFounded, WFMin
<1>5. PICK x \in U : TRUE
  OBVIOUS
<1>6. U \ {x} \notin Bad
  BY <1>4, <1>5 DEF StrictSubsetOrdering
<1>7. U \ {x} # {}
  BY <1>5
<1>8. PICK m \in U \ {x} : \A y \in U \ {x} : m >= y
  BY <1>6, <1>7
<1>9. m \in Int /\ x \in Int
  BY <1>8
<1> QED
  BY <1>5, <1>8, <1>9

\* And a smallest one.
LEMMA MinExists ==
  ASSUME NEW S \in SUBSET Int, IsFiniteSet(S), S # {}
  PROVE  Min(S) \in S /\ \A y \in S : Min(S) <= y
<1> DEFINE Bottom(U) == \E x \in U : \A y \in U : x <= y
           Bad == {U \in SUBSET S : U # {} /\ ~Bottom(U)}
<1>1. SUFFICES Bottom(S)
  BY DEF Min
<1>2. SUFFICES ASSUME S \in Bad PROVE FALSE
  OBVIOUS
<1>3. Bad \subseteq FiniteSubsetsOf(S)
  BY FS_FiniteSubsetsOfFinite
<1>4. PICK U \in Bad : \A y \in Bad : <<y, U>> \notin StrictSubsetOrdering(S)
  <2> HIDE DEF Bad
  <2> QED
    BY <1>2, <1>3, FS_StrictSubsetOrderingWellFounded, WFMin
<1>5. PICK x \in U : TRUE
  OBVIOUS
<1>6. U \ {x} \notin Bad
  BY <1>4, <1>5 DEF StrictSubsetOrdering
<1>7. U \ {x} # {}
  BY <1>5
<1>8. PICK m \in U \ {x} : \A y \in U \ {x} : m <= y
  BY <1>6, <1>7
<1>9. m \in Int /\ x \in Int
  BY <1>8
<1> QED
  BY <1>5, <1>8, <1>9

(***************************************************************************)
(* Working days.                                                            *)
(***************************************************************************)

\* Every seven days in a row contain a working one.
LEMMA WeekHasWork ==
  ASSUME NEW c \in Weeks, NEW d \in Int
  PROVE  \E e \in d .. d + 6 : Weekday(e) \in c
<1>1. PICK w \in 0 .. 6 : w \in c
  <2>1. c \subseteq 0 .. 6 /\ c # {}
    BY DEF Weeks
  <2> QED
    BY <2>1
<1>2. PICK k \in 0 .. 6 : (d + k) % 7 = w
  <2>1. /\ (w - d) % 7 \in 0 .. 6
        /\ (d + ((w - d) % 7)) % 7 = w
    OBVIOUS
  <2> QED
    BY <2>1
<1> QED
  BY <1>1, <1>2 DEF Weekday

\* The working days of a stretch are counted one by one, from either end.
LEMMA CountWorkingDays ==
  ASSUME NEW c, NEW a \in Int, NEW b \in Int
  PROVE  /\ WorkingDays(a, b, c) \in Nat
         /\ a > b => WorkingDays(a, b, c) = 0
         /\ a <= b => WorkingDays(a, b, c) =
              WorkingDays(a, b - 1, c) + (IF Weekday(b) \in c THEN 1 ELSE 0)
         /\ a <= b => WorkingDays(a, b, c) =
              WorkingDays(a + 1, b, c) + (IF Weekday(a) \in c THEN 1 ELSE 0)
<1> DEFINE W(x, y) == {d \in x .. y : Weekday(d) \in c}
<1>1. ASSUME NEW x \in Int, NEW y \in Int
      PROVE  IsFiniteSet(W(x, y)) /\ Cardinality(W(x, y)) \in Nat
  <2>1. IsFiniteSet(x .. y) /\ W(x, y) \in SUBSET (x .. y)
    BY FS_Interval
  <2>2. IsFiniteSet(W(x, y))
    <3> HIDE DEF W
    <3> QED
      BY <2>1, FS_Subset
  <2> HIDE DEF W
  <2> QED
    BY <2>2, FS_CardinalityType
<1>2. a > b => W(a, b) = {}
  OBVIOUS
<1>3. ASSUME a <= b
      PROVE  /\ W(a, b) = IF Weekday(b) \in c THEN W(a, b - 1) \union {b} ELSE W(a, b - 1)
             /\ b \notin W(a, b - 1)
  BY <1>3
<1>4. ASSUME a <= b
      PROVE  /\ W(a, b) = IF Weekday(a) \in c THEN W(a + 1, b) \union {a} ELSE W(a + 1, b)
             /\ a \notin W(a + 1, b)
  BY <1>4
<1>6. \A x, y : WorkingDays(x, y, c) = Cardinality(W(x, y))
  BY DEF WorkingDays
<1> HIDE DEF W
<1>5. /\ IsFiniteSet(W(a, b)) /\ IsFiniteSet(W(a, b - 1)) /\ IsFiniteSet(W(a + 1, b))
      /\ Cardinality(W(a, b)) \in Nat
      /\ Cardinality(W(a, b - 1)) \in Nat
      /\ Cardinality(W(a + 1, b)) \in Nat
  BY <1>1
<1>7. a > b => WorkingDays(a, b, c) = 0
  BY <1>2, <1>6, FS_EmptySet
<1>8. a <= b => WorkingDays(a, b, c) =
        WorkingDays(a, b - 1, c) + (IF Weekday(b) \in c THEN 1 ELSE 0)
  BY <1>3, <1>5, <1>6, FS_AddElement
<1>9. a <= b => WorkingDays(a, b, c) =
        WorkingDays(a + 1, b, c) + (IF Weekday(a) \in c THEN 1 ELSE 0)
  BY <1>4, <1>5, <1>6, FS_AddElement
<1> QED
  BY <1>5, <1>6, <1>7, <1>8, <1>9

\* A longer stretch has no fewer.
LEMMA WorkingDaysGrow ==
  ASSUME NEW c, NEW a \in Int, NEW b \in Int, NEW x \in Int, NEW y \in Int,
         a <= x, y <= b
  PROVE  WorkingDays(x, y, c) <= WorkingDays(a, b, c)
<1>1. IsFiniteSet({d \in a .. b : Weekday(d) \in c})
  <2>1. IsFiniteSet(a .. b) /\ {d \in a .. b : Weekday(d) \in c} \in SUBSET (a .. b)
    BY FS_Interval
  <2> QED
    BY <2>1, FS_Subset
<1>2. {d \in x .. y : Weekday(d) \in c} \in SUBSET {d \in a .. b : Weekday(d) \in c}
  OBVIOUS
<1> QED
  BY <1>1, <1>2, FS_Subset DEF WorkingDays

\* The next working day is the first from the given day on.
LEMMA NextWorkingDayIs ==
  ASSUME NEW c \in Weeks, NEW d \in Int
  PROVE  /\ NextWorkingDay(d, c) \in d .. d + 6
         /\ Weekday(NextWorkingDay(d, c)) \in c
         /\ \A x \in d .. NextWorkingDay(d, c) - 1 : Weekday(x) \notin c
<1> DEFINE S == {e \in d .. d + 6 : Weekday(e) \in c}
<1>1. S # {} /\ S \in SUBSET Int
  <2>1. PICK e \in d .. d + 6 : Weekday(e) \in c
    BY WeekHasWork
  <2> QED
    BY <2>1
<1>2. IsFiniteSet(S)
  <2>1. IsFiniteSet(d .. d + 6) /\ S \in SUBSET (d .. d + 6)
    BY FS_Interval
  <2> HIDE DEF S
  <2> QED
    BY <2>1, FS_Subset
<1>3. Min(S) \in S /\ \A y \in S : Min(S) <= y
  <2> HIDE DEF S
  <2> QED
    BY <1>1, <1>2, MinExists
<1> DEFINE m == Min(S)
<1>4. m \in d .. d + 6 /\ Weekday(m) \in c /\ \A y \in S : m <= y
  BY <1>3
<1> HIDE DEF m
<1>5. ASSUME NEW x \in d .. m - 1 PROVE Weekday(x) \notin c
  BY <1>4
<1> QED
  BY <1>4, <1>5 DEF NextWorkingDay

\* The previous one is the last up to it.
LEMMA PrevWorkingDayIs ==
  ASSUME NEW c \in Weeks, NEW d \in Int
  PROVE  /\ PrevWorkingDay(d, c) \in d - 6 .. d
         /\ Weekday(PrevWorkingDay(d, c)) \in c
         /\ \A x \in PrevWorkingDay(d, c) + 1 .. d : Weekday(x) \notin c
<1> DEFINE S == {e \in d - 6 .. d : Weekday(e) \in c}
<1>1. S # {} /\ S \in SUBSET Int
  <2> DEFINE b == d - 6
  <2>1. b \in Int /\ b + 6 = d
    OBVIOUS
  <2>2. PICK e \in b .. b + 6 : Weekday(e) \in c
    <3> HIDE DEF b
    <3> QED
      BY <2>1, WeekHasWork
  <2> QED
    BY <2>1, <2>2
<1>2. IsFiniteSet(S)
  <2>1. IsFiniteSet(d - 6 .. d) /\ S \in SUBSET (d - 6 .. d)
    BY FS_Interval
  <2> HIDE DEF S
  <2> QED
    BY <2>1, FS_Subset
<1>3. Max(S) \in S /\ \A y \in S : Max(S) >= y
  <2> HIDE DEF S
  <2> QED
    BY <1>1, <1>2, MaxExists
<1> DEFINE m == Max(S)
<1>4. m \in d - 6 .. d /\ Weekday(m) \in c /\ \A y \in S : m >= y
  BY <1>3
<1> HIDE DEF m
<1>5. ASSUME NEW x \in m + 1 .. d PROVE Weekday(x) \notin c
  BY <1>4
<1> QED
  BY <1>4, <1>5 DEF PrevWorkingDay

\* n weeks contain n working days.
LEMMA WeeksHaveWork ==
  ASSUME NEW c \in Weeks, NEW d \in Int, NEW n \in Nat
  PROVE  /\ WorkingDays(d + 1, d + 7 * n, c) >= n
         /\ WorkingDays(d - 7 * n, d - 1, c) >= n
<1> DEFINE Short == {m \in 0 .. n : \/ WorkingDays(d + 1, d + 7 * m, c) < m
                                    \/ WorkingDays(d - 7 * m, d - 1, c) < m}
<1>1. ASSUME NEW m \in Nat
      PROVE  /\ WorkingDays(d + 1, d + 7 * m, c) \in Nat
             /\ WorkingDays(d - 7 * m, d - 1, c) \in Nat
  BY CountWorkingDays
<1>2. SUFFICES ASSUME Short # {} PROVE FALSE
  <2>1. n \in 0 .. n
    OBVIOUS
  <2>2. /\ WorkingDays(d + 1, d + 7 * n, c) \in Nat
        /\ WorkingDays(d - 7 * n, d - 1, c) \in Nat
    BY <1>1
  <2>3. n \notin Short => /\ WorkingDays(d + 1, d + 7 * n, c) >= n
                          /\ WorkingDays(d - 7 * n, d - 1, c) >= n
    BY <2>1, <2>2
  <2> HIDE DEF Short
  <2> QED
    BY <2>3
<1>3. PICK m \in Short : \A k \in Short : m <= k
  <2>1. IsFiniteSet(0 .. n) /\ Short \in SUBSET (0 .. n) /\ Short \in SUBSET Int
    BY FS_Interval
  <2> HIDE DEF Short
  <2>2. IsFiniteSet(Short)
    BY <2>1, FS_Subset
  <2> QED
    BY <1>2, <2>1, <2>2, MinExists
<1>4. m \in 1 .. n /\ m - 1 \in Nat
  BY <1>1, <1>3
<1>5. m - 1 \notin Short
  BY <1>3, <1>4
<1>6. /\ WorkingDays(d + 1, d + 7 * (m - 1), c) >= m - 1
      /\ WorkingDays(d - 7 * (m - 1), d - 1, c) >= m - 1
  <2> DEFINE k == m - 1
  <2>1. k \in 0 .. n
    BY <1>4
  <2>2. /\ WorkingDays(d + 1, d + 7 * k, c) \in Nat
        /\ WorkingDays(d - 7 * k, d - 1, c) \in Nat
    BY <1>1, <1>4
  <2>3. k \notin Short
    BY <1>5
  <2> HIDE DEF k
  <2>4. /\ WorkingDays(d + 1, d + 7 * k, c) >= k
        /\ WorkingDays(d - 7 * k, d - 1, c) >= k
    BY <2>1, <2>2, <2>3
  <2> QED
    BY <2>4 DEF k
<1>7. WorkingDays(d + 1, d + 7 * m, c) >= m
  <2> DEFINE a == d + 7 * (m - 1)
  <2>1. a \in Int /\ a + 7 = d + 7 * m /\ a >= d
    BY <1>4
  <2>7. a + 1 \in Int
    BY <2>1
  <2>2. PICK e \in a + 1 .. (a + 1) + 6 : Weekday(e) \in c
    <3> HIDE DEF a
    <3> QED
      BY <2>7, WeekHasWork
  <2>3. WorkingDays(d + 1, e, c) = WorkingDays(d + 1, e - 1, c) + 1
    BY <2>1, <2>2, CountWorkingDays
  <2>4. WorkingDays(d + 1, a, c) <= WorkingDays(d + 1, e - 1, c)
    BY <2>1, <2>2, WorkingDaysGrow
  <2>5. WorkingDays(d + 1, e, c) <= WorkingDays(d + 1, d + 7 * m, c)
    BY <2>1, <2>2, WorkingDaysGrow
  <2>6. /\ WorkingDays(d + 1, e, c) \in Nat
        /\ WorkingDays(d + 1, e - 1, c) \in Nat
        /\ WorkingDays(d + 1, a, c) \in Nat
    BY <2>1, <2>2, CountWorkingDays
  <2> QED
    BY <1>1, <1>4, <1>6, <2>3, <2>4, <2>5, <2>6
<1>8. WorkingDays(d - 7 * m, d - 1, c) >= m
  <2> DEFINE a == d - 7 * (m - 1)
  <2>1. a \in Int /\ a - 7 = d - 7 * m /\ a <= d
    BY <1>4
  <2>7. a - 7 \in Int
    BY <2>1
  <2>2. PICK e \in a - 7 .. (a - 7) + 6 : Weekday(e) \in c
    <3> HIDE DEF a
    <3> QED
      BY <2>7, WeekHasWork
  <2>3. WorkingDays(e, d - 1, c) = WorkingDays(e + 1, d - 1, c) + 1
    BY <2>1, <2>2, CountWorkingDays
  <2>4. WorkingDays(a, d - 1, c) <= WorkingDays(e + 1, d - 1, c)
    BY <2>1, <2>2, WorkingDaysGrow
  <2>5. WorkingDays(e, d - 1, c) <= WorkingDays(d - 7 * m, d - 1, c)
    BY <2>1, <2>2, WorkingDaysGrow
  <2>6. /\ WorkingDays(e, d - 1, c) \in Nat
        /\ WorkingDays(e + 1, d - 1, c) \in Nat
        /\ WorkingDays(a, d - 1, c) \in Nat
    BY <2>1, <2>2, CountWorkingDays
  <2> QED
    BY <1>1, <1>4, <1>6, <2>3, <2>4, <2>5, <2>6
<1> QED
  BY <1>1, <1>3, <1>4, <1>7, <1>8

\* Adding n working days ends on the n-th of them.
LEMMA AddWorkingDaysIs ==
  ASSUME NEW c \in Weeks, NEW d \in Int, NEW n \in Nat \ {0}
  PROVE  /\ AddWorkingDays(d, n, c) \in d + 1 .. d + 7 * n
         /\ Weekday(AddWorkingDays(d, n, c)) \in c
         /\ WorkingDays(d + 1, AddWorkingDays(d, n, c), c) = n
<1> DEFINE S == {e \in d + 1 .. d + 7 * n : WorkingDays(d + 1, e, c) >= n}
<1>1. S # {} /\ S \in SUBSET Int
  <2>1. d + 7 * n \in d + 1 .. d + 7 * n
    OBVIOUS
  <2>2. WorkingDays(d + 1, d + 7 * n, c) >= n
    BY WeeksHaveWork
  <2> QED
    BY <2>1, <2>2
<1>2. IsFiniteSet(S)
  <2>1. IsFiniteSet(d + 1 .. d + 7 * n) /\ S \in SUBSET (d + 1 .. d + 7 * n)
    BY FS_Interval
  <2> HIDE DEF S
  <2> QED
    BY <2>1, FS_Subset
<1>3. PICK m \in S : \A y \in S : m <= y
  <2> HIDE DEF S
  <2> QED
    BY <1>1, <1>2, MinExists
<1>4. m \in d + 1 .. d + 7 * n /\ WorkingDays(d + 1, m, c) >= n
  BY <1>3
<1>5. WorkingDays(d + 1, m - 1, c) < n
  <2>1. CASE m = d + 1
    BY <2>1, CountWorkingDays
  <2>2. CASE m # d + 1
    <3>1. m - 1 \in d + 1 .. d + 7 * n /\ m - 1 \notin S
      BY <1>3, <1>4, <2>2
    <3>2. WorkingDays(d + 1, m - 1, c) \in Nat
      BY <1>4, CountWorkingDays
    <3> QED
      BY <3>1, <3>2
  <2> QED
    BY <2>1, <2>2
<1>6. /\ WorkingDays(d + 1, m - 1, c) \in Nat
      /\ WorkingDays(d + 1, m, c) \in Nat
      /\ WorkingDays(d + 1, m, c) =
           WorkingDays(d + 1, m - 1, c) + (IF Weekday(m) \in c THEN 1 ELSE 0)
  BY <1>4, CountWorkingDays
<1>7. Weekday(m) \in c /\ WorkingDays(d + 1, m, c) = n
  BY <1>4, <1>5, <1>6
<1> QED
  BY <1>4, <1>7 DEF AddWorkingDays

\* Subtracting n working days ends on the n-th of them, counted backwards.
LEMMA SubtractWorkingDaysIs ==
  ASSUME NEW c \in Weeks, NEW d \in Int, NEW n \in Nat \ {0}
  PROVE  /\ SubtractWorkingDays(d, n, c) \in d - 7 * n .. d - 1
         /\ Weekday(SubtractWorkingDays(d, n, c)) \in c
         /\ WorkingDays(SubtractWorkingDays(d, n, c), d - 1, c) = n
<1> DEFINE S == {e \in d - 7 * n .. d - 1 : WorkingDays(e, d - 1, c) >= n}
<1>1. S # {} /\ S \in SUBSET Int
  <2>1. d - 7 * n \in d - 7 * n .. d - 1
    OBVIOUS
  <2>2. WorkingDays(d - 7 * n, d - 1, c) >= n
    BY WeeksHaveWork
  <2> QED
    BY <2>1, <2>2
<1>2. IsFiniteSet(S)
  <2>1. IsFiniteSet(d - 7 * n .. d - 1) /\ S \in SUBSET (d - 7 * n .. d - 1)
    BY FS_Interval
  <2> HIDE DEF S
  <2> QED
    BY <2>1, FS_Subset
<1>3. PICK m \in S : \A y \in S : m >= y
  <2> HIDE DEF S
  <2> QED
    BY <1>1, <1>2, MaxExists
<1>4. m \in d - 7 * n .. d - 1 /\ WorkingDays(m, d - 1, c) >= n
  BY <1>3
<1>5. WorkingDays(m + 1, d - 1, c) < n
  <2>1. CASE m = d - 1
    BY <2>1, CountWorkingDays
  <2>2. CASE m # d - 1
    <3>1. m + 1 \in d - 7 * n .. d - 1 /\ m + 1 \notin S
      BY <1>3, <1>4, <2>2
    <3>2. WorkingDays(m + 1, d - 1, c) \in Nat
      BY <1>4, CountWorkingDays
    <3> QED
      BY <3>1, <3>2
  <2> QED
    BY <2>1, <2>2
<1>6. /\ WorkingDays(m + 1, d - 1, c) \in Nat
      /\ WorkingDays(m, d - 1, c) \in Nat
      /\ WorkingDays(m, d - 1, c) =
           WorkingDays(m + 1, d - 1, c) + (IF Weekday(m) \in c THEN 1 ELSE 0)
  BY <1>4, CountWorkingDays
<1>7. Weekday(m) \in c /\ WorkingDays(m, d - 1, c) = n
  BY <1>4, <1>5, <1>6
<1> QED
  BY <1>4, <1>7 DEF SubtractWorkingDays

(***************************************************************************)
(* Recursion over a finite relation.                                        *)
(***************************************************************************)

\* Every set of elements has one that no other of the set comes before.
Grounded(R, T) ==
  \A S \in SUBSET T : S # {} => \E m \in S : \A u \in S : <<u, m>> \notin R

\* A finite set of sets that is not empty has one that contains no other.
LEMMA SmallestSet ==
  ASSUME NEW T, IsFiniteSet(T), NEW B \in SUBSET (SUBSET T), B # {}
  PROVE  \E U \in B : \A V \in B : V \subseteq U => V = U
<1>1. B \subseteq FiniteSubsetsOf(T)
  BY FS_FiniteSubsetsOfFinite
<1>2. PICK U \in B : \A V \in B : <<V, U>> \notin StrictSubsetOrdering(T)
  BY <1>1, FS_StrictSubsetOrderingWellFounded, WFMin
<1> QED
  BY <1>2 DEF StrictSubsetOrdering

\* A finite relation without cycles has none in the other direction.
LEMMA GroundedBothWays ==
  ASSUME NEW T, IsFiniteSet(T), NEW R, Grounded(R, T)
  PROVE  \A S \in SUBSET T : S # {} => \E m \in S : \A u \in S : <<m, u>> \notin R
<1> DEFINE Bad == {S \in SUBSET T : S # {} /\ \A m \in S : \E u \in S : <<m, u>> \in R}
<1>1. SUFFICES ASSUME Bad # {} PROVE FALSE
  OBVIOUS
<1>2. PICK U \in Bad : \A V \in Bad : V \subseteq U => V = U
  <2>1. Bad \in SUBSET (SUBSET T)
    OBVIOUS
  <2> HIDE DEF Bad
  <2> QED
    BY <1>1, <2>1, SmallestSet
<1>3. PICK m \in U : \A u \in U : <<u, m>> \notin R
  BY DEF Grounded
<1>4. U \ {m} # {}
  <2>1. PICK u \in U : <<m, u>> \in R
    OBVIOUS
  <2> QED
    BY <1>3, <2>1
<1>5. ASSUME NEW t \in U \ {m} PROVE \E u \in U \ {m} : <<t, u>> \in R
  <2>1. PICK u \in U : <<t, u>> \in R
    OBVIOUS
  <2> QED
    BY <1>3, <2>1
<1>6. U \ {m} \in Bad
  BY <1>4, <1>5
<1> HIDE DEF Bad
<1> QED
  BY <1>2, <1>3, <1>6

\* F[t][g] is the value of t given the values g: it uses those of what comes
\* before t; an f that gives every t that value solves the recursion.
UsesOnly(F, R, T, V) ==
  /\ F \in [T -> [[T -> V] -> V]]
  /\ \A t \in T : \A g, h \in [T -> V] :
       (\A u \in T : <<u, t>> \in R => g[u] = h[u]) => F[t][g] = F[t][h]

Solvable(F, T, V) == \E f \in [T -> V] : \A t \in T : f[t] = F[t][f]

\* What a recursive definition over such a relation defines satisfies its
\* equation.
LEMMA RecursionHolds ==
  ASSUME NEW T, IsFiniteSet(T), NEW R, Grounded(R, T), NEW V, V # {},
         NEW F, UsesOnly(F, R, T, V)
  PROVE  Solvable(F, T, V)
<1> USE DEF UsesOnly, Solvable
<1> DEFINE Solves(f, U) ==
             /\ \A t \in T \ U : \A u \in T : <<u, t>> \in R => u \notin U
             /\ \A t \in T \ U : f[t] = F[t][f]
           Open == {U \in SUBSET T : \E f \in [T -> V] : Solves(f, U)}
<1>1. T \in Open
  <2>1. PICK v \in V : TRUE
    OBVIOUS
  <2>2. [t \in T |-> v] \in [T -> V]
    BY <2>1
  <2> QED
    BY <2>2
<1>2. PICK U \in Open : \A W \in Open : W \subseteq U => W = U
  <2>1. Open \in SUBSET (SUBSET T)
    OBVIOUS
  <2> HIDE DEF Open
  <2> QED
    BY <1>1, <2>1, SmallestSet
<1>3. PICK f \in [T -> V] : Solves(f, U)
  OBVIOUS
<1>4. CASE U = {}
  BY <1>3, <1>4
<1>5. CASE U # {}
  <2>1. PICK m \in U : \A u \in U : <<u, m>> \notin R
    BY <1>5 DEF Grounded
  <2> DEFINE h == [f EXCEPT ![m] = F[m][f]]
  <2>2. /\ h \in [T -> V] /\ h[m] = F[m][f]
        /\ \A t \in T : t # m => h[t] = f[t]
    OBVIOUS
  <2> HIDE DEF h
  <2>3. F[m][h] = F[m][f]
    <3>1. m \in T /\ \A u \in T : <<u, m>> \in R => h[u] = f[u]
      BY <2>1, <2>2
    <3> QED
      BY <2>2, <3>1
  <2>4. ASSUME NEW t \in T \ U PROVE h[t] = F[t][h]
    <3>1. \A u \in T : <<u, t>> \in R => h[u] = f[u]
      BY <1>3, <2>2
    <3>2. F[t][h] = F[t][f]
      BY <2>2, <3>1
    <3> QED
      BY <1>3, <2>2, <3>2
  <2>5. Solves(h, U \ {m})
    BY <1>3, <2>1, <2>2, <2>3, <2>4
  <2>6. U \ {m} \in Open
    BY <2>2, <2>5
  <2> HIDE DEF Open
  <2> QED
    BY <1>2, <2>1, <2>6
<1> QED
  BY <1>4, <1>5

(***************************************************************************)
(* What the passes need of the calendar arithmetic.                         *)
(***************************************************************************)

\* Days are added and subtracted within the integers, in their direction.
LEMMA CalendarSteps ==
  ASSUME NEW c \in Weeks, NEW d \in Int, NEW n \in Nat
  PROVE  /\ NextWorkingDay(d, c) \in Int /\ NextWorkingDay(d, c) >= d
         /\ PrevWorkingDay(d, c) \in Int /\ PrevWorkingDay(d, c) <= d
         /\ AddWorkingDays(d, n, c) \in Int /\ AddWorkingDays(d, n, c) >= d
         /\ SubtractWorkingDays(d, n, c) \in Int /\ SubtractWorkingDays(d, n, c) <= d
<1>1. /\ NextWorkingDay(d, c) \in Int /\ NextWorkingDay(d, c) >= d
      /\ PrevWorkingDay(d, c) \in Int /\ PrevWorkingDay(d, c) <= d
  BY NextWorkingDayIs, PrevWorkingDayIs
<1>2. CASE n = 0
  BY <1>1, <1>2 DEF AddWorkingDays, SubtractWorkingDays
<1>3. CASE n # 0
  BY <1>1, <1>3, AddWorkingDaysIs, SubtractWorkingDaysIs
<1> QED
  BY <1>2, <1>3

\* Where every day is worked, the working days are the days.
LEMMA EveryDayWorked ==
  ASSUME NEW d \in Int, NEW n \in Nat
  PROVE  /\ AddWorkingDays(d, n, 0 .. 6) = d + n
         /\ SubtractWorkingDays(d, n, 0 .. 6) = d - n
<1> DEFINE c == 0 .. 6
<1>1. c \in Weeks
  BY DEF Weeks
<1>2. \A x \in Int : Weekday(x) \in c
  BY DEF Weekday
<1>3. ASSUME NEW a \in Int, NEW b \in Int, a <= b PROVE WorkingDays(a, b, c) = b - a + 1
  <2>1. {x \in a .. b : Weekday(x) \in c} = a .. b
    BY <1>2
  <2>2. Cardinality(a .. b) = b - a + 1
    BY <1>3, FS_Interval
  <2> QED
    BY <2>1, <2>2 DEF WorkingDays
<1> HIDE DEF c
<1>4. CASE n = 0
  <2>1. NextWorkingDay(d, c) = d
    BY <1>1, <1>2, NextWorkingDayIs
  <2>2. PrevWorkingDay(d, c) = d
    BY <1>1, <1>2, PrevWorkingDayIs
  <2> QED
    BY <1>4, <2>1, <2>2 DEF AddWorkingDays, SubtractWorkingDays, c
<1>5. CASE n # 0
  <2>1. /\ AddWorkingDays(d, n, c) \in Int /\ AddWorkingDays(d, n, c) > d
        /\ WorkingDays(d + 1, AddWorkingDays(d, n, c), c) = n
    BY <1>1, <1>5, AddWorkingDaysIs
  <2>2. /\ SubtractWorkingDays(d, n, c) \in Int /\ SubtractWorkingDays(d, n, c) < d
        /\ WorkingDays(SubtractWorkingDays(d, n, c), d - 1, c) = n
    BY <1>1, <1>5, SubtractWorkingDaysIs
  <2>3. AddWorkingDays(d, n, c) = d + n
    <3> DEFINE a == AddWorkingDays(d, n, c)
    <3>1. d + 1 \in Int /\ a \in Int /\ d + 1 <= a
      BY <2>1
    <3> HIDE DEF a
    <3>2. WorkingDays(d + 1, a, c) = a - (d + 1) + 1
      BY <1>3, <3>1
    <3> QED
      BY <2>1, <3>1, <3>2 DEF a
  <2>4. SubtractWorkingDays(d, n, c) = d - n
    <3> DEFINE b == SubtractWorkingDays(d, n, c)
    <3>1. d - 1 \in Int /\ b \in Int /\ b <= d - 1
      BY <2>2
    <3> HIDE DEF b
    <3>2. WorkingDays(b, d - 1, c) = (d - 1) - b + 1
      BY <1>3, <3>1
    <3> QED
      BY <2>2, <3>1, <3>2 DEF b
  <2> QED
    BY <2>3, <2>4 DEF c
<1> QED
  BY <1>4, <1>5

\* Work that must end by the day on which n days more work than x does ends
\* can begin no later than x.
LEMMA SubtractWithinAdd ==
  ASSUME NEW c \in Weeks, NEW x \in Int, NEW y \in Int, NEW n \in Nat,
         Weekday(x) \in c, y <= AddWorkingDays(x, n, c)
  PROVE  SubtractWorkingDays(y, n, c) <= x
<1>1. CASE n = 0
  <2>1. NextWorkingDay(x, c) = x
    <3> DEFINE m == NextWorkingDay(x, c)
    <3>1. m \in x .. x + 6 /\ \A z \in x .. m - 1 : Weekday(z) \notin c
      BY NextWorkingDayIs
    <3> HIDE DEF m
    <3>2. m = x
      BY <3>1
    <3> QED
      BY <3>2 DEF m
  <2> QED
    BY <1>1, <2>1, PrevWorkingDayIs DEF AddWorkingDays, SubtractWorkingDays
<1>2. CASE n # 0
  <2> DEFINE a == AddWorkingDays(x, n, c)
             b == SubtractWorkingDays(y, n, c)
  <2>1. /\ a \in Int /\ a > x /\ Weekday(a) \in c /\ WorkingDays(x + 1, a, c) = n
        /\ b \in Int /\ b < y /\ WorkingDays(b, y - 1, c) = n
    BY <1>2, AddWorkingDaysIs, SubtractWorkingDaysIs
  <2>2. y <= a
    OBVIOUS
  <2> HIDE DEF a, b
  <2>3. WorkingDays(x + 1, a - 1, c) + 1 = n /\ WorkingDays(x + 1, a - 1, c) \in Nat
    BY <2>1, CountWorkingDays
  <2>4. ASSUME b > x PROVE WorkingDays(b, y - 1, c) <= WorkingDays(x + 1, a - 1, c)
    BY <2>1, <2>2, <2>4, WorkingDaysGrow
  <2>5. b <= x
    BY <2>1, <2>3, <2>4
  <2> QED
    BY <2>5 DEF b
<1> QED
  BY <1>1, <1>2

\* The duration of a task is at least a day.
LEMMA DurationIs ==
  ASSUME NEW s \in Schedule, NEW t \in Tasks
  PROVE  Duration(s, t) \in Nat \ {0}
<1> DEFINE w == WorkingDays(s.start[t], s.finish[t], s.calendar[t])
<1>1. w \in Nat
  BY CountWorkingDays DEF Schedule
<1> HIDE DEF w
<1>2. IsFiniteSet({1, w}) /\ {1, w} \in SUBSET Int /\ {1, w} # {}
  <2>1. IsFiniteSet({1} \union {w})
    BY FS_Singleton, FS_AddElement
  <2>2. {1, w} = {1} \union {w}
    OBVIOUS
  <2> QED
    BY <1>1, <2>1, <2>2
<1>3. Max({1, w}) \in {1, w}
  BY <1>2, MaxExists
<1>4. Duration(s, t) = Max({1, w})
  BY DEF Duration, w
<1>5. Max({1, w}) >= 1
  BY <1>2, MaxExists
<1> QED
  BY <1>1, <1>3, <1>4, <1>5

(***************************************************************************)
(* The order of the passes.                                                 *)
(***************************************************************************)
DatePair == [start : Int, finish : Int]

\* The predecessors whose computed dates a task uses.
Feeds(s) == {e \in Tasks \X Tasks :
  Before(s, e[1], e[2]) /\ \E l \in Into(s, e[2]) : l.pred = e[1]}

\* The values of a function on a finite set are finitely many.
LEMMA ImageIsFinite ==
  ASSUME NEW S, IsFiniteSet(S), NEW f
  PROVE  IsFiniteSet({f[x] : x \in S})
<1> DEFINE V == {f[x] : x \in S}
           g == [x \in S |-> f[x]]
<1>1. g \in Surjection(S, V)
  BY DEF Surjection
<1> HIDE DEF g, V
<1>2. IsFiniteSet(V)
  BY <1>1, FS_Surjection
<1> QED
  BY <1>2 DEF V

\* The order in which the tasks are visited, cycles and all, visits some task
\* of any set before those it feeds.
LEMMA FeedsGrounded ==
  ASSUME NEW s \in Schedule
  PROVE  Grounded(Feeds(s), Tasks)
<1>1. SUFFICES ASSUME NEW S \in SUBSET Tasks, S # {},
                      \A m \in S : \E u \in S : <<u, m>> \in Feeds(s)
               PROVE  FALSE
  BY DEF Grounded
<1>2. \A m, u : <<u, m>> \in Feeds(s) => Before(s, u, m) /\ \E l \in Into(s, m) : l.pred = u
  BY DEF Feeds
<1> DEFINE Free == S \ Stuck(s)
<1>3. CASE Free # {}
  <2>1. ASSUME NEW t \in Free PROVE \E l \in Into(s, t) : l.pred \in Free
    <3>1. PICK u \in S : <<u, t>> \in Feeds(s)
      BY <1>1
    <3>2. u \notin Stuck(s)
      BY <1>2, <3>1 DEF Before
    <3> QED
      BY <1>2, <3>1, <3>2
  <2>2. Free \subseteq Stuck(s)
    BY <2>1 DEF Stuck
  <2> QED
    BY <1>3, <2>2
<1>4. CASE Free = {}
  <2> DEFINE D == {s.start[t] : t \in S}
  <2>1. IsFiniteSet(S) /\ S \in SUBSET Int
    <3>1. IsFiniteSet(Tasks) /\ Tasks \subseteq Int
      BY TaskAssumption
    <3> QED
      BY <3>1, FS_Subset
  <2>2. IsFiniteSet(D) /\ D \in SUBSET Int /\ D # {}
    <3>1. D \in SUBSET Int /\ D # {}
      BY <1>1 DEF Schedule
    <3> DEFINE f == s.start
    <3>2. IsFiniteSet({f[x] : x \in S})
      <4> HIDE DEF f
      <4> QED
        BY <2>1, ImageIsFinite
    <3> QED
      BY <3>1, <3>2
  <2> DEFINE d == Min(D)
             First == {t \in S : s.start[t] = d}
  <2>3. First # {} /\ \A t \in S : d <= s.start[t]
    <3>1. d \in D /\ \A x \in D : d <= x
      <4> HIDE DEF D
      <4> QED
        BY <2>2, MinExists
    <3> QED
      BY <3>1
  <2> DEFINE m == Min(First)
  <2>4. m \in First /\ \A t \in First : m <= t
    <3>1. IsFiniteSet(First) /\ First \in SUBSET Int
      <4>1. First \in SUBSET S
        OBVIOUS
      <4> HIDE DEF First
      <4> QED
        BY <2>1, <4>1, FS_Subset
    <3> HIDE DEF First
    <3> QED
      BY <2>3, <3>1, MinExists
  <2> HIDE DEF m, d
  <2>5. PICK u \in S : Before(s, u, m) /\ u \in Stuck(s)
    BY <1>1, <1>2, <1>4, <2>4
  <2>6. s.start[u] < s.start[m] \/ (s.start[u] = s.start[m] /\ u < m)
    BY <2>5 DEF Before
  <2>7. u \in Int /\ m \in Int /\ s.start[u] \in Int /\ s.start[m] \in Int
    BY <2>1, <2>4, <2>5 DEF Schedule
  <2> QED
    BY <2>3, <2>4, <2>5, <2>6, <2>7
<1> QED
  BY <1>3, <1>4

(***************************************************************************)
(* The early dates.                                                         *)
(***************************************************************************)

\* A link asks for a day.
LEMMA EarliestIs ==
  ASSUME NEW c \in Weeks, NEW l \in TaskLink, NEW p \in DatePair, NEW dur \in Nat \ {0}
  PROVE  Earliest(l, p, dur, c) \in Int
<1>1. /\ p.finish + 1 + l.lag \in Int /\ p.start + l.lag \in Int /\ p.finish + l.lag \in Int
      /\ dur - 1 \in Nat
  BY DEF TaskLink, DatePair
<1>2. l.type \in {"FS", "SS", "FF", "SF"}
  BY DEF TaskLink
<1>3. /\ NextWorkingDay(p.finish + 1 + l.lag, c) \in Int
      /\ NextWorkingDay(p.start + l.lag, c) \in Int
      /\ SubtractWorkingDays(p.finish + l.lag, dur - 1, c) \in Int
      /\ SubtractWorkingDays(p.start + l.lag, dur - 1, c) \in Int
  BY <1>1, CalendarSteps
<1> QED
  BY <1>2, <1>3 DEF Earliest

\* What the links into a task, or out of it, ask for, as a set.
LEMMA LinksIntoAre ==
  ASSUME NEW s \in Schedule, NEW t \in Tasks
  PROVE  /\ IsFiniteSet(Into(s, t)) /\ IsFiniteSet(OutOf(s, t))
         /\ \A l \in Into(s, t) \union OutOf(s, t) : l \in TaskLink /\ l \in s.links
         /\ \A l \in Into(s, t) : l.succ = t /\ l.pred \in Tasks
         /\ \A l \in OutOf(s, t) : l.pred = t /\ l.succ \in Tasks
<1>1. IsFiniteSet(s.links) /\ s.links \subseteq TaskLink
  BY DEF Schedule
<1>2. Into(s, t) \in SUBSET s.links /\ OutOf(s, t) \in SUBSET s.links
  BY DEF Into, OutOf
<1>3. IsFiniteSet(Into(s, t)) /\ IsFiniteSet(OutOf(s, t))
  BY <1>1, <1>2, FS_Subset
<1> QED
  BY <1>1, <1>2, <1>3 DEF Into, OutOf, TaskLink

\* After the links of a task come as early a day as every one of them allows.
LEMMA AfterLinksIs ==
  ASSUME NEW s \in Schedule, NEW t \in Tasks, NEW g \in [Tasks -> DatePair]
  PROVE  /\ AfterLinks(s, g, t) \in Int
         /\ \A l \in Into(s, t) : AfterLinks(s, g, t) >=
              Earliest(l, PredDates(s, g, l.pred, t), Duration(s, t), s.calendar[t])
         /\ Into(s, t) = {} => AfterLinks(s, g, t) = NextWorkingDay(s.start[t], s.calendar[t])
         /\ Into(s, t) # {} =>
              /\ AfterLinks(s, g, t) >= ProjectStart(s) /\ ProjectStart(s) \in Int
              /\ \/ AfterLinks(s, g, t) = ProjectStart(s)
                 \/ \E l \in Into(s, t) : AfterLinks(s, g, t) =
                      Earliest(l, PredDates(s, g, l.pred, t), Duration(s, t), s.calendar[t])
<1> DEFINE c == s.calendar[t]
           dur == Duration(s, t)
           f == [l \in Into(s, t) |-> Earliest(l, PredDates(s, g, l.pred, t), dur, c)]
           A == {f[l] : l \in Into(s, t)}
           D == {s.start[u] : u \in Tasks}
<1>1. c \in Weeks /\ dur \in Nat \ {0} /\ s.start[t] \in Int
  BY DurationIs DEF Schedule
<1>2. ASSUME NEW l \in Into(s, t) PROVE f[l] \in Int
  <2>1. l \in TaskLink /\ l.pred \in Tasks
    BY LinksIntoAre
  <2>2. PredDates(s, g, l.pred, t) \in DatePair
    BY <2>1 DEF PredDates, DatePair, Schedule
  <2> HIDE DEF c, dur
  <2> QED
    BY <1>1, <2>1, <2>2, EarliestIs
<1>3. CASE Into(s, t) = {}
  <2>1. NextWorkingDay(s.start[t], c) \in Int
    BY <1>1, CalendarSteps
  <2> QED
    BY <1>3, <2>1 DEF AfterLinks
<1>4. CASE Into(s, t) # {}
  <2>1. IsFiniteSet(D) /\ D \in SUBSET Int /\ D # {}
    <3> DEFINE h == s.start
    <3>1. D \in SUBSET Int /\ D # {}
      BY DEF Schedule
    <3>2. IsFiniteSet({h[x] : x \in Tasks})
      <4> HIDE DEF h
      <4> QED
        BY TaskAssumption, ImageIsFinite
    <3> QED
      BY <3>1, <3>2
  <2>2. ProjectStart(s) \in Int
    <3>1. ProjectStart(s) = Min(D)
      BY DEF ProjectStart
    <3> HIDE DEF D
    <3> QED
      BY <2>1, <3>1, MinExists
  <2>3. IsFiniteSet(A) /\ A \in SUBSET Int
    <3>1. IsFiniteSet(A)
      <4> HIDE DEF f
      <4> QED
        BY LinksIntoAre, ImageIsFinite
    <3> QED
      BY <1>2, <3>1
  <2>4. AfterLinks(s, g, t) = Max({ProjectStart(s)} \union A)
    BY <1>4 DEF AfterLinks
  <2> DEFINE U == {ProjectStart(s)} \union A
  <2>5. IsFiniteSet(U) /\ U \in SUBSET Int /\ U # {}
    <3> HIDE DEF A
    <3> QED
      BY <2>2, <2>3, FS_Singleton, FS_Union
  <2> DEFINE m == Max(U)
  <2>6. m \in U /\ m \in Int /\ \A y \in U : m >= y
    <3> HIDE DEF U
    <3> QED
      BY <2>5, MaxExists
  <2> HIDE DEF m
  <2>7. \A l \in Into(s, t) : m >= f[l]
    BY <2>6
  <2>8. m >= ProjectStart(s)
    BY <2>6
  <2>9. m = ProjectStart(s) \/ \E l \in Into(s, t) : m = f[l]
    BY <2>6
  <2>10. AfterLinks(s, g, t) = m
    BY <2>4 DEF m
  <2> QED
    BY <1>4, <2>2, <2>6, <2>7, <2>8, <2>9, <2>10
<1> QED
  BY <1>3, <1>4

\* A task starts once its links allow it, the data date has come, and the
\* date it may not start before.
LEMMA EarlyStartIs ==
  ASSUME NEW s \in Schedule, NEW t \in Tasks, NEW g \in [Tasks -> DatePair]
  PROVE  /\ EarlyStart(s, g, t) \in Int
         /\ EarlyStart(s, g, t) >= AfterLinks(s, g, t)
         /\ EarlyStart(s, g, t) >= s.data_date
         /\ s.not_before[t] # None =>
              EarlyStart(s, g, t) >= NextWorkingDay(s.not_before[t], s.calendar[t])
         /\ \/ EarlyStart(s, g, t) \in {AfterLinks(s, g, t), s.data_date}
            \/ /\ s.not_before[t] # None
               /\ EarlyStart(s, g, t) = NextWorkingDay(s.not_before[t], s.calendar[t])
<1> DEFINE a == AfterLinks(s, g, t)
           n == NextWorkingDay(s.not_before[t], s.calendar[t])
           N == IF s.not_before[t] = None THEN {} ELSE {n}
           U == {a, s.data_date} \union N
<1>1. a \in Int /\ s.data_date \in Int
  BY AfterLinksIs DEF Schedule
<1>2. s.not_before[t] # None => n \in Int
  <2>1. s.calendar[t] \in Weeks /\ (s.not_before[t] # None => s.not_before[t] \in Int)
    BY DEF Schedule, Optional
  <2> QED
    BY <2>1, CalendarSteps
<1> HIDE DEF a, n
<1>3. IsFiniteSet(U) /\ U \in SUBSET Int /\ U # {}
  <2>1. IsFiniteSet({a} \union {s.data_date}) /\ {a, s.data_date} = {a} \union {s.data_date}
    BY FS_Singleton, FS_AddElement
  <2>2. IsFiniteSet(N)
    BY FS_EmptySet, FS_Singleton
  <2>3. IsFiniteSet(U)
    <3> HIDE DEF N
    <3> QED
      BY <2>1, <2>2, FS_Union
  <2> QED
    BY <1>1, <1>2, <2>3
<1>4. Max(U) \in U /\ \A y \in U : Max(U) >= y
  <2> HIDE DEF U
  <2> QED
    BY <1>3, MaxExists
<1>5. EarlyStart(s, g, t) = Max(U)
  BY DEF EarlyStart, a, n
<1> DEFINE m == Max(U)
<1>6. m \in Int /\ m >= a /\ m >= s.data_date /\ (s.not_before[t] # None => m >= n)
  BY <1>1, <1>2, <1>4
<1>7. m \in {a, s.data_date} \/ (s.not_before[t] # None /\ m = n)
  BY <1>4
<1> HIDE DEF m
<1>8. EarlyStart(s, g, t) = m
  BY <1>5 DEF m
<1> QED
  BY <1>6, <1>7, <1>8 DEF a, n

\* The early dates of a task are dates.
LEMMA EarlyDatesIs ==
  ASSUME NEW s \in Schedule, NEW t \in Tasks, NEW g \in [Tasks -> DatePair]
  PROVE  EarlyDates(s, g, t) \in DatePair
<1>1. /\ s.calendar[t] \in Weeks /\ Duration(s, t) - 1 \in Nat /\ s.start[t] \in Int
      /\ s.data_date \in Int /\ s.progress[t] \in Progress
  BY DurationIs DEF Schedule
<1>2. CASE Complete(s, t)
  <2>1. ActualStart(s, t) \in Int /\ s.progress[t].end \in Int
    BY <1>1, <1>2 DEF Complete, ActualStart, Progress, Optional
  <2> QED
    BY <1>2, <2>1 DEF EarlyDates, DatePair
<1>3. CASE ~Complete(s, t) /\ Running(s, t)
  <2>1. s.progress[t].start \in Int /\ s.progress[t].remaining - 1 \in Nat
    BY <1>1, <1>3 DEF Running, Progress, Optional
  <2>2. AddWorkingDays(s.data_date, s.progress[t].remaining - 1, s.calendar[t]) \in Int
    BY <1>1, <2>1, CalendarSteps
  <2> QED
    BY <1>3, <2>1, <2>2 DEF EarlyDates, DatePair
<1>4. CASE ~Complete(s, t) /\ ~Running(s, t)
  <2>1. EarlyStart(s, g, t) \in Int
    BY EarlyStartIs
  <2>2. AddWorkingDays(EarlyStart(s, g, t), Duration(s, t) - 1, s.calendar[t]) \in Int
    BY <1>1, <2>1, CalendarSteps
  <2> QED
    BY <1>4, <2>1, <2>2 DEF EarlyDates, DatePair
<1> QED
  BY <1>2, <1>3, <1>4

\* They depend on nothing but the dates of what feeds it.
LEMMA EarlyDatesLocal ==
  ASSUME NEW s \in Schedule, NEW t \in Tasks, NEW g, NEW h,
         \A u \in Tasks : <<u, t>> \in Feeds(s) => g[u] = h[u]
  PROVE  EarlyDates(s, g, t) = EarlyDates(s, h, t)
<1>1. ASSUME NEW l \in Into(s, t)
      PROVE  PredDates(s, g, l.pred, t) = PredDates(s, h, l.pred, t)
  <2>1. l.pred \in Tasks /\ t \in Tasks
    BY LinksIntoAre
  <2>2. Before(s, l.pred, t) => <<l.pred, t>> \in Feeds(s)
    BY <2>1 DEF Feeds
  <2> QED
    BY <2>1, <2>2 DEF PredDates
<1>2. {Earliest(l, PredDates(s, g, l.pred, t), Duration(s, t), s.calendar[t]) : l \in Into(s, t)}
        = {Earliest(l, PredDates(s, h, l.pred, t), Duration(s, t), s.calendar[t]) : l \in Into(s, t)}
  BY <1>1
<1>3. AfterLinks(s, g, t) = AfterLinks(s, h, t)
  BY <1>2 DEF AfterLinks
<1>4. EarlyStart(s, g, t) = EarlyStart(s, h, t)
  BY <1>3 DEF EarlyStart
<1> QED
  BY <1>4 DEF EarlyDates

\* The forward pass gives every task the dates its equation asks for.
LEMMA EarlyIs ==
  ASSUME NEW s \in Schedule
  PROVE  /\ Early(s) \in [Tasks -> DatePair]
         /\ \A t \in Tasks : Early(s)[t] = EarlyDates(s, Early(s), t)
<1> DEFINE F == [t \in Tasks |-> [g \in [Tasks -> DatePair] |-> EarlyDates(s, g, t)]]
           R == Feeds(s)
<1>1. IsFiniteSet(Tasks) /\ Grounded(R, Tasks)
  BY TaskAssumption, FeedsGrounded
<1>2. [start |-> 0, finish |-> 0] \in DatePair
  BY DEF DatePair
<1>3. F \in [Tasks -> [[Tasks -> DatePair] -> DatePair]]
  BY EarlyDatesIs
<1>4. \A t \in Tasks : \A g, h \in [Tasks -> DatePair] :
        (\A u \in Tasks : <<u, t>> \in R => g[u] = h[u]) => F[t][g] = F[t][h]
  BY EarlyDatesLocal
<1>5. PICK f \in [Tasks -> DatePair] : \A t \in Tasks : f[t] = F[t][f]
  <2> HIDE DEF F, R
  <2>1. DatePair # {} /\ UsesOnly(F, R, Tasks, DatePair)
    BY <1>2, <1>3, <1>4 DEF UsesOnly
  <2>2. Solvable(F, Tasks, DatePair)
    BY <1>1, <2>1, RecursionHolds
  <2> QED
    BY <2>2 DEF Solvable
<1>6. f = [t \in Tasks |-> EarlyDates(s, f, t)]
  BY <1>5
<1> DEFINE e == Early(s)
<1>7. e = [t \in Tasks |-> EarlyDates(s, e, t)]
  BY <1>6 DEF Early
<1> HIDE DEF e
<1> DEFINE Untyped == {t \in Tasks : e[t] \notin DatePair}
<1>8. Untyped = {}
  <2> SUFFICES ASSUME Untyped # {} PROVE FALSE
    OBVIOUS
  <2>1. PICK m \in Untyped : \A u \in Untyped : <<u, m>> \notin R
    <3> HIDE DEF R
    <3> QED
      BY <1>1 DEF Grounded
  <2> DEFINE g == [t \in Tasks |-> IF t \in Untyped THEN [start |-> 0, finish |-> 0] ELSE e[t]]
  <2>2. g \in [Tasks -> DatePair]
    BY <1>2
  <2>3. EarlyDates(s, g, m) = EarlyDates(s, e, m)
    <3>1. \A u \in Tasks : <<u, m>> \in Feeds(s) => g[u] = e[u]
      BY <2>1
    <3> HIDE DEF g
    <3> QED
      BY <3>1, EarlyDatesLocal
  <2>4. EarlyDates(s, g, m) \in DatePair
    <3> HIDE DEF g
    <3> QED
      BY <2>2, EarlyDatesIs
  <2> HIDE DEF g
  <2> QED
    BY <1>7, <2>1, <2>3, <2>4
<1> QED
  BY <1>7, <1>8 DEF e

(***************************************************************************)
(* The late dates.                                                          *)
(***************************************************************************)

\* The successors whose computed dates a task uses.
Limits(s) == {e \in Tasks \X Tasks :
  Before(s, e[2], e[1]) /\ \E l \in OutOf(s, e[2]) : l.succ = e[1]}

\* The backward pass has an order too: that of the forward pass, reversed.
LEMMA LimitsGrounded ==
  ASSUME NEW s \in Schedule
  PROVE  Grounded(Limits(s), Tasks)
<1>1. \A t, q \in Tasks : <<q, t>> \in Limits(s) <=> <<t, q>> \in Feeds(s)
  <2>1. ASSUME NEW t \in Tasks, NEW q \in Tasks
        PROVE  (\E l \in OutOf(s, t) : l.succ = q) <=> (\E l \in Into(s, q) : l.pred = t)
    BY DEF OutOf, Into
  <2> QED
    BY <2>1 DEF Limits, Feeds
<1>2. \A S \in SUBSET Tasks : S # {} => \E m \in S : \A u \in S : <<m, u>> \notin Feeds(s)
  BY TaskAssumption, FeedsGrounded, GroundedBothWays
<1>3. ASSUME NEW S \in SUBSET Tasks, S # {}
      PROVE  \E m \in S : \A u \in S : <<u, m>> \notin Limits(s)
  <2>1. PICK m \in S : \A u \in S : <<m, u>> \notin Feeds(s)
    BY <1>2, <1>3
  <2>2. \A u \in S : <<u, m>> \notin Limits(s)
    BY <1>1, <2>1
  <2> QED
    BY <2>2
<1> QED
  BY <1>3 DEF Grounded

\* A link asks for a day from behind, too.
LEMMA LatestIs ==
  ASSUME NEW c \in Weeks, NEW l \in TaskLink, NEW q \in DatePair, NEW dur \in Nat \ {0}
  PROVE  Latest(l, q, dur, c) \in Int
<1>1. /\ q.start - 1 - l.lag \in Int /\ q.start - l.lag \in Int /\ q.finish - l.lag \in Int
      /\ dur - 1 \in Nat
  BY DEF TaskLink, DatePair
<1>2. l.type \in {"FS", "SS", "FF", "SF"}
  BY DEF TaskLink
<1>3. /\ PrevWorkingDay(q.start - 1 - l.lag, c) \in Int
      /\ PrevWorkingDay(q.start - l.lag, c) \in Int
      /\ AddWorkingDays(q.start - l.lag, dur - 1, c) \in Int
  BY <1>1, CalendarSteps
<1>4. AddWorkingDays(PrevWorkingDay(q.start - l.lag, c), dur - 1, c) \in Int
  BY <1>1, <1>3, CalendarSteps
<1> QED
  BY <1>1, <1>2, <1>3, <1>4 DEF Latest

\* The project ends when its last task does.
LEMMA LastEndIs ==
  ASSUME NEW g \in [Tasks -> DatePair], NEW t \in Tasks
  PROVE  /\ LastEnd(g, t) \in Int
         /\ \A u \in Tasks : g[u].finish <= LastEnd(g, t)
         /\ \E u \in Tasks : g[u].finish = LastEnd(g, t)
<1> DEFINE f == [u \in Tasks |-> g[u].finish]
           D == {f[u] : u \in Tasks}
<1>1. D \in SUBSET Int /\ D # {}
  BY DEF DatePair
<1>2. IsFiniteSet(D)
  <2> HIDE DEF f
  <2> QED
    BY TaskAssumption, ImageIsFinite
<1>3. Max(D) \in D /\ \A y \in D : Max(D) >= y
  <2> HIDE DEF D
  <2> QED
    BY <1>1, <1>2, MaxExists
<1>4. {g[u].finish : u \in Tasks} = D
  OBVIOUS
<1>5. LastEnd(g, t) = Max(D)
  BY <1>4 DEF LastEnd
<1> QED
  BY <1>1, <1>3, <1>5

\* A task may finish as late as the end of the project, its links and its
\* deadline let it, and no earlier.
LEMMA LateFinishIs ==
  ASSUME NEW s \in Schedule, NEW t \in Tasks,
         NEW e \in [Tasks -> DatePair], NEW g \in [Tasks -> DatePair]
  PROVE  LET lf == LateFinish(s, e, g, t)
             Asks(l) == Latest(l, SuccDates(s, g, t, l.succ), Duration(s, t), s.calendar[t])
         IN  /\ lf \in Int
             /\ lf <= LastEnd(e, t)
             /\ \A l \in OutOf(s, t) : Asks(l) \in Int /\ lf <= Asks(l)
             /\ \/ lf = LastEnd(e, t)
                \/ \E l \in OutOf(s, t) : lf = Asks(l)
                \/ /\ s.deadline[t] \in Int
                   /\ lf = PrevWorkingDay(s.deadline[t], s.calendar[t])
<1> DEFINE c == s.calendar[t]
           dur == Duration(s, t)
           f == [l \in OutOf(s, t) |-> Latest(l, SuccDates(s, g, t, l.succ), dur, c)]
           A == {f[l] : l \in OutOf(s, t)}
           d == PrevWorkingDay(s.deadline[t], c)
           D == IF s.deadline[t] = None THEN {} ELSE {d}
           z == LastEnd(e, t)
<1>1. c \in Weeks /\ dur \in Nat \ {0} /\ (s.deadline[t] # None => s.deadline[t] \in Int)
  BY DurationIs DEF Schedule, Optional
<1>2. ASSUME NEW l \in OutOf(s, t) PROVE f[l] \in Int
  <2>1. l \in TaskLink /\ l.succ \in Tasks
    BY LinksIntoAre
  <2>2. SuccDates(s, g, t, l.succ) \in DatePair
    BY <2>1 DEF SuccDates, DatePair, Schedule
  <2> HIDE DEF c, dur
  <2> QED
    BY <1>1, <2>1, <2>2, LatestIs
<1>3. IsFiniteSet(A) /\ A \in SUBSET Int
  <2>1. IsFiniteSet(A)
    <3> HIDE DEF f
    <3> QED
      BY LinksIntoAre, ImageIsFinite
  <2> QED
    BY <1>2, <2>1
<1>4. s.deadline[t] # None => d \in Int
  <2> HIDE DEF c
  <2> QED
    BY <1>1, CalendarSteps
<1>5. z \in Int
  BY LastEndIs
<1> DEFINE U == ({z} \union A) \union D
<1>6. LateFinish(s, e, g, t) = Min(U)
  BY DEF LateFinish
<1> HIDE DEF z, d
<1>7. IsFiniteSet(U) /\ U \in SUBSET Int /\ U # {}
  <2>1. IsFiniteSet(D) /\ D \in SUBSET Int
    BY <1>4, FS_EmptySet, FS_Singleton
  <2> HIDE DEF A, D
  <2>2. IsFiniteSet({z} \union A)
    BY <1>3, FS_Singleton, FS_Union
  <2>3. IsFiniteSet(U)
    BY <2>1, <2>2, FS_Union
  <2> QED
    BY <1>3, <1>5, <2>1, <2>3
<1>8. Min(U) \in U /\ \A y \in U : Min(U) <= y
  <2> HIDE DEF U
  <2> QED
    BY <1>7, MinExists
<1> DEFINE m == Min(U)
<1>9. /\ m \in Int /\ m <= z
      /\ \A l \in OutOf(s, t) : m <= f[l]
      /\ m = z \/ (\E l \in OutOf(s, t) : m = f[l]) \/ (s.deadline[t] # None /\ m = d)
  <2>1. m \in U /\ m \in Int /\ \A y \in U : m <= y
    <3> HIDE DEF U
    <3> QED
      BY <1>7, <1>8
  <2> HIDE DEF m
  <2>2. \A l \in OutOf(s, t) : f[l] \in A
    OBVIOUS
  <2>3. (m = z \/ m \in A) \/ m \in D
    BY <2>1
  <2>4. m \in D => s.deadline[t] # None /\ m = d
    OBVIOUS
  <2>5. m \in A => \E l \in OutOf(s, t) : m = f[l]
    OBVIOUS
  <2>6. m <= z
    BY <2>1
  <2>7. \A l \in OutOf(s, t) : m <= f[l]
    <3> HIDE DEF f
    <3> QED
      BY <2>1, <2>2
  <2> HIDE DEF A, D, f
  <2> QED
    BY <2>1, <2>3, <2>4, <2>5, <2>6, <2>7
<1>10. LateFinish(s, e, g, t) = m
  BY <1>6
<1> HIDE DEF m
<1>11. /\ m \in Int /\ m <= z
       /\ m = z \/ (\E l \in OutOf(s, t) : m = f[l])
          \/ (s.deadline[t] \in Int /\ m = PrevWorkingDay(s.deadline[t], c))
  BY <1>1, <1>9 DEF d
<1> QED
  BY <1>2, <1>9, <1>10, <1>11 DEF z

\* The late dates of a task are dates.
LEMMA LateDatesIs ==
  ASSUME NEW s \in Schedule, NEW t \in Tasks,
         NEW e \in [Tasks -> DatePair], NEW g \in [Tasks -> DatePair]
  PROVE  LateDates(s, e, g, t) \in DatePair
<1>1. /\ s.calendar[t] \in Weeks /\ Duration(s, t) - 1 \in Nat /\ s.start[t] \in Int
      /\ s.progress[t] \in Progress
  BY DurationIs DEF Schedule
<1>2. CASE Complete(s, t)
  <2>1. ActualStart(s, t) \in Int /\ s.progress[t].end \in Int
    BY <1>1, <1>2 DEF Complete, ActualStart, Progress, Optional
  <2> QED
    BY <1>2, <2>1 DEF LateDates, DatePair
<1>3. CASE ~Complete(s, t) /\ Running(s, t)
  <2>1. s.progress[t].start \in Int
    BY <1>1, <1>3 DEF Running, Progress, Optional
  <2> QED
    BY <1>3, <2>1 DEF LateDates, DatePair
<1>4. CASE ~Complete(s, t) /\ ~Running(s, t)
  <2>1. LateFinish(s, e, g, t) \in Int
    BY LateFinishIs
  <2>2. SubtractWorkingDays(LateFinish(s, e, g, t), Duration(s, t) - 1, s.calendar[t]) \in Int
    BY <1>1, <2>1, CalendarSteps
  <2> QED
    BY <1>4, <2>1, <2>2 DEF LateDates, DatePair
<1> QED
  BY <1>2, <1>3, <1>4

\* They depend on the early dates and on the late dates of what limits it.
LEMMA LateDatesLocal ==
  ASSUME NEW s \in Schedule, NEW t \in Tasks, NEW e, NEW g, NEW h,
         \A q \in Tasks : <<q, t>> \in Limits(s) => g[q] = h[q]
  PROVE  LateDates(s, e, g, t) = LateDates(s, e, h, t)
<1>1. ASSUME NEW l \in OutOf(s, t)
      PROVE  SuccDates(s, g, t, l.succ) = SuccDates(s, h, t, l.succ)
  <2>1. l.succ \in Tasks /\ t \in Tasks
    BY LinksIntoAre
  <2>2. Before(s, t, l.succ) => <<l.succ, t>> \in Limits(s)
    BY <2>1 DEF Limits
  <2> QED
    BY <2>1, <2>2 DEF SuccDates
<1>2. {Latest(l, SuccDates(s, g, t, l.succ), Duration(s, t), s.calendar[t]) : l \in OutOf(s, t)}
        = {Latest(l, SuccDates(s, h, t, l.succ), Duration(s, t), s.calendar[t]) : l \in OutOf(s, t)}
  BY <1>1
<1>3. LateFinish(s, e, g, t) = LateFinish(s, e, h, t)
  BY <1>2 DEF LateFinish
<1> QED
  BY <1>3 DEF LateDates

\* The backward pass gives every task the dates its equation asks for.
LEMMA LateIs ==
  ASSUME NEW s \in Schedule
  PROVE  /\ Late(s) \in [Tasks -> DatePair]
         /\ \A t \in Tasks : Late(s)[t] = LateDates(s, Early(s), Late(s), t)
<1> DEFINE e == Early(s)
           F == [t \in Tasks |-> [g \in [Tasks -> DatePair] |-> LateDates(s, e, g, t)]]
           R == Limits(s)
<1>1. IsFiniteSet(Tasks) /\ Grounded(R, Tasks)
  BY TaskAssumption, LimitsGrounded
<1>2. [start |-> 0, finish |-> 0] \in DatePair /\ e \in [Tasks -> DatePair]
  BY EarlyIs DEF DatePair
<1> HIDE DEF e
<1>3. F \in [Tasks -> [[Tasks -> DatePair] -> DatePair]]
  BY <1>2, LateDatesIs
<1>4. \A t \in Tasks : \A g, h \in [Tasks -> DatePair] :
        (\A u \in Tasks : <<u, t>> \in R => g[u] = h[u]) => F[t][g] = F[t][h]
  BY LateDatesLocal
<1>5. PICK f \in [Tasks -> DatePair] : \A t \in Tasks : f[t] = F[t][f]
  <2> HIDE DEF F, R
  <2>1. DatePair # {} /\ UsesOnly(F, R, Tasks, DatePair)
    BY <1>2, <1>3, <1>4 DEF UsesOnly
  <2>2. Solvable(F, Tasks, DatePair)
    BY <1>1, <2>1, RecursionHolds
  <2> QED
    BY <2>2 DEF Solvable
<1>6. f = [t \in Tasks |-> LateDates(s, e, f, t)]
  BY <1>5
<1> DEFINE d == Late(s)
<1>7. d = [t \in Tasks |-> LateDates(s, e, d, t)]
  BY <1>6 DEF Late, e
<1> HIDE DEF d
<1> DEFINE Untyped == {t \in Tasks : d[t] \notin DatePair}
<1>8. Untyped = {}
  <2> SUFFICES ASSUME Untyped # {} PROVE FALSE
    OBVIOUS
  <2>1. PICK m \in Untyped : \A u \in Untyped : <<u, m>> \notin R
    <3> HIDE DEF R
    <3> QED
      BY <1>1 DEF Grounded
  <2> DEFINE g == [t \in Tasks |-> IF t \in Untyped THEN [start |-> 0, finish |-> 0] ELSE d[t]]
  <2>2. g \in [Tasks -> DatePair]
    BY <1>2
  <2>3. LateDates(s, e, g, m) = LateDates(s, e, d, m)
    <3>1. \A u \in Tasks : <<u, m>> \in Limits(s) => g[u] = d[u]
      BY <2>1
    <3> HIDE DEF g
    <3> QED
      BY <3>1, LateDatesLocal
  <2>4. LateDates(s, e, g, m) \in DatePair
    <3> HIDE DEF g
    <3> QED
      BY <1>2, <2>2, LateDatesIs
  <2> HIDE DEF g
  <2> QED
    BY <1>7, <2>1, <2>3, <2>4
<1> QED
  BY <1>7, <1>8 DEF d, e

(***************************************************************************)
(* The computed dates, and the links.                                       *)
(***************************************************************************)

\* The CPM fields are empty or what the two passes say.
ComputedByPasses ==
  /\ stored \in Schedule
  /\ computed # <<>> =>
       LET early == Early(stored)
           late == Late(stored)
           float == Float(stored, early, late)
       IN computed = [early |-> early, late |-> late, float |-> float,
            critical |-> {t \in Tasks : ~stored.progress[t].complete /\ float[t] <= 0}]

\* What is stored is always what the passes computed from the stored network.
LEMMA ComputedByPassesInvariant == CPMSpec => []ComputedByPasses
<1>1. CPMInit => ComputedByPasses
  BY ScheduleAssumption DEF CPMInit, ComputedByPasses
<1>2. ComputedByPasses /\ [CPMNext]_network => ComputedByPasses'
  BY DEF ComputedByPasses, CPMNext, ComputeCriticalPath, network
<1> QED
  BY <1>1, <1>2, PTL DEF CPMSpec

\* What the passes compute are dates and differences of dates, on networks with
\* cycles too.
THEOREM NetworkTyped == CPMSpec => []NetworkTypeOK
<1>1. ComputedByPasses => NetworkTypeOK
  <2> SUFFICES ASSUME ComputedByPasses, computed # <<>>
               PROVE  /\ computed.early \in [Tasks -> [start : Int, finish : Int]]
                      /\ computed.late \in [Tasks -> [start : Int, finish : Int]]
                      /\ computed.float \in [Tasks -> Int]
                      /\ computed.critical \subseteq Tasks
    BY DEF NetworkTypeOK
  <2> DEFINE e == Early(stored)
             f == Late(stored)
  <2>1. e \in [Tasks -> DatePair] /\ f \in [Tasks -> DatePair]
    BY EarlyIs, LateIs DEF ComputedByPasses
  <2>2. /\ computed.early = e /\ computed.late = f /\ computed.float = Float(stored, e, f)
        /\ computed.critical \subseteq Tasks
    BY DEF ComputedByPasses
  <2> HIDE DEF e, f
  <2>3. Float(stored, e, f) \in [Tasks -> Int]
    BY <2>1 DEF Float, DatePair
  <2> QED
    BY <2>1, <2>2, <2>3 DEF DatePair
<1> QED
  BY <1>1, ComputedByPassesInvariant, PTL

\* Without cycles every link is a link between computed dates.
LEMMA AcyclicUsesComputed ==
  ASSUME NEW s, Stuck(s) = {}, NEW g, NEW t, NEW u
  PROVE  PredDates(s, g, u, t) = g[u] /\ SuccDates(s, g, t, u) = g[u]
BY DEF PredDates, SuccDates, Before

\* The forward pass keeps a link into a task that has not started.
LEMMA EarlyKeepsLink ==
  ASSUME NEW s \in Schedule, Stuck(s) = {}, NEW l \in s.links,
         ~Complete(s, l.succ), ~Running(s, l.succ)
  PROVE  LET p == Early(s)[l.pred]
             q == Early(s)[l.succ]
         IN  /\ l.type = "FS" => q.start > p.finish + l.lag
             /\ l.type = "SS" => q.start >= p.start + l.lag
             /\ l.type = "FF" /\ s.calendar[l.succ] = 0 .. 6 => q.finish >= p.finish + l.lag
<1> DEFINE e == Early(s)
           t == l.succ
           c == s.calendar[t]
           n == Duration(s, t) - 1
           es == EarlyStart(s, e, t)
           a == Earliest(l, e[l.pred], Duration(s, t), c)
<1>1. /\ l \in TaskLink /\ t \in Tasks /\ l.pred \in Tasks /\ l.lag \in Int /\ l \in Into(s, t)
      /\ c \in Weeks
  BY DEF Schedule, TaskLink, Into
<1>2. e \in [Tasks -> DatePair] /\ e[t] = EarlyDates(s, e, t)
  BY <1>1, EarlyIs
<1>3. e[t] = [start |-> es, finish |-> AddWorkingDays(es, n, c)]
  BY <1>2 DEF EarlyDates
<1>4. es \in Int /\ es >= AfterLinks(s, e, t) /\ AfterLinks(s, e, t) \in Int
  BY <1>1, <1>2, EarlyStartIs, AfterLinksIs
<1>5. n \in Nat /\ Duration(s, t) \in Nat \ {0}
  BY <1>1, DurationIs
<1>6. a \in Int /\ AfterLinks(s, e, t) >= a
  <2>1. PredDates(s, e, l.pred, t) = e[l.pred]
    BY AcyclicUsesComputed
  <2>2. e[l.pred] \in DatePair
    BY <1>1, <1>2
  <2> HIDE DEF e
  <2> QED
    BY <1>1, <1>2, <1>5, <2>1, <2>2, AfterLinksIs, EarliestIs
<1>7. es >= a
  BY <1>4, <1>6
<1>8. e[l.pred].start \in Int /\ e[l.pred].finish \in Int
  BY <1>1, <1>2 DEF DatePair
<1>9. e[t].start = es /\ e[t].finish = AddWorkingDays(es, n, c)
  BY <1>3
<1> HIDE DEF e, es, n, c, t
<1>10. ASSUME l.type = "FS" PROVE e[t].start > e[l.pred].finish + l.lag
  <2> DEFINE d == e[l.pred].finish + 1 + l.lag
  <2>1. a = NextWorkingDay(d, c)
    BY <1>10 DEF Earliest
  <2>2. d \in Int
    BY <1>1, <1>8
  <2>3. NextWorkingDay(d, c) >= d /\ NextWorkingDay(d, c) \in Int
    <3> HIDE DEF d
    <3> QED
      BY <1>1, <2>2, CalendarSteps
  <2> HIDE DEF a
  <2> QED
    BY <1>1, <1>4, <1>7, <1>8, <1>9, <2>1, <2>3
<1>11. ASSUME l.type = "SS" PROVE e[t].start >= e[l.pred].start + l.lag
  <2> DEFINE d == e[l.pred].start + l.lag
  <2>1. a = NextWorkingDay(d, c)
    BY <1>11 DEF Earliest
  <2>2. d \in Int
    BY <1>1, <1>8
  <2>3. NextWorkingDay(d, c) >= d /\ NextWorkingDay(d, c) \in Int
    <3> HIDE DEF d
    <3> QED
      BY <1>1, <2>2, CalendarSteps
  <2> HIDE DEF a
  <2> QED
    BY <1>1, <1>4, <1>7, <1>8, <1>9, <2>1, <2>3
<1>12. ASSUME l.type = "FF", c = 0 .. 6 PROVE e[t].finish >= e[l.pred].finish + l.lag
  <2> DEFINE d == e[l.pred].finish + l.lag
  <2>1. a = SubtractWorkingDays(d, n, c)
    BY <1>12 DEF Earliest, n
  <2>2. d \in Int
    BY <1>1, <1>8
  <2>3. SubtractWorkingDays(d, n, 0 .. 6) = d - n
    <3> HIDE DEF d
    <3> QED
      BY <1>5, <2>2, EveryDayWorked
  <2>4. AddWorkingDays(es, n, 0 .. 6) = es + n
    BY <1>4, <1>5, EveryDayWorked
  <2>5. es >= d - n
    BY <1>7, <1>12, <2>1, <2>3
  <2>6. e[t].finish = es + n
    BY <1>9, <1>12, <2>4
  <2> QED
    BY <1>4, <1>5, <2>2, <2>5, <2>6
<1> QED
  BY <1>10, <1>11, <1>12 DEF e, t, c

\* The backward pass keeps a link out of a task that has not started.
LEMMA LateKeepsLink ==
  ASSUME NEW s \in Schedule, Stuck(s) = {}, NEW l \in s.links,
         ~Complete(s, l.pred), ~Running(s, l.pred)
  PROVE  LET p == Late(s)[l.pred]
             q == Late(s)[l.succ]
         IN  /\ l.type = "FS" => q.start > p.finish + l.lag
             /\ l.type = "SS" => q.start >= p.start + l.lag
             /\ l.type = "FF" => q.finish >= p.finish + l.lag
<1> DEFINE e == Early(s)
           f == Late(s)
           t == l.pred
           c == s.calendar[t]
           n == Duration(s, t) - 1
           lf == LateFinish(s, e, f, t)
           a == Latest(l, f[l.succ], Duration(s, t), c)
<1>1. /\ l \in TaskLink /\ t \in Tasks /\ l.succ \in Tasks /\ l.lag \in Int /\ l \in OutOf(s, t)
      /\ c \in Weeks
  BY DEF Schedule, TaskLink, OutOf
<1>2. e \in [Tasks -> DatePair] /\ f \in [Tasks -> DatePair] /\ f[t] = LateDates(s, e, f, t)
  BY <1>1, EarlyIs, LateIs
<1>3. f[t].start = SubtractWorkingDays(lf, n, c) /\ f[t].finish = lf
  BY <1>2 DEF LateDates
<1>4. n \in Nat /\ Duration(s, t) \in Nat \ {0}
  BY <1>1, DurationIs
<1>5. lf \in Int /\ a \in Int /\ lf <= a
  <2>1. SuccDates(s, f, t, l.succ) = f[l.succ]
    BY AcyclicUsesComputed
  <2> HIDE DEF e, f
  <2> QED
    BY <1>1, <1>2, <2>1, LateFinishIs
<1>6. f[l.succ].start \in Int /\ f[l.succ].finish \in Int
  BY <1>1, <1>2 DEF DatePair
<1> HIDE DEF e, f, lf, n, c, t
<1>7. ASSUME l.type = "FS" PROVE f[l.succ].start > f[t].finish + l.lag
  <2> DEFINE d == f[l.succ].start - 1 - l.lag
  <2>1. a = PrevWorkingDay(d, c)
    BY <1>7 DEF Latest
  <2>2. d \in Int
    BY <1>1, <1>6
  <2>3. PrevWorkingDay(d, c) <= d /\ PrevWorkingDay(d, c) \in Int
    <3> HIDE DEF d
    <3> QED
      BY <1>1, <2>2, CalendarSteps
  <2> HIDE DEF a
  <2> QED
    BY <1>1, <1>3, <1>5, <1>6, <2>1, <2>3
<1>8. ASSUME l.type = "SS" PROVE f[l.succ].start >= f[t].start + l.lag
  <2> DEFINE d == f[l.succ].start - l.lag
             x == PrevWorkingDay(d, c)
  <2>1. a = AddWorkingDays(x, n, c)
    BY <1>8 DEF Latest, n
  <2>2. d \in Int
    BY <1>1, <1>6
  <2>3. x <= d /\ x \in Int /\ Weekday(x) \in c
    <3> HIDE DEF d
    <3> QED
      BY <1>1, <2>2, PrevWorkingDayIs
  <2>4. SubtractWorkingDays(lf, n, c) <= x
    <3> HIDE DEF x, a
    <3> QED
      BY <1>1, <1>4, <1>5, <2>1, <2>3, SubtractWithinAdd
  <2>5. SubtractWorkingDays(lf, n, c) \in Int
    BY <1>1, <1>4, <1>5, CalendarSteps
  <2> HIDE DEF x
  <2> QED
    BY <1>1, <1>3, <1>6, <2>3, <2>4, <2>5
<1>9. ASSUME l.type = "FF" PROVE f[l.succ].finish >= f[t].finish + l.lag
  <2>1. a = f[l.succ].finish - l.lag
    BY <1>9 DEF Latest
  <2> HIDE DEF a
  <2> QED
    BY <1>1, <1>3, <1>5, <1>6, <2>1
<1> QED
  BY <1>7, <1>8, <1>9 DEF f, t

\* Whatever the network, its links, calendars and progress: without cycles, no
\* link is broken by the dates the passes compute.
THEOREM LinksAreKept == CPMSpec => []PassesKeepLinks
<1>1. ComputedByPasses => PassesKeepLinks
  <2> SUFFICES ASSUME ComputedByPasses, computed # <<>>, Acyclic, NEW l \in stored.links
               PROVE  LET e == computed.early
                          f == computed.late
                          Keeps(p, q) == CASE l.type = "FS" -> q.start > p.finish + l.lag
                                           [] l.type = "SS" -> q.start >= p.start + l.lag
                                           [] l.type = "FF" -> q.finish >= p.finish + l.lag
                                           [] l.type = "SF" -> TRUE
                      IN /\ NotStarted(l.succ) /\ (l.type = "FF" => EveryDay(l.succ)) =>
                              Keeps(e[l.pred], e[l.succ])
                         /\ NotStarted(l.pred) => Keeps(f[l.pred], f[l.succ])
    BY DEF PassesKeepLinks
  <2>1. /\ computed.early = Early(stored) /\ computed.late = Late(stored)
        /\ stored \in Schedule /\ Stuck(stored) = {}
    BY DEF ComputedByPasses, Acyclic
  <2>2. l.type \in {"FS", "SS", "FF", "SF"}
    BY <2>1 DEF Schedule, TaskLink
  <2>3. ASSUME NotStarted(l.succ)
        PROVE  LET p == Early(stored)[l.pred]
                   q == Early(stored)[l.succ]
               IN  /\ l.type = "FS" => q.start > p.finish + l.lag
                   /\ l.type = "SS" => q.start >= p.start + l.lag
                   /\ l.type = "FF" /\ EveryDay(l.succ) => q.finish >= p.finish + l.lag
    BY <2>1, <2>3, EarlyKeepsLink DEF NotStarted, EveryDay
  <2>4. ASSUME NotStarted(l.pred)
        PROVE  LET p == Late(stored)[l.pred]
                   q == Late(stored)[l.succ]
               IN  /\ l.type = "FS" => q.start > p.finish + l.lag
                   /\ l.type = "SS" => q.start >= p.start + l.lag
                   /\ l.type = "FF" => q.finish >= p.finish + l.lag
    BY <2>1, <2>4, LateKeepsLink DEF NotStarted
  <2> QED
    BY <2>1, <2>2, <2>3, <2>4
<1> QED
  BY <1>1, ComputedByPassesInvariant, PTL

(***************************************************************************)
(* Float.  More of the calendar: additions and subtractions are monotone,   *)
(* end on days that are worked and undo each other there.                   *)
(***************************************************************************)

\* The next working day is the least one that is not before the given day, the
\* previous one the largest that is not after it.
LEMMA NextAndPrevAreNearest ==
  ASSUME NEW c \in Weeks, NEW d \in Int, NEW x \in Int, Weekday(x) \in c
  PROVE  /\ x >= d => NextWorkingDay(d, c) <= x
         /\ x <= d => x <= PrevWorkingDay(d, c)
         /\ NextWorkingDay(x, c) = x
<1> DEFINE n == NextWorkingDay(d, c)
           p == PrevWorkingDay(d, c)
           m == NextWorkingDay(x, c)
<1>1. /\ n \in d .. d + 6 /\ \A z \in d .. n - 1 : Weekday(z) \notin c
      /\ p \in d - 6 .. d /\ \A z \in p + 1 .. d : Weekday(z) \notin c
  BY NextWorkingDayIs, PrevWorkingDayIs
<1>2. m \in x .. x + 6 /\ \A z \in x .. m - 1 : Weekday(z) \notin c
  BY NextWorkingDayIs
<1> HIDE DEF n, p, m
<1>3. x >= d => n <= x
  BY <1>1
<1>4. x <= d => x <= p
  BY <1>1
<1>5. m = x
  BY <1>2
<1> QED
  BY <1>3, <1>4, <1>5 DEF n, p, m

\* What an addition or subtraction ends on is worked.
LEMMA EndsAreWorked ==
  ASSUME NEW c \in Weeks, NEW d \in Int, NEW n \in Nat
  PROVE  Weekday(AddWorkingDays(d, n, c)) \in c /\ Weekday(SubtractWorkingDays(d, n, c)) \in c
<1>1. CASE n = 0
  BY <1>1, NextWorkingDayIs, PrevWorkingDayIs DEF AddWorkingDays, SubtractWorkingDays
<1>2. CASE n # 0
  BY <1>2, AddWorkingDaysIs, SubtractWorkingDaysIs
<1> QED
  BY <1>1, <1>2

\* Starting later, work does not end earlier.
LEMMA AddMonotone ==
  ASSUME NEW c \in Weeks, NEW d \in Int, NEW e \in Int, NEW n \in Nat, d <= e
  PROVE  AddWorkingDays(d, n, c) <= AddWorkingDays(e, n, c)
<1>1. CASE n = 0
  <2>1. NextWorkingDay(e, c) \in Int /\ NextWorkingDay(e, c) >= e /\ Weekday(NextWorkingDay(e, c)) \in c
    BY NextWorkingDayIs
  <2> DEFINE x == NextWorkingDay(e, c)
  <2>2. x \in Int /\ Weekday(x) \in c /\ x >= d
    BY <2>1
  <2> HIDE DEF x
  <2>3. NextWorkingDay(d, c) <= x
    BY <2>2, NextAndPrevAreNearest
  <2> QED
    BY <1>1, <2>3 DEF AddWorkingDays, x
<1>2. CASE n # 0
  <2> DEFINE a == AddWorkingDays(d, n, c)
             b == AddWorkingDays(e, n, c)
  <2>1. /\ a \in Int /\ a > d /\ Weekday(a) \in c /\ WorkingDays(d + 1, a, c) = n
        /\ b \in Int /\ b > e /\ Weekday(b) \in c /\ WorkingDays(e + 1, b, c) = n
    BY <1>2, AddWorkingDaysIs
  <2> HIDE DEF a, b
  <2>2. WorkingDays(d + 1, a - 1, c) + 1 = n /\ WorkingDays(d + 1, a - 1, c) \in Nat
    BY <2>1, CountWorkingDays
  <2>3. ASSUME b < a PROVE WorkingDays(e + 1, b, c) <= WorkingDays(d + 1, a - 1, c)
    BY <2>1, <2>3, WorkingDaysGrow
  <2>4. a <= b
    BY <2>1, <2>2, <2>3
  <2> QED
    BY <2>4 DEF a, b
<1> QED
  BY <1>1, <1>2

\* Ending later, it need not start earlier.
LEMMA SubtractMonotone ==
  ASSUME NEW c \in Weeks, NEW d \in Int, NEW e \in Int, NEW n \in Nat, d <= e
  PROVE  SubtractWorkingDays(d, n, c) <= SubtractWorkingDays(e, n, c)
<1>1. CASE n = 0
  <2> DEFINE x == PrevWorkingDay(d, c)
  <2>1. x \in Int /\ x <= d /\ Weekday(x) \in c
    BY PrevWorkingDayIs
  <2>2. x <= e
    BY <2>1
  <2> HIDE DEF x
  <2>3. x <= PrevWorkingDay(e, c)
    BY <2>1, <2>2, NextAndPrevAreNearest
  <2> QED
    BY <1>1, <2>3 DEF SubtractWorkingDays, x
<1>2. CASE n # 0
  <2> DEFINE a == SubtractWorkingDays(d, n, c)
             b == SubtractWorkingDays(e, n, c)
  <2>1. /\ a \in Int /\ a < d /\ Weekday(a) \in c /\ WorkingDays(a, d - 1, c) = n
        /\ b \in Int /\ b < e /\ Weekday(b) \in c /\ WorkingDays(b, e - 1, c) = n
    BY <1>2, SubtractWorkingDaysIs
  <2> HIDE DEF a, b
  <2>2. WorkingDays(b + 1, e - 1, c) + 1 = n /\ WorkingDays(b + 1, e - 1, c) \in Nat
    BY <2>1, CountWorkingDays
  <2>3. ASSUME b < a PROVE WorkingDays(a, d - 1, c) <= WorkingDays(b + 1, e - 1, c)
    BY <2>1, <2>3, WorkingDaysGrow
  <2>4. a <= b
    BY <2>1, <2>2, <2>3
  <2> QED
    BY <2>4 DEF a, b
<1> QED
  BY <1>1, <1>2

\* Work that must end on a day that is worked, begun as late as it can be, ends
\* by then.
LEMMA AddAfterSubtract ==
  ASSUME NEW c \in Weeks, NEW y \in Int, NEW n \in Nat, Weekday(y) \in c
  PROVE  AddWorkingDays(SubtractWorkingDays(y, n, c), n, c) <= y
<1>1. CASE n = 0
  <2> DEFINE x == PrevWorkingDay(y, c)
  <2>1. x \in Int /\ x <= y /\ Weekday(x) \in c
    BY PrevWorkingDayIs
  <2> HIDE DEF x
  <2>2. NextWorkingDay(x, c) = x
    BY <2>1, NextAndPrevAreNearest
  <2> QED
    BY <1>1, <2>1, <2>2 DEF AddWorkingDays, SubtractWorkingDays, x
<1>2. CASE n # 0
  <2> DEFINE b == SubtractWorkingDays(y, n, c)
             a == AddWorkingDays(b, n, c)
  <2>1. b \in Int /\ b < y /\ Weekday(b) \in c /\ WorkingDays(b, y - 1, c) = n
    BY <1>2, SubtractWorkingDaysIs
  <2> HIDE DEF b
  <2>2. a \in Int /\ a > b /\ Weekday(a) \in c /\ WorkingDays(b + 1, a, c) = n
    BY <1>2, <2>1, AddWorkingDaysIs
  <2> HIDE DEF a
  <2>3. WorkingDays(b + 1, y - 1, c) + 1 = n /\ WorkingDays(b + 1, y - 1, c) \in Nat
    BY <2>1, CountWorkingDays
  <2>4. WorkingDays(b + 1, y, c) = n
    BY <2>1, <2>3, CountWorkingDays
  <2>5. WorkingDays(b + 1, a - 1, c) + 1 = n /\ WorkingDays(b + 1, a - 1, c) \in Nat
    BY <2>2, <2>1, CountWorkingDays
  <2>6. ASSUME y < a PROVE WorkingDays(b + 1, y, c) <= WorkingDays(b + 1, a - 1, c)
    BY <2>1, <2>2, <2>6, WorkingDaysGrow
  <2>7. a <= y
    BY <2>1, <2>2, <2>4, <2>5, <2>6
  <2> QED
    BY <2>7 DEF a, b
<1> QED
  BY <1>1, <1>2

\* Work that started on a day later than it could ends too late.
LEMMA AddPastSubtract ==
  ASSUME NEW c \in Weeks, NEW x \in Int, NEW y \in Int, NEW n \in Nat,
         Weekday(x) \in c, x > SubtractWorkingDays(y, n, c)
  PROVE  AddWorkingDays(x, n, c) > y
<1>1. CASE n = 0
  <2>1. NextWorkingDay(x, c) = x
    BY NextAndPrevAreNearest
  <2>2. x <= y => x <= PrevWorkingDay(y, c)
    BY NextAndPrevAreNearest
  <2>3. PrevWorkingDay(y, c) \in Int
    BY CalendarSteps
  <2> QED
    BY <1>1, <2>1, <2>2, <2>3 DEF AddWorkingDays, SubtractWorkingDays
<1>2. CASE n # 0
  <2> DEFINE b == SubtractWorkingDays(y, n, c)
             a == AddWorkingDays(x, n, c)
  <2>1. b \in Int /\ b < y /\ Weekday(b) \in c /\ WorkingDays(b, y - 1, c) = n
    BY <1>2, SubtractWorkingDaysIs
  <2>2. a \in Int /\ a > x /\ Weekday(a) \in c /\ WorkingDays(x + 1, a, c) = n
    BY <1>2, AddWorkingDaysIs
  <2>3. b < x
    OBVIOUS
  <2> HIDE DEF a, b
  <2>4. WorkingDays(b + 1, y - 1, c) + 1 = n /\ WorkingDays(b + 1, y - 1, c) \in Nat
    BY <2>1, CountWorkingDays
  <2>5. WorkingDays(x, a, c) = n + 1
    BY <2>2, CountWorkingDays
  <2>6. WorkingDays(x, a - 1, c) = n
    <3>1. WorkingDays(x, a - 1, c) \in Nat /\ WorkingDays(x, a, c) = WorkingDays(x, a - 1, c) + 1
      BY <2>2, CountWorkingDays
    <3> QED
      BY <2>5, <3>1
  <2>7. ASSUME a <= y PROVE WorkingDays(x, a - 1, c) <= WorkingDays(b + 1, y - 1, c)
    BY <2>1, <2>2, <2>3, <2>7, WorkingDaysGrow
  <2>8. a > y
    BY <2>1, <2>2, <2>4, <2>6, <2>7
  <2> QED
    BY <2>8 DEF a
<1> QED
  BY <1>1, <1>2

\* A link asks for no earlier a day when its predecessor is later.
LEMMA EarliestMonotone ==
  ASSUME NEW c \in Weeks, NEW l \in TaskLink, NEW dur \in Nat \ {0},
         NEW p \in DatePair, NEW q \in DatePair, p.start <= q.start, p.finish <= q.finish
  PROVE  Earliest(l, p, dur, c) <= Earliest(l, q, dur, c)
<1>1. /\ p.start \in Int /\ p.finish \in Int /\ q.start \in Int /\ q.finish \in Int
      /\ l.lag \in Int /\ dur - 1 \in Nat /\ l.type \in {"FS", "SS", "FF", "SF"}
  BY DEF TaskLink, DatePair
<1>2. ASSUME NEW a \in Int, NEW b \in Int, a <= b
      PROVE  /\ NextWorkingDay(a, c) <= NextWorkingDay(b, c)
             /\ SubtractWorkingDays(a, dur - 1, c) <= SubtractWorkingDays(b, dur - 1, c)
  <2>1. AddWorkingDays(a, 0, c) <= AddWorkingDays(b, 0, c)
    BY <1>2, AddMonotone
  <2>2. SubtractWorkingDays(a, dur - 1, c) <= SubtractWorkingDays(b, dur - 1, c)
    BY <1>1, <1>2, SubtractMonotone
  <2> QED
    BY <2>1, <2>2 DEF AddWorkingDays
<1>3. /\ p.finish + 1 + l.lag \in Int /\ q.finish + 1 + l.lag \in Int
      /\ p.finish + 1 + l.lag <= q.finish + 1 + l.lag
      /\ p.start + l.lag \in Int /\ q.start + l.lag \in Int /\ p.start + l.lag <= q.start + l.lag
      /\ p.finish + l.lag \in Int /\ q.finish + l.lag \in Int /\ p.finish + l.lag <= q.finish + l.lag
  BY <1>1
<1>4. /\ NextWorkingDay(p.finish + 1 + l.lag, c) <= NextWorkingDay(q.finish + 1 + l.lag, c)
      /\ NextWorkingDay(p.start + l.lag, c) <= NextWorkingDay(q.start + l.lag, c)
      /\ SubtractWorkingDays(p.finish + l.lag, dur - 1, c)
           <= SubtractWorkingDays(q.finish + l.lag, dur - 1, c)
      /\ SubtractWorkingDays(p.start + l.lag, dur - 1, c)
           <= SubtractWorkingDays(q.start + l.lag, dur - 1, c)
  BY <1>2, <1>3
<1> QED
  BY <1>1, <1>4 DEF Earliest

(***************************************************************************)
(* The schedules float is exact for, and one of them with a task held back. *)
(***************************************************************************)

\* Nothing has begun, nothing is circular, and no link is of the kinds whose two
\* passes do not mirror each other.
Plain(s) ==
  /\ s \in Schedule /\ Stuck(s) = {}
  /\ \A t \in Tasks : ~Complete(s, t) /\ ~Running(s, t)
  /\ \A l \in s.links : l.type # "SF" /\ (l.type = "FF" => \A t \in Tasks : s.calendar[t] = 0 .. 6)

HeldAt(s, t, d) == [s EXCEPT !.not_before[t] = d]

\* Holding a task back changes nothing else about the schedule.
LEMMA HeldSchedule ==
  ASSUME NEW s, Plain(s), NEW t \in Tasks, NEW d \in Int
  PROVE  LET h == HeldAt(s, t, d) IN
         /\ Plain(h)
         /\ h.links = s.links /\ h.start = s.start /\ h.finish = s.finish
         /\ h.calendar = s.calendar /\ h.data_date = s.data_date
         /\ h.not_before[t] = d /\ \A u \in Tasks : u # t => h.not_before[u] = s.not_before[u]
         /\ ProjectStart(h) = ProjectStart(s)
         /\ \A u \in Tasks : Into(h, u) = Into(s, u) /\ Duration(h, u) = Duration(s, u)
<1> DEFINE h == HeldAt(s, t, d)
<1>1. /\ h \in Schedule
      /\ h.links = s.links /\ h.start = s.start /\ h.finish = s.finish
      /\ h.calendar = s.calendar /\ h.data_date = s.data_date /\ h.progress = s.progress
      /\ h.not_before[t] = d /\ \A u \in Tasks : u # t => h.not_before[u] = s.not_before[u]
  BY DEF Plain, HeldAt, Schedule, Optional
<1> HIDE DEF h
<1>2. \A u : Into(h, u) = Into(s, u)
  BY <1>1 DEF Into
<1>3. Stuck(h) = Stuck(s)
  BY <1>2 DEF Stuck
<1>4. \A u : (Complete(h, u) <=> Complete(s, u)) /\ (Running(h, u) <=> Running(s, u))
  BY <1>1 DEF Complete, Running
<1>5. ProjectStart(h) = ProjectStart(s)
  BY <1>1 DEF ProjectStart
<1>6. \A u : Duration(h, u) = Duration(s, u)
  BY <1>1 DEF Duration
<1>7. Plain(h)
  BY <1>1, <1>3, <1>4 DEF Plain
<1> QED
  BY <1>1, <1>2, <1>5, <1>6, <1>7 DEF h

\* The equations of the forward pass for a task that has not started.
LEMMA PlainEarly ==
  ASSUME NEW s, Plain(s), NEW t \in Tasks
  PROVE  LET e == Early(s)
             c == s.calendar[t]
             es == e[t].start
             n == Duration(s, t) - 1
         IN /\ c \in Weeks /\ n \in Nat /\ es \in Int /\ e[t].finish \in Int
            /\ e[t].finish = AddWorkingDays(es, n, c)
            /\ Weekday(e[t].finish) \in c
            /\ es >= s.data_date /\ s.data_date \in Int
            /\ s.not_before[t] # None => es >= NextWorkingDay(s.not_before[t], c)
            /\ Into(s, t) = {} => es >= NextWorkingDay(s.start[t], c)
            /\ Into(s, t) # {} => es >= ProjectStart(s) /\ ProjectStart(s) \in Int
            /\ \A l \in Into(s, t) : es >= Earliest(l, e[l.pred], Duration(s, t), c)
            /\ \/ es = s.data_date
               \/ s.not_before[t] # None /\ es = NextWorkingDay(s.not_before[t], c)
               \/ Into(s, t) = {} /\ es = NextWorkingDay(s.start[t], c)
               \/ Into(s, t) # {} /\ es = ProjectStart(s)
               \/ \E l \in Into(s, t) : es = Earliest(l, e[l.pred], Duration(s, t), c)
<1> DEFINE e == Early(s)
           c == s.calendar[t]
           n == Duration(s, t) - 1
           es == EarlyStart(s, e, t)
           a == AfterLinks(s, e, t)
<1>1. s \in Schedule /\ c \in Weeks /\ n \in Nat /\ Duration(s, t) \in Nat \ {0} /\ s.data_date \in Int
  BY DurationIs DEF Plain, Schedule
<1>2. e \in [Tasks -> DatePair] /\ e[t] = EarlyDates(s, e, t)
  BY <1>1, EarlyIs
<1>3. e[t].start = es /\ e[t].finish = AddWorkingDays(es, n, c)
  BY <1>2 DEF EarlyDates, Plain
<1> HIDE DEF e
<1>4. \A l \in Into(s, t) : PredDates(s, e, l.pred, t) = e[l.pred] /\ l \in TaskLink /\ e[l.pred] \in DatePair
  BY <1>1, <1>2, AcyclicUsesComputed, LinksIntoAre DEF Plain
<1>5. /\ es \in Int /\ es >= a /\ es >= s.data_date
      /\ s.not_before[t] # None => es >= NextWorkingDay(s.not_before[t], c)
      /\ \/ es \in {a, s.data_date}
         \/ s.not_before[t] # None /\ es = NextWorkingDay(s.not_before[t], c)
  BY <1>1, <1>2, EarlyStartIs
<1>6. /\ a \in Int
      /\ \A l \in Into(s, t) : a >= Earliest(l, e[l.pred], Duration(s, t), c)
      /\ Into(s, t) = {} => a = NextWorkingDay(s.start[t], c)
      /\ Into(s, t) # {} =>
           /\ a >= ProjectStart(s) /\ ProjectStart(s) \in Int
           /\ a = ProjectStart(s) \/ \E l \in Into(s, t) : a = Earliest(l, e[l.pred], Duration(s, t), c)
  BY <1>1, <1>2, <1>4, AfterLinksIs
<1>7. \A l \in Into(s, t) : Earliest(l, e[l.pred], Duration(s, t), c) \in Int
  BY <1>1, <1>4, EarliestIs
<1> HIDE DEF a, es, c, n
<1>8. AddWorkingDays(es, n, c) \in Int /\ Weekday(AddWorkingDays(es, n, c)) \in c
  BY <1>1, <1>5, CalendarSteps, EndsAreWorked
<1>9. \A l \in Into(s, t) : es >= Earliest(l, e[l.pred], Duration(s, t), c)
  BY <1>5, <1>6, <1>7
<1>10. Into(s, t) # {} => es >= ProjectStart(s) /\ ProjectStart(s) \in Int
  BY <1>5, <1>6
<1>11. Into(s, t) = {} => es >= NextWorkingDay(s.start[t], c)
  BY <1>5, <1>6
<1>12. \/ es = s.data_date
       \/ s.not_before[t] # None /\ es = NextWorkingDay(s.not_before[t], c)
       \/ Into(s, t) = {} /\ es = NextWorkingDay(s.start[t], c)
       \/ Into(s, t) # {} /\ es = ProjectStart(s)
       \/ \E l \in Into(s, t) : es = Earliest(l, e[l.pred], Duration(s, t), c)
  BY <1>5, <1>6
<1> QED
  BY <1>1, <1>3, <1>5, <1>8, <1>9, <1>10, <1>11, <1>12 DEF e, c, n

\* And those of the backward pass.
LEMMA PlainLate ==
  ASSUME NEW s, Plain(s), NEW t \in Tasks
  PROVE  LET e == Early(s)
             f == Late(s)
             c == s.calendar[t]
             n == Duration(s, t) - 1
         IN /\ f[t].start \in Int /\ f[t].finish \in Int
            /\ f[t].start = SubtractWorkingDays(f[t].finish, n, c)
            /\ Weekday(f[t].start) \in c
            /\ f[t].finish <= LastEnd(e, t)
            /\ \/ f[t].finish = LastEnd(e, t)
               \/ \E l \in OutOf(s, t) : f[t].finish = Latest(l, f[l.succ], Duration(s, t), c)
               \/ s.deadline[t] \in Int /\ f[t].finish = PrevWorkingDay(s.deadline[t], c)
<1> DEFINE e == Early(s)
           f == Late(s)
           c == s.calendar[t]
           n == Duration(s, t) - 1
           lf == LateFinish(s, e, f, t)
<1>1. s \in Schedule /\ c \in Weeks /\ n \in Nat
  BY DurationIs DEF Plain, Schedule
<1>2. e \in [Tasks -> DatePair] /\ f \in [Tasks -> DatePair] /\ f[t] = LateDates(s, e, f, t)
  BY <1>1, EarlyIs, LateIs
<1>3. f[t].start = SubtractWorkingDays(lf, n, c) /\ f[t].finish = lf
  BY <1>2 DEF LateDates, Plain
<1> HIDE DEF e, f
<1>4. \A l \in OutOf(s, t) : SuccDates(s, f, t, l.succ) = f[l.succ]
  BY AcyclicUsesComputed DEF Plain
<1>5. /\ lf \in Int /\ lf <= LastEnd(e, t)
      /\ \/ lf = LastEnd(e, t)
         \/ \E l \in OutOf(s, t) : lf = Latest(l, f[l.succ], Duration(s, t), c)
         \/ s.deadline[t] \in Int /\ lf = PrevWorkingDay(s.deadline[t], c)
  BY <1>1, <1>2, <1>4, LateFinishIs
<1> HIDE DEF lf, c, n
<1>6. SubtractWorkingDays(lf, n, c) \in Int /\ Weekday(SubtractWorkingDays(lf, n, c)) \in c
  BY <1>1, <1>5, CalendarSteps, EndsAreWorked
<1> QED
  BY <1>3, <1>5, <1>6 DEF e, f, c, n

\* Under one calendar what may finish late may finish on a day that is worked.
LEMMA LateFinishWorked ==
  ASSUME NEW s, Plain(s), \A t, u \in Tasks : s.calendar[t] = s.calendar[u], NEW t \in Tasks
  PROVE  Weekday(Late(s)[t].finish) \in s.calendar[t]
<1> DEFINE e == Early(s)
           f == Late(s)
           c == s.calendar[t]
<1>1. s \in Schedule /\ c \in Weeks /\ Duration(s, t) - 1 \in Nat
  BY DurationIs DEF Plain, Schedule
<1>2. e \in [Tasks -> DatePair] /\ f \in [Tasks -> DatePair]
  BY <1>1, EarlyIs, LateIs
<1>3. \/ f[t].finish = LastEnd(e, t)
      \/ \E l \in OutOf(s, t) : f[t].finish = Latest(l, f[l.succ], Duration(s, t), c)
      \/ s.deadline[t] \in Int /\ f[t].finish = PrevWorkingDay(s.deadline[t], c)
  BY PlainLate
<1>4. \A u \in Tasks : Weekday(e[u].finish) \in c
  BY PlainEarly
<1> HIDE DEF e, f
<1>5. CASE f[t].finish = LastEnd(e, t)
  <2>1. PICK u \in Tasks : e[u].finish = LastEnd(e, t)
    BY <1>2, LastEndIs
  <2> QED
    BY <1>4, <1>5, <2>1 DEF f
<1>6. CASE s.deadline[t] \in Int /\ f[t].finish = PrevWorkingDay(s.deadline[t], c)
  BY <1>1, <1>6, PrevWorkingDayIs DEF f
<1>7. ASSUME NEW l \in OutOf(s, t), f[t].finish = Latest(l, f[l.succ], Duration(s, t), c)
      PROVE  Weekday(f[t].finish) \in c
  <2> DEFINE q == f[l.succ]
  <2>1. /\ l \in TaskLink /\ l \in s.links /\ q \in DatePair /\ l.succ \in Tasks
    BY <1>1, <1>2, LinksIntoAre
  <2>2. q.start - 1 - l.lag \in Int /\ q.start - l.lag \in Int /\ f[t].finish \in Int
    BY <1>2, <2>1 DEF TaskLink, DatePair
  <2> HIDE DEF q
  <2>3. l.type \in {"FS", "SS", "FF"} /\ (l.type = "FF" => c = 0 .. 6)
    BY <2>1 DEF Plain, TaskLink
  <2> HIDE DEF c
  <2>4. CASE l.type = "FS"
    <3>1. f[t].finish = PrevWorkingDay(q.start - 1 - l.lag, c)
      BY <1>7, <2>4 DEF Latest, q
    <3> QED
      BY <1>1, <2>2, <3>1, PrevWorkingDayIs
  <2>5. CASE l.type = "SS"
    <3>1. f[t].finish = AddWorkingDays(PrevWorkingDay(q.start - l.lag, c), Duration(s, t) - 1, c)
      BY <1>7, <2>5 DEF Latest, q
    <3>2. PrevWorkingDay(q.start - l.lag, c) \in Int
      BY <1>1, <2>2, CalendarSteps
    <3> QED
      BY <1>1, <3>1, <3>2, EndsAreWorked
  <2>6. CASE l.type = "FF"
    BY <2>2, <2>3, <2>6 DEF Weekday
  <2> QED
    BY <2>3, <2>4, <2>5, <2>6
<1> QED
  BY <1>3, <1>5, <1>6, <1>7 DEF f

(***************************************************************************)
(* Held back to its late start, a task leaves the end where it is.          *)
(***************************************************************************)

\* Every task is as early as before, or no later than its late start.
LEMMA HeldIsEarlyOrInTime ==
  ASSUME NEW s, Plain(s), \A t, u \in Tasks : s.calendar[t] = s.calendar[u], NEW t \in Tasks
  PROVE  LET g == Early(HeldAt(s, t, Late(s)[t].start)) IN
         \A v \in Tasks : g[v].start <= Early(s)[v].start \/ g[v].start <= Late(s)[v].start
<1> DEFINE d == Late(s)[t].start
           h == HeldAt(s, t, d)
           e == Early(s)
           f == Late(s)
           g == Early(h)
           Bad == {v \in Tasks : ~(g[v].start <= e[v].start \/ g[v].start <= f[v].start)}
<1>1. d \in Int /\ Weekday(d) \in s.calendar[t]
  BY PlainLate
<1>2. /\ Plain(h) /\ h.calendar = s.calendar /\ h.data_date = s.data_date /\ h.start = s.start
      /\ h.not_before[t] = d /\ \A u \in Tasks : u # t => h.not_before[u] = s.not_before[u]
      /\ ProjectStart(h) = ProjectStart(s)
      /\ \A u \in Tasks : Into(h, u) = Into(s, u) /\ Duration(h, u) = Duration(s, u)
  <2> HIDE DEF d
  <2> QED
    BY <1>1, HeldSchedule
<1>3. s \in Schedule /\ h \in Schedule /\ Grounded(Feeds(h), Tasks)
  BY <1>2, FeedsGrounded DEF Plain
<1>4. SUFFICES ASSUME Bad # {} PROVE FALSE
  OBVIOUS
<1>5. PICK v \in Bad : \A u \in Bad : <<u, v>> \notin Feeds(h)
  <2> HIDE DEF g, h, e, f
  <2> QED
    BY <1>3, <1>4 DEF Grounded
<1> DEFINE c == s.calendar[v]
           n == Duration(s, v) - 1
           dur == Duration(s, v)
<1>6. /\ e \in [Tasks -> DatePair] /\ f \in [Tasks -> DatePair] /\ g \in [Tasks -> DatePair]
  BY <1>3, EarlyIs, LateIs
<1>7. /\ v \in Tasks /\ g[v].start \in Int /\ e[v].start \in Int /\ f[v].start \in Int
      /\ g[v].start > e[v].start /\ g[v].start > f[v].start
  BY <1>5, <1>6 DEF DatePair
<1>8. /\ c \in Weeks /\ n \in Nat /\ dur \in Nat \ {0}
      /\ Weekday(f[v].start) \in c /\ f[v].start = SubtractWorkingDays(f[v].finish, n, c)
  <2>1. Weekday(f[v].start) \in c /\ f[v].start = SubtractWorkingDays(f[v].finish, n, c)
    BY <1>7, PlainLate
  <2>2. c \in Weeks /\ dur \in Nat \ {0}
    BY <1>3, <1>7, DurationIs DEF Schedule
  <2> QED
    BY <2>1, <2>2
<1>9. /\ e[v].start >= s.data_date
      /\ s.not_before[v] # None => e[v].start >= NextWorkingDay(s.not_before[v], c)
      /\ Into(s, v) = {} => e[v].start >= NextWorkingDay(s.start[v], c)
      /\ Into(s, v) # {} => e[v].start >= ProjectStart(s)
      /\ \A l \in Into(s, v) : e[v].start >= Earliest(l, e[l.pred], dur, c)
  BY <1>7, PlainEarly
<1>10. \/ g[v].start = s.data_date
       \/ h.not_before[v] # None /\ g[v].start = NextWorkingDay(h.not_before[v], c)
       \/ Into(s, v) = {} /\ g[v].start = NextWorkingDay(s.start[v], c)
       \/ Into(s, v) # {} /\ g[v].start = ProjectStart(s)
       \/ \E l \in Into(s, v) : g[v].start = Earliest(l, g[l.pred], dur, c)
  BY <1>2, <1>7, PlainEarly
<1>11. g[v].start # s.data_date
  BY <1>3, <1>7, <1>9 DEF Schedule
<1>12. ~(Into(s, v) = {} /\ g[v].start = NextWorkingDay(s.start[v], c))
  BY <1>7, <1>9
<1>13. ~(Into(s, v) # {} /\ g[v].start = ProjectStart(s))
  BY <1>7, <1>9
<1>14. ~(h.not_before[v] # None /\ g[v].start = NextWorkingDay(h.not_before[v], c))
  <2>1. CASE v = t
    <3>1. NextWorkingDay(f[v].start, c) = f[v].start
      <4> HIDE DEF f, c
      <4> QED
        BY <1>7, <1>8, NextAndPrevAreNearest
    <3> QED
      BY <1>2, <1>7, <2>1, <3>1
  <2>2. CASE v # t
    BY <1>2, <1>7, <1>9, <2>2
  <2> QED
    BY <2>1, <2>2
<1>15. ASSUME NEW l \in Into(s, v) PROVE g[v].start # Earliest(l, g[l.pred], dur, c)
  <2> DEFINE p == l.pred
             m == Duration(s, p) - 1
             k == s.calendar[p]
  <2>1. /\ p \in Tasks /\ l \in TaskLink /\ l \in s.links /\ l.succ = v
        /\ e[p] \in DatePair /\ f[p] \in DatePair /\ g[p] \in DatePair
        /\ l.lag \in Int
    BY <1>3, <1>6, <1>7, LinksIntoAre DEF TaskLink
  <2>2. p \notin Bad
    <3>1. <<p, v>> \in Feeds(h)
      BY <1>2, <1>7, <2>1 DEF Feeds, Before, Plain
    <3> QED
      BY <1>5, <3>1
  <2>3. /\ k \in Weeks /\ m \in Nat
        /\ g[p].finish = AddWorkingDays(g[p].start, m, k)
        /\ e[p].finish = AddWorkingDays(e[p].start, m, k)
        /\ f[p].start = SubtractWorkingDays(f[p].finish, m, k)
        /\ Weekday(f[p].finish) \in k
    BY <1>2, <1>3, <2>1, PlainEarly, PlainLate, LateFinishWorked
  <2>4. g[p].start \in Int /\ g[p].finish \in Int /\ f[p].start \in Int /\ f[p].finish \in Int
        /\ e[p].start \in Int /\ e[p].finish \in Int /\ f[v].finish \in Int
    BY <1>6, <1>7, <2>1 DEF DatePair
  <2> HIDE DEF g, e, f, k, m, c, dur, n
  <2>5. CASE g[p].start <= e[p].start
    <3>1. g[p].finish <= e[p].finish
      BY <2>3, <2>4, <2>5, AddMonotone
    <3>2. Earliest(l, g[p], dur, c) <= Earliest(l, e[p], dur, c)
      BY <1>8, <2>1, <2>5, <3>1, EarliestMonotone
    <3>3. Earliest(l, g[p], dur, c) \in Int /\ Earliest(l, e[p], dur, c) \in Int
      BY <1>8, <2>1, EarliestIs
    <3> QED
      BY <1>7, <1>9, <3>2, <3>3
  <2>6. CASE g[p].start <= f[p].start
    <3>1. g[p].finish <= f[p].finish
      <4>1. AddWorkingDays(g[p].start, m, k) <= AddWorkingDays(f[p].start, m, k)
        BY <2>3, <2>4, <2>6, AddMonotone
      <4>2. AddWorkingDays(f[p].start, m, k) <= f[p].finish
        BY <2>3, <2>4, AddAfterSubtract
      <4>3. AddWorkingDays(f[p].start, m, k) \in Int
        BY <2>3, <2>4, CalendarSteps
      <4> QED
        BY <2>3, <2>4, <4>1, <4>2, <4>3
    <3>2. /\ l.type \in {"FS", "SS", "FF"}
          /\ l.type = "FS" => f[v].start > f[p].finish + l.lag
          /\ l.type = "SS" => f[v].start >= f[p].start + l.lag
          /\ l.type = "FF" => f[v].finish >= f[p].finish + l.lag
      BY <1>3, <2>1, LateKeepsLink DEF Plain, TaskLink, f
    <3>3. Earliest(l, g[p], dur, c) <= f[v].start
      <4>1. CASE l.type = "FS"
        <5> DEFINE b == g[p].finish + 1 + l.lag
        <5>1. b \in Int /\ f[v].start >= b
          BY <1>7, <2>1, <2>4, <3>1, <3>2, <4>1
        <5> HIDE DEF b
        <5>2. NextWorkingDay(b, c) <= f[v].start
          BY <1>7, <1>8, <5>1, NextAndPrevAreNearest
        <5> QED
          BY <4>1, <5>2 DEF Earliest, b
      <4>2. CASE l.type = "SS"
        <5> DEFINE b == g[p].start + l.lag
        <5>1. b \in Int /\ f[v].start >= b
          BY <1>7, <2>1, <2>4, <2>6, <3>2, <4>2
        <5> HIDE DEF b
        <5>2. NextWorkingDay(b, c) <= f[v].start
          BY <1>7, <1>8, <5>1, NextAndPrevAreNearest
        <5> QED
          BY <4>2, <5>2 DEF Earliest, b
      <4>3. CASE l.type = "FF"
        <5> DEFINE b == g[p].finish + l.lag
        <5>1. b \in Int /\ b <= f[v].finish
          BY <2>1, <2>4, <3>1, <3>2, <4>3
        <5> HIDE DEF b
        <5>2. SubtractWorkingDays(b, n, c) <= f[v].start
          BY <1>8, <2>4, <5>1, SubtractMonotone
        <5> QED
          BY <4>3, <5>2 DEF Earliest, b, n, dur
      <4> QED
        BY <3>2, <4>1, <4>2, <4>3
    <3>4. Earliest(l, g[p], dur, c) \in Int
      BY <1>8, <2>1, EarliestIs
    <3> QED
      BY <1>7, <3>3, <3>4
  <2> QED
    BY <2>1, <2>2, <2>5, <2>6
<1> QED
  BY <1>10, <1>11, <1>12, <1>13, <1>14, <1>15

\* And none is earlier, when the task had no date of its own to wait for.
LEMMA HeldIsNoEarlier ==
  ASSUME NEW s, Plain(s), NEW t \in Tasks, s.not_before[t] = None, NEW d \in Int
  PROVE  \A v \in Tasks : Early(s)[v].start <= Early(HeldAt(s, t, d))[v].start
<1> DEFINE h == HeldAt(s, t, d)
           e == Early(s)
           g == Early(h)
           Bad == {v \in Tasks : ~(e[v].start <= g[v].start)}
<1>1. /\ Plain(h) /\ h.calendar = s.calendar /\ h.data_date = s.data_date /\ h.start = s.start
      /\ \A u \in Tasks : u # t => h.not_before[u] = s.not_before[u]
      /\ ProjectStart(h) = ProjectStart(s)
      /\ \A u \in Tasks : Into(h, u) = Into(s, u) /\ Duration(h, u) = Duration(s, u)
  BY HeldSchedule
<1>2. s \in Schedule /\ h \in Schedule /\ Grounded(Feeds(s), Tasks)
  BY <1>1, FeedsGrounded DEF Plain
<1>3. SUFFICES ASSUME Bad # {} PROVE FALSE
  OBVIOUS
<1>4. PICK v \in Bad : \A u \in Bad : <<u, v>> \notin Feeds(s)
  <2> HIDE DEF g, h, e
  <2> QED
    BY <1>2, <1>3 DEF Grounded
<1> DEFINE c == s.calendar[v]
           dur == Duration(s, v)
<1>5. /\ e \in [Tasks -> DatePair] /\ g \in [Tasks -> DatePair]
  BY <1>2, EarlyIs
<1>6. v \in Tasks /\ g[v].start \in Int /\ e[v].start \in Int /\ e[v].start > g[v].start
  BY <1>4, <1>5 DEF DatePair
<1>7. c \in Weeks /\ dur \in Nat \ {0} /\ s.data_date \in Int
  BY <1>2, <1>6, DurationIs DEF Schedule
<1>8. /\ g[v].start >= s.data_date
      /\ h.not_before[v] # None => g[v].start >= NextWorkingDay(h.not_before[v], c)
      /\ Into(s, v) = {} => g[v].start >= NextWorkingDay(s.start[v], c)
      /\ Into(s, v) # {} => g[v].start >= ProjectStart(s)
      /\ \A l \in Into(s, v) : g[v].start >= Earliest(l, g[l.pred], dur, c)
  BY <1>1, <1>6, PlainEarly
<1>9. \/ e[v].start = s.data_date
      \/ s.not_before[v] # None /\ e[v].start = NextWorkingDay(s.not_before[v], c)
      \/ Into(s, v) = {} /\ e[v].start = NextWorkingDay(s.start[v], c)
      \/ Into(s, v) # {} /\ e[v].start = ProjectStart(s)
      \/ \E l \in Into(s, v) : e[v].start = Earliest(l, e[l.pred], dur, c)
  BY <1>6, PlainEarly
<1>10. s.not_before[v] # None => h.not_before[v] = s.not_before[v]
  BY <1>1, <1>6
<1>11. ASSUME NEW l \in Into(s, v) PROVE e[v].start # Earliest(l, e[l.pred], dur, c)
  <2> DEFINE p == l.pred
             m == Duration(s, p) - 1
             k == s.calendar[p]
  <2>1. /\ p \in Tasks /\ l \in TaskLink
        /\ e[p] \in DatePair /\ g[p] \in DatePair
    BY <1>2, <1>5, <1>6, LinksIntoAre
  <2>2. p \notin Bad
    <3>1. <<p, v>> \in Feeds(s)
      BY <1>6, <2>1 DEF Feeds, Before, Plain
    <3> QED
      BY <1>4, <3>1
  <2>3. /\ k \in Weeks /\ m \in Nat
        /\ g[p].finish = AddWorkingDays(g[p].start, m, k)
        /\ e[p].finish = AddWorkingDays(e[p].start, m, k)
    BY <1>1, <2>1, PlainEarly
  <2>4. g[p].start \in Int /\ e[p].start \in Int /\ e[p].start <= g[p].start
    BY <2>1, <2>2 DEF DatePair
  <2> HIDE DEF g, e, k, m, c, dur
  <2>5. e[p].finish <= g[p].finish
    BY <2>3, <2>4, AddMonotone
  <2>6. Earliest(l, e[p], dur, c) <= Earliest(l, g[p], dur, c)
    BY <1>7, <2>1, <2>4, <2>5, EarliestMonotone
  <2>7. Earliest(l, g[p], dur, c) \in Int /\ Earliest(l, e[p], dur, c) \in Int
    BY <1>7, <2>1, EarliestIs
  <2> QED
    BY <1>6, <1>8, <2>6, <2>7
<1> QED
  BY <1>6, <1>7, <1>8, <1>9, <1>10, <1>11

\* The end of the project is that of its last task.
LEMMA ProjectEndIs ==
  ASSUME NEW s \in Schedule, NEW t \in Tasks
  PROVE  ProjectEnd(s) = LastEnd(Early(s), t)
BY DEF ProjectEnd, LastEnd

\* With one calendar, a task without a constraint of its own can be held to its
\* late start and the project still ends when it did.
LEMMA HeldToLateStart ==
  ASSUME NEW s, Plain(s), \A t, u \in Tasks : s.calendar[t] = s.calendar[u],
         NEW t \in Tasks, s.not_before[t] = None
  PROVE  ProjectEnd(HeldAt(s, t, Late(s)[t].start)) = ProjectEnd(s)
<1> DEFINE d == Late(s)[t].start
           h == HeldAt(s, t, d)
           e == Early(s)
           f == Late(s)
           g == Early(h)
<1>1. d \in Int
  BY PlainLate
<1>2. /\ Plain(h) /\ h.calendar = s.calendar
      /\ \A u \in Tasks : Duration(h, u) = Duration(s, u)
  <2> HIDE DEF d
  <2> QED
    BY <1>1, HeldSchedule
<1>3. s \in Schedule /\ h \in Schedule
  BY <1>2 DEF Plain
<1>4. e \in [Tasks -> DatePair] /\ f \in [Tasks -> DatePair] /\ g \in [Tasks -> DatePair]
  BY <1>3, EarlyIs, LateIs
<1>5. \A v \in Tasks : g[v].start <= e[v].start \/ g[v].start <= f[v].start
  BY HeldIsEarlyOrInTime
<1>6. \A v \in Tasks : e[v].start <= g[v].start
  <2> HIDE DEF d
  <2> QED
    BY <1>1, HeldIsNoEarlier
<1>7. ProjectEnd(s) = LastEnd(e, t) /\ ProjectEnd(h) = LastEnd(g, t)
  BY <1>3, ProjectEndIs
<1>8. ASSUME NEW v \in Tasks PROVE g[v].finish <= LastEnd(e, t) /\ e[v].finish <= g[v].finish
  <2> DEFINE k == s.calendar[v]
             m == Duration(s, v) - 1
  <2>1. /\ k \in Weeks /\ m \in Nat
        /\ g[v].finish = AddWorkingDays(g[v].start, m, k)
        /\ e[v].finish = AddWorkingDays(e[v].start, m, k)
    BY <1>2, PlainEarly
  <2>2. /\ f[v].start = SubtractWorkingDays(f[v].finish, m, k)
        /\ Weekday(f[v].finish) \in k
        /\ f[v].finish <= LastEnd(e, v)
    BY PlainLate, LateFinishWorked
  <2>3. LastEnd(e, v) = LastEnd(e, t) /\ LastEnd(e, t) \in Int /\ e[v].finish <= LastEnd(e, t)
    BY <1>4, LastEndIs DEF LastEnd
  <2>4. /\ g[v].start \in Int /\ e[v].start \in Int /\ f[v].start \in Int
        /\ g[v].finish \in Int /\ e[v].finish \in Int /\ f[v].finish \in Int
    BY <1>4 DEF DatePair
  <2> HIDE DEF e, f, g, k, m
  <2>5. e[v].finish <= g[v].finish
    BY <1>6, <2>1, <2>4, AddMonotone
  <2>6. CASE g[v].start <= e[v].start
    <3>1. g[v].finish <= e[v].finish
      BY <2>1, <2>4, <2>6, AddMonotone
    <3> QED
      BY <2>3, <2>4, <2>5, <3>1
  <2>7. CASE g[v].start <= f[v].start
    <3>1. g[v].finish <= AddWorkingDays(f[v].start, m, k)
      BY <2>1, <2>4, <2>7, AddMonotone
    <3>2. AddWorkingDays(f[v].start, m, k) <= f[v].finish
      BY <2>1, <2>2, <2>4, AddAfterSubtract
    <3>3. AddWorkingDays(f[v].start, m, k) \in Int
      BY <2>1, <2>4, CalendarSteps
    <3> QED
      BY <2>2, <2>3, <2>4, <2>5, <3>1, <3>2, <3>3
  <2> QED
    BY <1>5, <2>6, <2>7
<1> HIDE DEF e, f, g
<1>9. /\ LastEnd(e, t) \in Int /\ LastEnd(g, t) \in Int
      /\ \E u \in Tasks : e[u].finish = LastEnd(e, t)
      /\ \E u \in Tasks : g[u].finish = LastEnd(g, t)
      /\ \A u \in Tasks : g[u].finish <= LastEnd(g, t)
  BY <1>4, LastEndIs
<1>10. \A u \in Tasks : g[u].finish \in Int /\ e[u].finish \in Int
  BY <1>4 DEF DatePair
<1>11. LastEnd(g, t) <= LastEnd(e, t)
  BY <1>8, <1>9
<1>12. LastEnd(e, t) <= LastEnd(g, t)
  BY <1>8, <1>9, <1>10
<1> QED
  BY <1>7, <1>9, <1>11, <1>12 DEF h, d

(***************************************************************************)
(* A day later, it moves the end.                                           *)
(***************************************************************************)

\* Whatever else holds a task past its late start on a day that is worked moves
\* the end of the project: the delay is passed on to a successor, and so on.
LEMMA PastLateStart ==
  ASSUME NEW s, Plain(s), \A t \in Tasks : s.deadline[t] = None,
         NEW t \in Tasks, NEW d \in Int
  PROVE  LET g == Early(HeldAt(s, t, d)) IN
         \A v \in Tasks :
           (\E x \in Int : /\ Weekday(x) \in s.calendar[v]
                           /\ x > Late(s)[v].start /\ x <= g[v].start)
           => \E u \in Tasks : g[u].finish > LastEnd(Early(s), t)
<1> DEFINE h == HeldAt(s, t, d)
           e == Early(s)
           f == Late(s)
           g == Early(h)
           Moved == \E u \in Tasks : g[u].finish > LastEnd(e, t)
           Past(v) == \E x \in Int : /\ Weekday(x) \in s.calendar[v]
                                     /\ x > f[v].start /\ x <= g[v].start
           Bad == {v \in Tasks : Past(v)}
<1>1. /\ Plain(h) /\ h.calendar = s.calendar
      /\ \A u \in Tasks : Into(h, u) = Into(s, u) /\ Duration(h, u) = Duration(s, u)
  BY HeldSchedule
<1>2. s \in Schedule /\ h \in Schedule /\ Grounded(Limits(s), Tasks)
  BY <1>1, LimitsGrounded DEF Plain
<1>3. SUFFICES ASSUME ~Moved, Bad # {} PROVE FALSE
  OBVIOUS
<1>4. PICK v \in Bad : \A u \in Bad : <<u, v>> \notin Limits(s)
  <2> HIDE DEF g, h, e, f, Past
  <2> QED
    BY <1>2, <1>3 DEF Grounded
<1>5. PICK x \in Int : Weekday(x) \in s.calendar[v] /\ x > f[v].start /\ x <= g[v].start
  BY <1>4
<1> DEFINE c == s.calendar[v]
           n == Duration(s, v) - 1
           lf == f[v].finish
           z == LastEnd(e, t)
<1>6. /\ e \in [Tasks -> DatePair] /\ f \in [Tasks -> DatePair] /\ g \in [Tasks -> DatePair]
  BY <1>2, EarlyIs, LateIs
<1>7. /\ v \in Tasks /\ g[v].start \in Int /\ g[v].finish \in Int /\ f[v].start \in Int /\ lf \in Int
      /\ z \in Int /\ LastEnd(e, v) = z
  BY <1>4, <1>6, LastEndIs DEF DatePair, LastEnd
<1>8. /\ c \in Weeks /\ n \in Nat
      /\ g[v].finish = AddWorkingDays(g[v].start, n, c) /\ Weekday(g[v].finish) \in c
  BY <1>1, <1>7, PlainEarly
<1>9. /\ f[v].start = SubtractWorkingDays(lf, n, c)
      /\ \/ lf = z
         \/ \E l \in OutOf(s, v) : lf = Latest(l, f[l.succ], Duration(s, v), c)
  <2>1. s.deadline[v] \notin Int
    BY <1>7, NoneIsNoDate
  <2> QED
    BY <1>7, <2>1, PlainLate
<1> HIDE DEF c, n, lf, z, e, f, g, h
<1>10. AddWorkingDays(x, n, c) > lf /\ AddWorkingDays(x, n, c) \in Int
  BY <1>5, <1>7, <1>8, <1>9, AddPastSubtract, CalendarSteps DEF c
<1>11. AddWorkingDays(x, n, c) <= g[v].finish
  BY <1>5, <1>7, <1>8, AddMonotone
<1>12. g[v].finish > lf
  BY <1>7, <1>10, <1>11
<1>13. lf # z
  BY <1>3, <1>7, <1>12 DEF z
<1>14. ASSUME NEW l \in OutOf(s, v) PROVE lf # Latest(l, f[l.succ], Duration(s, v), c)
  <2> DEFINE w == l.succ
             k == s.calendar[w]
             m == Duration(s, w) - 1
             dur == Duration(s, w)
  <2>1. /\ w \in Tasks /\ l \in TaskLink /\ l \in s.links /\ l.pred = v /\ l.lag \in Int
        /\ l \in Into(s, w)
        /\ l.type \in {"FS", "SS", "FF"} /\ (l.type = "FF" => k = 0 .. 6)
    <3>1. w \in Tasks /\ l \in TaskLink /\ l \in s.links /\ l.pred = v
      BY <1>2, <1>7, LinksIntoAre
    <3>2. l \in Into(s, w)
      BY <3>1 DEF Into
    <3>3. l.lag \in Int /\ l.type \in {"FS", "SS", "FF", "SF"}
      BY <3>1 DEF TaskLink
    <3>4. l.type # "SF" /\ (l.type = "FF" => k = 0 .. 6)
      BY <3>1 DEF Plain
    <3> QED
      BY <3>1, <3>2, <3>3, <3>4
  <2>2. ~Past(w)
    <3>1. <<w, v>> \in Limits(s)
      BY <1>7, <2>1 DEF Limits, Before, Plain
    <3> HIDE DEF Past
    <3> QED
      BY <1>4, <2>1, <3>1
  <2>3. /\ f[w].start \in Int /\ f[w].finish \in Int /\ g[w].start \in Int
    BY <1>6, <2>1 DEF DatePair
  <2>4. /\ k \in Weeks /\ m \in Nat /\ dur \in Nat \ {0}
        /\ g[w].start >= Earliest(l, g[v], dur, k)
        /\ f[w].start = SubtractWorkingDays(f[w].finish, m, k)
    <3>1. k \in Weeks /\ m \in Nat /\ g[w].start >= Earliest(l, g[v], dur, k)
      BY <1>1, <2>1, PlainEarly DEF g
    <3>2. f[w].start = SubtractWorkingDays(f[w].finish, m, k)
      BY <2>1, PlainLate DEF f
    <3>3. dur \in Nat \ {0}
      BY <1>2, <2>1, DurationIs
    <3> QED
      BY <3>1, <3>2, <3>3
  <2>5. ASSUME NEW y \in Int, Weekday(y) \in k, y > f[w].start, y <= g[w].start PROVE FALSE
    BY <2>2, <2>5
  <2> HIDE DEF Past, k, m, dur
  <2> SUFFICES ASSUME lf = Latest(l, f[w], Duration(s, v), c) PROVE FALSE
    OBVIOUS
  <2>6. CASE l.type = "FS"
    <3> DEFINE b == f[w].start - 1 - l.lag
               a == g[v].finish + 1 + l.lag
               y == NextWorkingDay(a, k)
    <3>1. a \in Int /\ b \in Int
      BY <1>7, <2>1, <2>3
    <3>2. lf = PrevWorkingDay(b, c)
      BY <2>6 DEF Latest
    <3>3. g[v].finish <= b => g[v].finish <= lf
      <4> HIDE DEF b
      <4> QED
        BY <1>7, <1>8, <3>1, <3>2, NextAndPrevAreNearest
    <3>4. a > f[w].start
      BY <1>7, <1>12, <2>1, <2>3, <3>3
    <3>5. Earliest(l, g[v], dur, k) = y
      BY <2>6 DEF Earliest
    <3> HIDE DEF a
    <3>6. y \in Int /\ y >= a /\ Weekday(y) \in k
      BY <2>4, <3>1, NextWorkingDayIs, CalendarSteps
    <3> HIDE DEF y
    <3> QED
      BY <2>3, <2>4, <2>5, <3>1, <3>4, <3>5, <3>6
  <2>7. CASE l.type = "SS"
    <3> DEFINE b == f[w].start - l.lag
               q == PrevWorkingDay(b, c)
               a == g[v].start + l.lag
               y == NextWorkingDay(a, k)
    <3>1. a \in Int /\ b \in Int
      BY <1>7, <2>1, <2>3
    <3>2. lf = AddWorkingDays(q, n, c)
      BY <2>7 DEF Latest, n
    <3>3. q \in Int /\ (x <= b => x <= q)
      <4> HIDE DEF b
      <4> QED
        BY <1>5, <1>8, <3>1, CalendarSteps, NextAndPrevAreNearest DEF c
    <3>4. x > q
      <4> HIDE DEF q
      <4>1. x <= q => AddWorkingDays(x, n, c) <= AddWorkingDays(q, n, c)
        BY <1>8, <3>3, AddMonotone
      <4> QED
        BY <1>7, <1>10, <3>2, <3>3, <4>1
    <3>5. a > f[w].start
      <4>1. x > b
        <5> HIDE DEF q
        <5> QED
          BY <3>1, <3>3, <3>4
      <4> QED
        BY <1>5, <1>7, <2>1, <2>3, <4>1
    <3>6. Earliest(l, g[v], dur, k) = y
      BY <2>7 DEF Earliest
    <3> HIDE DEF a
    <3>7. y \in Int /\ y >= a /\ Weekday(y) \in k
      BY <2>4, <3>1, NextWorkingDayIs, CalendarSteps
    <3> HIDE DEF y
    <3> QED
      BY <2>3, <2>4, <2>5, <3>1, <3>5, <3>6, <3>7
  <2>8. CASE l.type = "FF"
    <3> DEFINE a == g[v].finish + l.lag
    <3>1. lf = f[w].finish - l.lag
      BY <2>8 DEF Latest
    <3>2. a \in Int /\ a > f[w].finish
      BY <1>7, <1>12, <2>1, <2>3, <3>1
    <3>3. Earliest(l, g[v], dur, k) = SubtractWorkingDays(a, m, k)
      BY <2>8 DEF Earliest, m, dur
    <3> HIDE DEF a
    <3>4. SubtractWorkingDays(a, m, k) = a - m /\ f[w].start = f[w].finish - m
      BY <2>1, <2>3, <2>4, <2>8, <3>2, EveryDayWorked
    <3>5. g[w].start > f[w].start
      BY <2>3, <2>4, <3>2, <3>3, <3>4
    <3>6. Weekday(g[w].start) \in k
      BY <2>1, <2>3, <2>8 DEF Weekday
    <3> QED
      BY <2>3, <2>5, <3>5, <3>6
  <2> QED
    BY <2>1, <2>6, <2>7, <2>8
<1> QED
  BY <1>9, <1>13, <1>14

\* Without deadlines, holding a task one day past its late start moves the end of
\* the project: the late start is the last day that does not.
LEMMA HeldPastLateStart ==
  ASSUME NEW s, Plain(s), \A t \in Tasks : s.deadline[t] = None, NEW t \in Tasks
  PROVE  ProjectEnd(HeldAt(s, t, Late(s)[t].start + 1)) > ProjectEnd(s)
<1> DEFINE L == Late(s)[t].start
           d == L + 1
           h == HeldAt(s, t, d)
           e == Early(s)
           g == Early(h)
           c == s.calendar[t]
           x == NextWorkingDay(d, c)
<1>1. L \in Int /\ d \in Int
  BY PlainLate
<1>2. Plain(h) /\ h.calendar = s.calendar /\ h.not_before[t] = d
  <2> HIDE DEF d
  <2> QED
    BY <1>1, HeldSchedule
<1>3. s \in Schedule /\ h \in Schedule /\ d # None
  BY <1>1, <1>2, NoneIsNoDate DEF Plain
<1>4. g[t].start >= x /\ c \in Weeks
  <2> HIDE DEF d
  <2> QED
    BY <1>2, <1>3, PlainEarly
<1>5. x \in Int /\ x >= d /\ Weekday(x) \in c
  <2> HIDE DEF d, c
  <2> QED
    BY <1>1, <1>4, NextWorkingDayIs, CalendarSteps
<1>6. e \in [Tasks -> DatePair] /\ g \in [Tasks -> DatePair]
  BY <1>3, EarlyIs
<1>7. x > L /\ x <= g[t].start
  <2>1. g[t].start \in Int
    BY <1>6 DEF DatePair
  <2> HIDE DEF x, g, L
  <2> QED
    BY <1>1, <1>4, <1>5, <2>1
<1>8. PICK u \in Tasks : g[u].finish > LastEnd(e, t)
  <2> HIDE DEF x, d
  <2> QED
    BY <1>1, <1>5, <1>7, PastLateStart
<1>9. ProjectEnd(s) = LastEnd(e, t) /\ ProjectEnd(h) = LastEnd(g, t)
  BY <1>3, ProjectEndIs
<1> HIDE DEF e, g
<1>10. LastEnd(e, t) \in Int /\ LastEnd(g, t) \in Int /\ g[u].finish <= LastEnd(g, t) /\ g[u].finish \in Int
  BY <1>6, LastEndIs DEF DatePair
<1>11. LastEnd(g, t) > LastEnd(e, t)
  BY <1>8, <1>10
<1> QED
  BY <1>9, <1>11

\* Total float is exact on every schedule that is plain, however large: a task
\* held to its late start leaves the end of the project, one day more moves it.
THEOREM FloatIsCorrect == CPMSpec => []FloatIsExact
<1>1. ComputedByPasses => FloatIsExact
  <2> SUFFICES ASSUME ComputedByPasses, computed # <<>>, Acyclic,
                      \A t \in Tasks : NotStarted(t), "SF" \notin LinkTypes,
                      "FF" \in LinkTypes => \A t \in Tasks : EveryDay(t),
                      NEW t \in Tasks
               PROVE  LET Held(u, d) == ProjectEnd([stored EXCEPT !.not_before[u] = d])
                          late == computed.late[t].start
                      IN /\ OneCalendar /\ stored.not_before[t] = None =>
                              Held(t, late) = ProjectEnd(stored)
                         /\ NoDeadlines => Held(t, late + 1) > ProjectEnd(stored)
    BY DEF FloatIsExact
  <2>1. computed.late = Late(stored)
    BY DEF ComputedByPasses
  <2>2. Plain(stored)
    <3>1. \A l \in stored.links : l.type \in LinkTypes
      BY DEF LinkTypes
    <3> QED
      BY <3>1 DEF Plain, ComputedByPasses, Acyclic, NotStarted, EveryDay
  <2>3. OneCalendar /\ stored.not_before[t] = None =>
          ProjectEnd(HeldAt(stored, t, Late(stored)[t].start)) = ProjectEnd(stored)
    BY <2>2, HeldToLateStart DEF OneCalendar
  <2>4. NoDeadlines => ProjectEnd(HeldAt(stored, t, Late(stored)[t].start + 1)) > ProjectEnd(stored)
    BY <2>2, HeldPastLateStart DEF NoDeadlines
  <2> QED
    BY <2>1, <2>3, <2>4 DEF HeldAt
<1> QED
  BY <1>1, ComputedByPassesInvariant, PTL
=============================================================================
