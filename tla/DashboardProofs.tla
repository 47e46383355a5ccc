-------------------------- MODULE DashboardProofs ---------------------------
(***************************************************************************)
(* Theorems about the pages of a list, for any page size, rows and filter, *)
(* while rows come and go between the two queries of a page and between    *)
(* the pages of a walk.                                                    *)
(***************************************************************************)
EXTENDS Dashboard, FiniteSetTheorems, TLAPS

\* Pages of PageSize rows, in numbers.
LEMMA Products ==
  /\ \A n \in Nat : n * PageSize \in Nat
  /\ \A n, m \in Nat : n < m => n * PageSize + PageSize <= m * PageSize
  /\ \A n \in Nat : (n + 1) * PageSize = n * PageSize + PageSize
  /\ PageSize \in Nat \ {0}
<1> USE RowsOK
<1>1. \A n \in Nat : n * PageSize \in Nat
  OBVIOUS
<1>2. \A n, m \in Nat : n < m => n * PageSize + PageSize <= m * PageSize
  <2> SUFFICES ASSUME NEW n \in Nat, NEW m \in Nat, n < m PROVE n * PageSize + PageSize <= m * PageSize
    OBVIOUS
  <2>1. PICK k \in Nat : m = n + 1 + k
    <3>1. m - n - 1 \in Nat /\ m = n + 1 + (m - n - 1)
      OBVIOUS
    <3>2. QED
      BY <3>1
  <2>2. m * PageSize = n * PageSize + PageSize + k * PageSize
    BY <2>1
  <2>3. k * PageSize \in Nat /\ n * PageSize \in Nat
    BY <1>1
  <2>4. QED
    BY <2>2, <2>3
<1>3. \A n \in Nat : (n + 1) * PageSize = n * PageSize + PageSize
  OBVIOUS
<1>4. QED
  BY <1>1, <1>2, <1>3

\* TotalPages holds all rows, and each of its pages one at least.
LEMMA PagesFit ==
  ASSUME NEW c \in Nat
  PROVE  /\ TotalPages(c) \in Nat \ {0}
         /\ c <= TotalPages(c) * PageSize
         /\ \A n \in Nat : n < TotalPages(c) /\ n # 0 => n * PageSize < c
<1> DEFINE q == c \div PageSize  r == c % PageSize  T == TotalPages(c)
<1>1. q \in Nat /\ r \in 0..(PageSize - 1) /\ c = q * PageSize + r
  BY RowsOK
<1> HIDE DEF q, r
<1>2. T = IF c <= 0 THEN 1 ELSE q + (IF r # 0 THEN 1 ELSE 0)
  BY DEF TotalPages, q, r
<1> HIDE DEF T
<1>3. CASE c = 0
  <2>1. T = 1 /\ 1 * PageSize \in Nat
    BY <1>2, <1>3, Products
  <2>2. QED
    BY <1>3, <2>1 DEF T
<1>4. CASE c # 0 /\ r # 0
  <2>1. T = q + 1
    BY <1>1, <1>2, <1>4
  <2>2. T * PageSize = q * PageSize + PageSize
    BY <1>1, <2>1, Products
  <2>3. \A n \in Nat : n < T => n * PageSize <= q * PageSize
    <3> SUFFICES ASSUME NEW n \in Nat, n < T PROVE n * PageSize <= q * PageSize
      OBVIOUS
    <3>1. n = q \/ n < q
      BY <1>1, <2>1
    <3>2. n * PageSize \in Nat /\ q * PageSize \in Nat
      BY <1>1, Products
    <3>3. QED
      BY <1>1, <3>1, <3>2, Products
  <2>4. q * PageSize \in Nat /\ \A n \in Nat : n * PageSize \in Nat
    BY <1>1, Products
  <2>5. \A n \in Nat : n < T => n * PageSize < c
    BY <1>1, <1>4, <2>3, <2>4, Products
  <2>6. c <= T * PageSize
    BY <1>1, <2>2, <2>4, Products
  <2>7. QED
    BY <1>1, <2>1, <2>5, <2>6 DEF T
<1>5. CASE c # 0 /\ r = 0
  <2>1. T = q /\ c = q * PageSize /\ q * PageSize \in Nat
    BY <1>1, <1>2, <1>5, Products
  <2>2. q # 0
    BY <1>5, <2>1, Products
  <2>3. \A n \in Nat : n < T => n * PageSize < c
    <3> SUFFICES ASSUME NEW n \in Nat, n < q PROVE n * PageSize < q * PageSize
      BY <2>1
    <3>1. n * PageSize + PageSize <= q * PageSize /\ n * PageSize \in Nat
      BY <1>1, Products
    <3>2. QED
      BY <2>1, <3>1, Products
  <2>4. QED
    BY <1>1, <2>1, <2>2, <2>3 DEF T
<1>6. QED
  BY <1>1, <1>3, <1>4, <1>5 DEF T

\* More rows do not make fewer pages.
LEMMA PagesGrow ==
  ASSUME NEW c \in Nat, NEW d \in Nat, c <= d
  PROVE  TotalPages(c) <= TotalPages(d)
<1> DEFINE S == TotalPages(c)  T == TotalPages(d)
<1>1. S \in Nat \ {0} /\ T \in Nat \ {0} /\ d <= T * PageSize
      /\ (T < S => T * PageSize < c)
  BY PagesFit
<1>2. T * PageSize \in Nat
  BY <1>1, Products
<1> HIDE DEF S, T
<1>3. S <= T
  BY <1>1, <1>2
<1>4. QED
  BY <1>3 DEF S, T

\* The sizes of a set of entries and of a part of it.
LEMMA Sizes ==
  ASSUME NEW S \in SUBSET Ids, NEW T \in SUBSET S
  PROVE  /\ Cardinality(S) \in Nat /\ Cardinality(T) \in Nat
         /\ Cardinality(T) <= Cardinality(S)
         /\ Cardinality(T) = Cardinality(S) => T = S
         /\ T # S => Cardinality(T) < Cardinality(S)
         /\ Cardinality(S \ T) = Cardinality(S) - Cardinality(T)
<1>1. IsFiniteSet(S)
  BY RowsOK, FS_Subset
<1>2. IsFiniteSet(T)
  BY <1>1, FS_Subset
<1>3. Cardinality(S \cap T) = Cardinality(T) /\ S \ T \in SUBSET S
  <2>1. S \cap T = T
    OBVIOUS
  <2>2. QED
    BY <2>1
<1>4. Cardinality(S \ T) = Cardinality(S) - Cardinality(S \cap T)
  BY <1>1, FS_Difference
<1>5. /\ Cardinality(S) \in Nat /\ Cardinality(T) \in Nat
      /\ Cardinality(T) <= Cardinality(S)
      /\ Cardinality(T) = Cardinality(S) => T = S
  BY <1>1, <1>2, FS_CardinalityType, FS_Subset
<1>6. T # S => Cardinality(T) < Cardinality(S)
  BY <1>5
<1>7. QED
  BY <1>3, <1>4, <1>5, <1>6

\* LIMIT and OFFSET: how many rows lie before a page, and how many are on it.
LEMMA PageIsLong ==
  ASSUME TypeOK, NEW before, NEW rows, NEW n \in Nat, Lists(before, rows, n * PageSize)
  PROVE  /\ before \in SUBSET List /\ rows \in SUBSET (List \ before)
         /\ Cardinality(List) \in Nat /\ Cardinality(before) \in Nat
         /\ n * PageSize < Cardinality(List) =>
              Cardinality(before) = n * PageSize /\ rows # {}
         /\ n * PageSize >= Cardinality(List) => before = List
         /\ n * PageSize + PageSize <= Cardinality(List) => Cardinality(rows) = PageSize
         /\ rows # List \ before => Cardinality(rows) = PageSize
<1> DEFINE rest == List \ before
<1>1. /\ List \in SUBSET Ids /\ before \in SUBSET List /\ rows \in SUBSET rest
      /\ rest \in SUBSET Ids
      /\ Cardinality(rows) <= PageSize
      /\ rows # rest => Cardinality(rows) = PageSize
      /\ Cardinality(before) = IF n * PageSize < Cardinality(List) THEN n * PageSize ELSE Cardinality(List)
  BY DEF Lists, IsPage, TypeOK, List
<1>2. /\ Cardinality(List) \in Nat /\ Cardinality(before) \in Nat
      /\ Cardinality(before) = Cardinality(List) => before = List
      /\ Cardinality(rest) = Cardinality(List) - Cardinality(before)
  BY <1>1, Sizes
<1>3. Cardinality({}) = 0 /\ Cardinality(rows) \in Nat
      /\ n * PageSize \in Nat /\ PageSize \in Nat \ {0}
  <2>1. Cardinality({}) = 0
    BY FS_EmptySet
  <2>2. Cardinality(rows) \in Nat
    BY <1>1, Sizes
  <2>3. QED
    BY <2>1, <2>2, Products
<1> HIDE DEF rest
<1>4. ASSUME n * PageSize < Cardinality(List)
      PROVE  Cardinality(before) = n * PageSize /\ rows # {}
  <2>1. Cardinality(before) = n * PageSize /\ Cardinality(rest) > 0
    BY <1>1, <1>2, <1>3, <1>4
  <2>2. ASSUME rows = {} PROVE FALSE
    <3>1. Cardinality(rows) = 0
      BY <1>3, <2>2
    <3>2. rows = rest
      BY <1>1, <1>3, <3>1
    <3>3. Cardinality(rest) = 0
      BY <3>1, <3>2
    <3>4. QED
      BY <2>1, <3>3
  <2>3. QED
    BY <2>1, <2>2
<1>5. ASSUME n * PageSize >= Cardinality(List)
      PROVE  before = List
  BY <1>1, <1>2, <1>3, <1>5
<1>6. ASSUME n * PageSize + PageSize <= Cardinality(List)
      PROVE  Cardinality(rows) = PageSize
  <2>1. Cardinality(rest) >= PageSize
    <3>1. Cardinality(before) = n * PageSize
      BY <1>2, <1>3, <1>4, <1>6
    <3>2. QED
      BY <1>2, <1>3, <1>6, <3>1
  <2>2. QED
    BY <1>1, <1>3, <2>1
<1>7. QED
  BY <1>1, <1>2, <1>4, <1>5, <1>6 DEF rest

\* DashboardPage shows the page that was asked for, or the last one.
LEMMA PageInRange ==
  ASSUME TypeOK, counted # NoCount, request # NoPage
  PROVE  /\ InRange(request, counted) \in Nat \ {0}
         /\ InRange(request, counted) <= TotalPages(counted)
         /\ request <= TotalPages(counted) => InRange(request, counted) = request
<1>1. counted \in Nat /\ request \in Nat \ {0}
  BY DEF TypeOK, NoPage
<1>2. TotalPages(counted) \in Nat \ {0}
  BY <1>1, PagesFit
<1>3. QED
  BY <1>1, <1>2 DEF InRange

\* The query for the rows of a page, after the total it is shown with.
LEMMA ListPageIsFull ==
  ASSUME TypeOK, CountIsOld, ListPage, ~leftList
  PROVE  /\ page' < pages' => Cardinality(shown') = PageSize
         /\ List # {} => shown' # {}
<1> DEFINE n == InRange(request, counted)  k == n - 1
<1>1. request # NoPage /\ counted # NoCount /\ counted \in Nat /\ counted <= Cardinality(List)
  BY DEF ListPage, CountIsOld, TypeOK
<1>2. n \in Nat \ {0} /\ n <= TotalPages(counted) /\ k \in Nat /\ n = k + 1
  BY <1>1, PageInRange
<1>3. page' = n /\ pages' = TotalPages(counted)
  BY DEF ListPage
<1>4. PICK before \in SUBSET List, rows \in SUBSET List :
         Lists(before, rows, k * PageSize) /\ shown' = rows
  BY DEF ListPage, Offset
<1>5. TotalPages(counted) \in Nat \ {0} /\ Cardinality(List) \in Nat
      /\ \A m \in Nat : m < TotalPages(counted) /\ m # 0 => m * PageSize < counted
  <2>1. Cardinality(List) \in Nat
    BY <1>2, <1>4, PageIsLong
  <2>2. QED
    BY <1>1, <2>1, PagesFit
<1> HIDE DEF n, k
<1>6. ASSUME page' < pages' PROVE Cardinality(shown') = PageSize
  <2>1. n * PageSize < counted /\ n * PageSize = k * PageSize + PageSize
        /\ k * PageSize \in Nat /\ PageSize \in Nat
    BY <1>2, <1>3, <1>5, <1>6, Products
  <2>2. k * PageSize + PageSize <= Cardinality(List)
    BY <1>1, <1>5, <2>1
  <2>3. QED
    BY <1>2, <1>4, <2>2, PageIsLong
<1>7. ASSUME List # {} PROVE shown' # {}
  <2>1. Cardinality(List) > 0
    <3>1. List \in SUBSET Ids /\ {} \in SUBSET List
      BY DEF TypeOK, List
    <3>2. Cardinality({}) = 0
      BY FS_EmptySet
    <3>3. QED
      BY <1>5, <1>7, <3>1, <3>2, Sizes
  <2>2. k * PageSize < Cardinality(List)
    <3>1. CASE k = 0
      <4>1. k * PageSize = 0
        BY <3>1, Products
      <4>2. QED
        BY <2>1, <4>1
    <3>2. CASE k # 0
      <4>1. k * PageSize < counted /\ k * PageSize \in Nat
        BY <1>2, <1>5, <3>2, Products
      <4>2. QED
        BY <1>1, <1>5, <4>1
    <3>3. QED
      BY <3>1, <3>2
  <2>3. QED
    BY <1>2, <1>4, <2>2, PageIsLong
<1>8. QED
  BY <1>6, <1>7

\* An entry that is created, edited or deleted leaves the stamps of the others alone.
LEMMA RowStepTame ==
  ASSUME TypeOK, RowsAreStamped, RowStep
  PROVE  /\ TypeOK' /\ RowsAreStamped'
         /\ \A i \in table : stamp'[i] = stamp[i]
<1> DEFINE Tame == /\ now' \in 1..MaxTime /\ stamp' \in [Ids -> 0..MaxTime]
                   /\ table' \subseteq Ids /\ writing' \subseteq Ids \ table'
                   /\ matching' \subseteq Ids
                   /\ \A i \in table : stamp'[i] = stamp[i]
                   /\ \A i \in table' \cup writing' : stamp'[i] # 0
<1> USE DEF TypeOK, RowsAreStamped
<1>1. ASSUME NEW i \in Ids, Retag(i) PROVE Tame
  <2>1. UNCHANGED rowVars /\ matching' \subseteq Ids
    BY <1>1 DEF Retag
  <2>2. QED
    BY <2>1 DEF rowVars
<1>2. ASSUME NEW i \in Ids, BeginInsert(i), UNCHANGED matching PROVE Tame
  BY <1>2, RowsOK DEF BeginInsert
<1>3. ASSUME NEW i \in Ids, CommitInsert(i), UNCHANGED matching PROVE Tame
  BY <1>3, RowsOK DEF CommitInsert
<1>4. ASSUME NEW i \in Ids, Delete(i), UNCHANGED matching PROVE Tame
  BY <1>4, RowsOK DEF Delete
<1>5. ASSUME Tick, UNCHANGED matching PROVE Tame
  BY <1>5, RowsOK DEF Tick
<1>6. Tame
  BY <1>1, <1>2, <1>3, <1>4, <1>5 DEF RowStep
<1>7. unseen' \subseteq List' /\ leftList' \in BOOLEAN /\ cameList' \in BOOLEAN
  <2>1. unseen' \subseteq List'
    BY DEF RowStep
  <2>2. leftList' \in BOOLEAN
    BY DEF RowStep
  <2>3. cameList' \in BOOLEAN
    BY DEF RowStep
  <2>4. QED
    BY <2>1, <2>2, <2>3
<1>8. UNCHANGED <<request, counted, viewVars>>
  BY DEF RowStep
<1>9. TypeOK'
  BY <1>6, <1>7, <1>8 DEF viewVars
<1>10. QED
  BY <1>6, <1>9

\* Any change of the table.
LEMMA RowStepKeeps ==
  ASSUME WalkInv, RowStep
  PROVE  WalkInv'
<1> USE DEF WalkInv
<1>1. /\ TypeOK' /\ RowsAreStamped'
      /\ \A i \in table : stamp'[i] = stamp[i]
  BY RowStepTame
<1>2. /\ UNCHANGED <<request, counted, viewVars>>
      /\ unseen' = IF List \subseteq List' THEN unseen ELSE {}
      /\ leftList' = (leftList \/ (counted # NoCount /\ List \ List' # {}))
      /\ cameList' = (cameList \/ (counted # NoCount /\ List' \ List # {}))
  BY DEF RowStep
<1>3. List \in SUBSET Ids /\ List' \in SUBSET Ids /\ List \subseteq table
  BY <1>1 DEF TypeOK, List
<1>4. ASSUME List \subseteq List'
      PROVE  /\ Cardinality(List) \in Nat /\ Cardinality(List') \in Nat
             /\ Cardinality(List) <= Cardinality(List')
  BY <1>3, <1>4, Sizes
<1>5. CountIsOld'
  <2>1. SUFFICES ASSUME counted # NoCount
                 PROVE  /\ request # NoPage
                        /\ ~leftList' => counted <= Cardinality(List')
                        /\ ~leftList' /\ ~cameList' => counted = Cardinality(List')
                        /\ unseen' # {} => ~leftList'
    BY <1>2 DEF CountIsOld, NoCount, NoPage
  <2>2. request # NoPage /\ counted \in Nat
    BY <2>1 DEF CountIsOld, TypeOK
  <2>3. ~leftList' => List \subseteq List' /\ ~leftList
    BY <1>2, <2>1
  <2>4. ~cameList' => List' \subseteq List /\ ~cameList
    BY <1>2, <2>1
  <2>5. ASSUME ~leftList' PROVE counted <= Cardinality(List')
    BY <1>4, <2>1, <2>2, <2>3, <2>5 DEF CountIsOld
  <2>6. ASSUME ~leftList', ~cameList' PROVE counted = Cardinality(List')
    <3>1. List = List'
      BY <2>3, <2>4, <2>6
    <3>2. QED
      BY <2>1, <2>3, <2>4, <2>6, <3>1 DEF CountIsOld
  <2>7. ASSUME unseen' # {} PROVE ~leftList'
    <3>1. List \subseteq List' /\ unseen # {}
      BY <1>2, <2>7
    <3>2. ~leftList
      BY <2>1, <3>1 DEF CountIsOld
    <3>3. QED
      BY <1>2, <3>1, <3>2
  <2>8. QED
    BY <2>2, <2>5, <2>6, <2>7
<1>6. WalkGoesOn'
  <2>1. SUFFICES ASSUME unseen' # {}
                 PROVE  /\ request \in {NoPage, page + 1}
                        /\ page # NoPage => pages <= TotalPages(Cardinality(List'))
                        /\ counted # NoCount => page < TotalPages(counted)
                        /\ page # NoPage /\ request # NoPage => page < pages
                        /\ ~Ties' =>
                             /\ \A i \in unseen' : Cardinality(NewerRows(i)') >= page * PageSize
                             /\ page # NoPage /\ request = NoPage /\ ~cameList' => page < pages
    BY <1>2 DEF WalkGoesOn, viewVars, NoPage, NoCount, TotalPages
  <2>2. List \subseteq List' /\ unseen' = unseen /\ unseen # {}
    BY <1>2, <2>1
  <2>3. /\ request \in {NoPage, page + 1}
        /\ counted # NoCount => page < TotalPages(counted)
        /\ page # NoPage /\ request # NoPage => page < pages
        /\ page # NoPage => pages <= TotalPages(Cardinality(List))
    BY <2>2 DEF WalkGoesOn
  <2>4. ASSUME page # NoPage PROVE pages <= TotalPages(Cardinality(List'))
    <3> DEFINE c == Cardinality(List)  d == Cardinality(List')
    <3>1. c \in Nat /\ d \in Nat /\ c <= d /\ pages \in Nat /\ pages <= TotalPages(c)
      BY <1>4, <2>2, <2>3, <2>4 DEF TypeOK
    <3> HIDE DEF c, d
    <3>2. TotalPages(c) \in Nat /\ TotalPages(d) \in Nat /\ TotalPages(c) <= TotalPages(d)
      BY <3>1, PagesFit, PagesGrow
    <3>3. pages <= TotalPages(d)
      BY <3>1, <3>2
    <3>4. QED
      BY <3>3 DEF d
  <2>5. ~Ties' => ~Ties
    BY <1>1, <1>3, <2>2 DEF Ties
  <2>6. ASSUME ~Ties', NEW i \in unseen'
        PROVE  Cardinality(NewerRows(i)') >= page * PageSize
    <3>1. Cardinality(NewerRows(i)) >= page * PageSize
      BY <2>2, <2>5, <2>6 DEF WalkGoesOn
    <3>2. NewerRows(i) \subseteq NewerRows(i)'
      <4>1. i \in table
        BY <1>3, <2>2 DEF TypeOK
      <4>2. QED
        BY <1>1, <1>3, <2>2, <4>1 DEF NewerRows, Newer
    <3>3. NewerRows(i)' \in SUBSET Ids
      BY <1>3 DEF NewerRows
    <3>4. /\ Cardinality(NewerRows(i)) \in Nat /\ Cardinality(NewerRows(i)') \in Nat
          /\ Cardinality(NewerRows(i)) <= Cardinality(NewerRows(i)')
      BY <3>2, <3>3, Sizes
    <3>5. page * PageSize \in Nat
      BY Products DEF TypeOK
    <3>6. QED
      BY <3>1, <3>4, <3>5
  <2>7. ASSUME ~Ties', page # NoPage, request = NoPage, ~cameList' PROVE page < pages
    BY <1>2, <2>2, <2>5, <2>7 DEF WalkGoesOn
  <2>8. QED
    BY <2>3, <2>4, <2>6, <2>7
<1>7. QED
  BY <1>1, <1>5, <1>6

\* A row with the rows of the pages so far in front of it, which is not on the next page
\* either, has those of the next page in front of it as well.
LEMMA WhatIsShownNext ==
  ASSUME TypeOK, NEW k \in Nat, NEW before, NEW rows, Lists(before, rows, k * PageSize), ~Ties,
         NEW i \in unseen \ rows, Cardinality(NewerRows(i)) >= k * PageSize
  PROVE  /\ Cardinality(NewerRows(i)) >= k * PageSize + PageSize
         /\ Cardinality(NewerRows(i)) < Cardinality(List)
<1> DEFINE newer == NewerRows(i)
<1>1. /\ before \in SUBSET List /\ rows \in SUBSET (List \ before)
      /\ Cardinality(List) \in Nat /\ Cardinality(before) \in Nat
      /\ k * PageSize < Cardinality(List) => Cardinality(before) = k * PageSize /\ rows # {}
      /\ k * PageSize >= Cardinality(List) => before = List
      /\ rows # List \ before => Cardinality(rows) = PageSize
  BY PageIsLong
<1>2. i \in List /\ i \in Ids /\ List \in SUBSET Ids /\ stamp \in [Ids -> Nat]
  <2>1. stamp \in [Ids -> Nat]
    BY RowsOK DEF TypeOK
  <2>2. QED
    BY <2>1 DEF TypeOK, List
<1>3. newer \in SUBSET List /\ i \notin newer /\ newer \cup {i} \in SUBSET List
  BY <1>2 DEF NewerRows, Newer
<1>4. \A j \in List : j = i \/ Newer(j, i) \/ Newer(i, j)
  BY <1>2 DEF Newer, Ties
<1>5. Cardinality(newer) \in Nat /\ Cardinality(newer) < Cardinality(List)
  <2>1. newer # List
    BY <1>2, <1>3
  <2> HIDE DEF newer
  <2>2. QED
    BY <1>2, <1>3, <2>1, Sizes
<1>6. i \notin before
  <2>1. SUFFICES ASSUME i \in before PROVE FALSE
    OBVIOUS
  <2>2. newer \subseteq before
    BY <1>3, <2>1 DEF Lists, NewerRows
  <2>3. newer # before
    BY <1>3, <2>1
  <2>4. before \in SUBSET Ids
    BY <1>1, <1>2
  <2> HIDE DEF newer
  <2>5. Cardinality(newer) < Cardinality(before)
    BY <1>1, <1>5, <2>2, <2>3, <2>4, Sizes
  <2>6. Cardinality(before) <= k * PageSize /\ k * PageSize \in Nat
    <3>1. k * PageSize \in Nat
      BY Products
    <3>2. k * PageSize < Cardinality(List) \/ k * PageSize >= Cardinality(List)
      BY <1>1, <3>1
    <3>3. QED
      BY <1>1, <3>1, <3>2
  <2>7. QED
    BY <1>1, <1>5, <2>5, <2>6 DEF newer
<1>7. Cardinality(before) = k * PageSize /\ Cardinality(rows) = PageSize
  <2>1. k * PageSize < Cardinality(List)
    <3>1. k * PageSize \in Nat
      BY Products
    <3>2. before # List
      BY <1>2, <1>6
    <3>3. QED
      BY <1>1, <3>1, <3>2
  <2>2. rows # List \ before
    BY <1>2, <1>6
  <2>3. QED
    BY <1>1, <2>1, <2>2
<1>8. before \cup rows \subseteq newer
  <2>1. ASSUME NEW j \in before PROVE j \in newer
    <3>1. ~Newer(i, j) /\ j \in List /\ j # i
      BY <1>1, <1>2, <1>6, <2>1 DEF Lists
    <3>2. QED
      BY <1>4, <3>1 DEF NewerRows
  <2>2. ASSUME NEW j \in rows PROVE j \in newer
    <3>1. ~Newer(i, j) /\ j \in List /\ j # i
      <4>1. i \in (List \ before) \ rows
        BY <1>2, <1>6
      <4>2. QED
        BY <1>1, <2>2, <4>1 DEF Lists, IsPage
    <3>2. QED
      BY <1>4, <3>1 DEF NewerRows
  <2>3. QED
    BY <2>1, <2>2
<1>9. Cardinality(before \cup rows) = k * PageSize + PageSize
      /\ Cardinality(before \cup rows) <= Cardinality(newer)
  <2> DEFINE both == before \cup rows
  <2>1. both \in SUBSET Ids /\ rows \in SUBSET both /\ both \ rows = before
        /\ newer \in SUBSET Ids /\ both \in SUBSET newer
    BY <1>1, <1>2, <1>3, <1>8
  <2> HIDE DEF both, newer
  <2> DEFINE left == both \ rows
  <2>2. left = before
    BY <2>1
  <2>3. Cardinality(left) = Cardinality(both) - Cardinality(rows)
        /\ Cardinality(both) \in Nat /\ Cardinality(rows) \in Nat /\ Cardinality(both) <= Cardinality(newer)
    BY <2>1, Sizes
  <2> HIDE DEF left
  <2>4. Cardinality(before) = Cardinality(both) - Cardinality(rows)
        /\ Cardinality(both) \in Nat /\ Cardinality(both) <= Cardinality(newer)
    BY <2>2, <2>3
  <2>5. k * PageSize \in Nat /\ PageSize \in Nat
    BY Products
  <2>6. Cardinality(both) = k * PageSize + PageSize /\ Cardinality(both) <= Cardinality(newer)
    BY <1>7, <2>4, <2>5
  <2>7. QED
    BY <2>6 DEF both
<1>10. QED
  BY <1>5, <1>9

\* A page more of the walk.
LEMMA ListPageKeeps ==
  ASSUME WalkInv, ListPage
  PROVE  WalkInv'
<1> USE DEF WalkInv
<1> DEFINE n == InRange(request, counted)
<1>1. PICK before \in SUBSET List, rows \in SUBSET List :
         /\ request # NoPage /\ counted # NoCount
         /\ page' = n /\ pages' = TotalPages(counted)
         /\ Lists(before, rows, Offset(n)) /\ shown' = rows
         /\ unseen' = unseen \ rows
         /\ leftList' = FALSE /\ cameList' = cameList
         /\ request' = NoPage /\ counted' = NoCount
  BY DEF ListPage
<1>2. UNCHANGED rowVars /\ UNCHANGED matching
  BY DEF ListPage
<1>3. /\ now' = now /\ stamp' = stamp /\ writing' = writing /\ table' = table
      /\ matching' = matching /\ List' = List
      /\ \A i : NewerRows(i)' = NewerRows(i)
      /\ Ties' = Ties
  BY <1>2 DEF rowVars, List, NewerRows, Newer, Ties
<1>4. counted \in Nat /\ n \in Nat \ {0} /\ n <= TotalPages(counted)
      /\ TotalPages(counted) \in Nat \ {0}
  <2>1. counted \in Nat
    BY <1>1 DEF TypeOK
  <2>2. QED
    BY <1>1, <2>1, PageInRange, PagesFit
<1>5. TypeOK'
  <2>1. shown' \subseteq Ids /\ unseen' \subseteq List'
    BY <1>1, <1>3 DEF TypeOK, List
  <2>2. request' \in Nat /\ counted' \in Nat \cup {NoCount}
    BY <1>1 DEF NoPage
  <2>3. page' \in Nat /\ pages' \in Nat /\ page' <= pages'
    BY <1>1, <1>4
  <2>4. QED
    BY <1>1, <1>3, <2>1, <2>2, <2>3 DEF TypeOK
<1>6. RowsAreStamped' /\ CountIsOld'
  BY <1>1, <1>3 DEF RowsAreStamped, CountIsOld
<1>7. WalkGoesOn'
  <2>1. SUFFICES ASSUME unseen' # {}
                 PROVE  /\ pages' <= TotalPages(Cardinality(List))
                        /\ ~Ties => /\ \A i \in unseen' : Cardinality(NewerRows(i)) >= page' * PageSize
                                    /\ ~cameList => page' < pages'
    BY <1>1, <1>3 DEF WalkGoesOn
  <2>2. unseen # {} /\ request = page + 1 /\ page \in Nat /\ page < TotalPages(counted) /\ ~leftList
    BY <1>1, <2>1 DEF WalkGoesOn, CountIsOld, TypeOK
  <2>3. n = page + 1 /\ Offset(n) = page * PageSize
    <3>1. request <= TotalPages(counted)
      BY <1>4, <2>2
    <3>2. n = page + 1
      BY <1>1, <2>2, <3>1, PageInRange
    <3>3. QED
      BY <2>2, <3>2 DEF Offset
  <2>4. /\ counted <= Cardinality(List) /\ Cardinality(List) \in Nat
        /\ ~cameList => counted = Cardinality(List)
    <3>1. Cardinality(List) \in Nat
      BY <1>1, <2>2, <2>3, PageIsLong
    <3>2. QED
      BY <1>1, <2>2, <3>1 DEF CountIsOld
  <2>5. pages' <= TotalPages(Cardinality(List))
    BY <1>1, <1>4, <2>4, PagesGrow
  <2> HIDE DEF n
  <2>6. ASSUME ~Ties, NEW i \in unseen'
        PROVE  /\ Cardinality(NewerRows(i)) >= page * PageSize + PageSize
               /\ Cardinality(NewerRows(i)) < Cardinality(List)
    <3>1. i \in unseen \ rows /\ Cardinality(NewerRows(i)) >= page * PageSize
      BY <1>1, <2>2, <2>6 DEF WalkGoesOn
    <3>2. Lists(before, rows, page * PageSize)
      BY <1>1, <2>3
    <3>3. QED
      BY <2>2, <2>6, <3>1, <3>2, WhatIsShownNext
  <2>7. page' * PageSize = page * PageSize + PageSize
    BY <1>1, <2>2, <2>3, Products
  <2>8. ASSUME ~Ties, ~cameList PROVE page' < pages'
    <3>1. PICK i \in unseen' : TRUE
      BY <2>1
    <3>2. Cardinality(NewerRows(i)) \in Nat
      <4>1. NewerRows(i) \in SUBSET Ids
        BY DEF NewerRows, List, TypeOK
      <4>2. QED
        BY <4>1, Sizes
    <3>3. page' * PageSize < counted
      <4>1. page * PageSize \in Nat /\ PageSize \in Nat
        BY <2>2, Products
      <4>2. QED
        BY <2>4, <2>6, <2>7, <2>8, <3>2, <4>1
    <3>4. counted <= TotalPages(counted) * PageSize
      BY <1>4, PagesFit
    <3> DEFINE T == TotalPages(counted)
    <3>5. T \in Nat /\ page' \in Nat /\ page' <= T /\ pages' = T
      BY <1>1, <1>4
    <3>6. page' # T
      <4>1. page' * PageSize \in Nat /\ T * PageSize \in Nat
        BY <3>5, Products
      <4> HIDE DEF T
      <4>2. QED
        BY <1>4, <3>3, <3>4, <4>1 DEF T
    <3> HIDE DEF T
    <3>7. QED
      BY <3>5, <3>6
  <2>9. QED
    BY <2>5, <2>6, <2>7, <2>8
<1>8. QED
  BY <1>5, <1>6, <1>7

\* Every step of the tab and of the table.
LEMMA WalkStep == WalkInv /\ [Next]_vars => WalkInv'
<1> SUFFICES ASSUME WalkInv, [Next]_vars PROVE WalkInv'
  OBVIOUS
<1> USE DEF WalkInv
<1> DEFINE Same == /\ now' = now /\ stamp' = stamp /\ writing' = writing /\ table' = table
                   /\ matching' = matching /\ List' = List
                   /\ (\A i : NewerRows(i)' = NewerRows(i)) /\ Ties' = Ties
                   /\ RowsAreStamped'
<1>1. UNCHANGED rowVars /\ UNCHANGED matching => Same
  BY DEF rowVars, List, NewerRows, Newer, Ties, RowsAreStamped
<1>2. page \in Nat /\ pages \in Nat /\ request \in Nat /\ Cardinality(List) \in Nat
  <2>1. List \in SUBSET Ids
    BY DEF List, TypeOK
  <2>2. QED
    BY <2>1, Sizes DEF TypeOK
<1>3. ASSUME NEW n \in 1..MaxPage, Open(n) PROVE WalkInv'
  <2>1. /\ Same /\ request = NoPage /\ request' = n /\ n \in Nat \ {0}
        /\ unseen' = IF n = 1 THEN List ELSE {}
        /\ page' = NoPage /\ pages' = 0 /\ shown' = {}
        /\ counted' = counted /\ leftList' = leftList /\ cameList' = cameList
        /\ counted = NoCount
    <3>1. n \in Nat \ {0}
      BY PageOK
    <3>2. UNCHANGED rowVars /\ UNCHANGED matching /\ request = NoPage
      BY <1>3 DEF Open
    <3>3. counted = NoCount
      BY <3>2 DEF CountIsOld
    <3>4. QED
      BY <1>1, <1>3, <3>1, <3>2, <3>3 DEF Open, raceVars
  <2>2. TypeOK'
    BY <2>1 DEF TypeOK, NoPage
  <2>3. CountIsOld'
    BY <2>1 DEF CountIsOld
  <2>4. WalkGoesOn'
    <3>1. SUFFICES ASSUME unseen' # {} PROVE \A i \in unseen' : Cardinality(NewerRows(i)) >= 0 * PageSize
      BY <2>1 DEF WalkGoesOn, NoPage
    <3>2. ASSUME NEW i \in unseen' PROVE Cardinality(NewerRows(i)) >= 0 * PageSize
      <4>1. NewerRows(i) \in SUBSET Ids
        BY DEF NewerRows, List, TypeOK
      <4>2. Cardinality(NewerRows(i)) \in Nat
        BY <4>1, Sizes
      <4>3. 0 * PageSize = 0
        BY Products
      <4>4. QED
        BY <4>2, <4>3
    <3>3. QED
      BY <3>2
  <2>5. QED
    BY <2>1, <2>2, <2>3, <2>4
<1>4. ASSUME FollowNext PROVE WalkInv'
  <2>1. /\ Same /\ request = NoPage /\ request' = page + 1 /\ page # NoPage /\ page < pages
        /\ unseen' = unseen /\ page' = page /\ pages' = pages /\ shown' = shown
        /\ counted' = counted /\ leftList' = leftList /\ cameList' = cameList
        /\ counted = NoCount
    BY <1>1, <1>4 DEF FollowNext, raceVars, viewVars, CountIsOld
  <2>2. TypeOK'
    BY <2>1 DEF TypeOK
  <2>3. QED
    BY <1>2, <2>1, <2>2 DEF WalkGoesOn, CountIsOld, NoPage
<1>5. ASSUME CountFiltered PROVE WalkInv'
  <2>1. /\ Same /\ request' = request /\ request # NoPage
        /\ unseen' = unseen /\ page' = page /\ pages' = pages /\ shown' = shown
        /\ counted = NoCount /\ counted' = Cardinality(List)
        /\ leftList' = FALSE /\ cameList' = FALSE
    BY <1>1, <1>5 DEF CountFiltered, viewVars
  <2>2. TypeOK'
    BY <1>2, <2>1 DEF TypeOK
  <2>3. CountIsOld'
    BY <1>2, <2>1 DEF CountIsOld
  <2>4. unseen # {} => page < TotalPages(Cardinality(List))
    <3>1. TotalPages(Cardinality(List)) \in Nat \ {0}
      BY <1>2, PagesFit
    <3>2. QED
      BY <1>2, <2>1, <3>1 DEF WalkGoesOn, NoPage
  <2>5. WalkGoesOn'
    BY <2>1, <2>4 DEF WalkGoesOn
  <2>6. QED
    BY <2>1, <2>2, <2>3, <2>5
<1>6. ASSUME ListPage PROVE WalkInv'
  BY <1>6, ListPageKeeps
<1>7. ASSUME RequestFails PROVE WalkInv'
  <2>1. /\ Same /\ request # NoPage /\ request' = NoPage /\ counted' = NoCount
        /\ unseen' = unseen /\ page' = page /\ pages' = pages /\ shown' = shown
        /\ leftList' = leftList /\ cameList' = cameList
    BY <1>1, <1>7 DEF RequestFails, viewVars, raceVars
  <2>2. TypeOK'
    BY <2>1 DEF TypeOK, NoPage
  <2>3. CountIsOld'
    BY <2>1 DEF CountIsOld
  <2>4. WalkGoesOn'
    BY <2>1 DEF WalkGoesOn
  <2>5. QED
    BY <2>1, <2>2, <2>3, <2>4
<1>8. ASSUME RowStep PROVE WalkInv'
  BY <1>8, RowStepKeeps
<1>9. ASSUME UNCHANGED vars PROVE WalkInv'
  <2>1. /\ Same /\ request' = request /\ counted' = counted
        /\ unseen' = unseen /\ page' = page /\ pages' = pages /\ shown' = shown
        /\ leftList' = leftList /\ cameList' = cameList
    BY <1>1, <1>9 DEF vars, viewVars, raceVars
  <2>2. TypeOK' /\ CountIsOld' /\ WalkGoesOn'
    BY <2>1 DEF TypeOK, CountIsOld, WalkGoesOn
  <2>3. QED
    BY <2>1, <2>2
<1>10. QED
  BY <1>3, <1>4, <1>5, <1>6, <1>7, <1>8, <1>9 DEF Next

\* WalkInv holds: what a walk has not shown yet lies behind the pages that it has shown,
\* and a total is wrong by no more than the writes between the two queries explain.
THEOREM WalkInductive == Spec => []WalkInv
<1>1. Init => WalkInv
  <2> SUFFICES ASSUME Init PROVE WalkInv
    OBVIOUS
  <2>1. /\ now = 1 /\ stamp \in [Ids -> 0..1] /\ writing = {} /\ table = {i \in Ids : stamp[i] = 1}
        /\ matching = Ids /\ request = NoPage /\ counted = NoCount
        /\ page = NoPage /\ pages = 0 /\ shown = {} /\ unseen = {}
        /\ leftList = FALSE /\ cameList = FALSE
    BY DEF Init, RowInit
  <2>2. now \in 1..MaxTime /\ stamp \in [Ids -> 0..MaxTime]
    BY <2>1, RowsOK
  <2>3. TypeOK
    <3>1. table \subseteq Ids /\ writing \subseteq Ids \ table /\ matching \subseteq Ids
      BY <2>1
    <3>2. /\ request \in Nat /\ counted \in Nat \cup {NoCount}
          /\ page \in Nat /\ pages \in Nat /\ page <= pages
      BY <2>1 DEF NoPage
    <3>3. shown \subseteq Ids /\ unseen \subseteq List
      BY <2>1
    <3>4. leftList \in BOOLEAN
      BY <2>1
    <3>5. cameList \in BOOLEAN
      BY <2>1
    <3>6. QED
      BY <2>2, <3>1, <3>2, <3>3, <3>4, <3>5 DEF TypeOK
  <2>4. QED
    BY <2>1, <2>3 DEF WalkInv, RowsAreStamped, CountIsOld, WalkGoesOn
<1>2. QED
  BY <1>1, WalkStep, PTL DEF Spec

\* WalkShowsAll of the runs, for any page size, rows and filter: a walk from page 1 to the
\* end shows every row that fitted all the while, although rows arrive before and behind
\* the reader.
THEOREM WalkIsComplete == Spec => []WalkShowsAll
<1>1. WalkInv => WalkShowsAll
  <2> SUFFICES ASSUME WalkInv, WalkEnds, ~cameList, ~Ties, unseen # {} PROVE FALSE
    BY DEF WalkShowsAll
  <2>1. page < pages
    BY DEF WalkInv, WalkGoesOn, WalkEnds
  <2>2. QED
    BY <2>1 DEF WalkInv, TypeOK, WalkEnds
<1>2. QED
  BY <1>1, WalkInductive, PTL

\* PagesAreFull of the runs: a page with a Next link is full and the last page is not
\* empty, although the total is older than the list.
THEOREM PagesStayFull == Spec => PagesAreFull
<1>1. WalkInv /\ [Next]_vars =>
        [ListPage /\ ~leftList =>
            /\ page' < pages' => Cardinality(shown') = PageSize
            /\ List # {} => shown' # {}]_vars
  BY ListPageIsFull DEF WalkInv
<1>2. QED
  BY <1>1, WalkInductive, PTL DEF Spec, PagesAreFull
=============================================================================
