----------------------------- MODULE Dashboard ------------------------------
(***************************************************************************)
(* GET / with ?page= and filters.  CapturePage counts the matching rows,   *)
(* brings the page number into range, and then lists that page with LIMIT  *)
(* and OFFSET: two queries, so rows come and go between them, as they do   *)
(* while the reader follows the Next and Previous links.                   *)
(***************************************************************************)
EXTENDS EntryRows

CONSTANTS
    MaxPage     \* bound: the largest page number in a stale link

ASSUME PageOK == MaxPage \in Nat \ {0}

VARIABLES
    matching,   \* rows whose tag, type and text fit the filter
    request,    \* the page asked for, or NoPage
    counted,    \* the total that CountFiltered returned for it, or NoCount
    page,       \* the page in the browser, NoPage before the first
    pages,      \* its total of pages
    shown,      \* its rows
    unseen,     \* history: rows that fitted ever since a walk began and that no
                \* page of the walk has shown; {} once a row has left the list
    leftList,   \* history: a row left the list between the two queries of a page
    cameList    \* history: a row came into the list between them

viewVars == <<page, pages, shown>>
raceVars == <<leftList, cameList>>
vars == <<rowVars, matching, request, counted, viewVars, unseen, raceVars>>

NoPage  == 0
NoCount == -1

List == table \cap matching

Init ==
    /\ RowInit
    /\ matching = Ids
    /\ request = NoPage /\ counted = NoCount
    /\ page = NoPage /\ pages = 0 /\ shown = {}
    /\ unseen = {}
    /\ leftList = FALSE /\ cameList = FALSE

\* Mutant of TotalPages: the rest that does not fill a page is left out.
TotalPagesFull(total) == IF total < PageSize THEN 1 ELSE total \div PageSize

\* totalDashboardPages
TotalPages(total) ==
    IF total <= 0 THEN 1
    ELSE total \div PageSize + (IF total % PageSize # 0 THEN 1 ELSE 0)

\* Mutant of InRange: a page number beyond the end is taken as it is.
InRangeAsAsked(n, total) == n

InRange(n, total) == IF n > TotalPages(total) THEN TotalPages(total) ELSE n

\* dashboardOffset
Offset(n) == (n - 1) * PageSize

\* A link with a page number takes the browser elsewhere.  Page 1 begins a walk,
\* another one ends it.
Open(n) ==
    /\ request = NoPage
    /\ request' = n
    /\ unseen' = IF n = 1 THEN List ELSE {}
    /\ page' = NoPage /\ pages' = 0 /\ shown' = {}
    /\ UNCHANGED <<rowVars, matching, counted, raceVars>>

\* The Next link, which is there unless this is the last page; htmx leaves the
\* page in place until the answer is there.
FollowNext ==
    /\ request = NoPage
    /\ page # NoPage /\ page < pages
    /\ request' = page + 1
    /\ UNCHANGED <<rowVars, matching, counted, viewVars, unseen, raceVars>>

CountFiltered ==
    /\ request # NoPage /\ counted = NoCount
    /\ counted' = Cardinality(List)
    /\ leftList' = FALSE /\ cameList' = FALSE
    /\ UNCHANGED <<rowVars, matching, request, viewVars, unseen>>

\* ORDER BY created_at DESC alone: rows with the same stamp come in any order.
Newer(i, j) == stamp[i] > stamp[j]

\* Some order of the list has the rows before at its first offset places and
\* then the rows of the page.
Lists(before, rows, offset) ==
    /\ before \subseteq List
    /\ Cardinality(before) = IF offset < Cardinality(List) THEN offset ELSE Cardinality(List)
    /\ \A i \in before, j \in List \ before : ~Newer(j, i)
    /\ IsPage(rows, List \ before, Newer)

ListPage ==
    /\ request # NoPage /\ counted # NoCount
    /\ LET n == InRange(request, counted) IN
       /\ page' = n
       /\ pages' = TotalPages(counted)
       /\ \E before, rows \in SUBSET List :
             Lists(before, rows, Offset(n)) /\ shown' = rows
    /\ unseen' = unseen \ shown'
    /\ leftList' = FALSE
    /\ request' = NoPage /\ counted' = NoCount
    /\ UNCHANGED <<rowVars, matching, cameList>>

\* One of the two queries fails; the reader may try again.
RequestFails ==
    /\ request # NoPage
    /\ request' = NoPage /\ counted' = NoCount
    /\ UNCHANGED <<rowVars, matching, viewVars, unseen, raceVars>>

\* An edit, or a result of the worker, moves a row into or out of the filter.
Retag(i) ==
    /\ i \in table
    /\ matching' = IF i \in matching THEN matching \ {i} ELSE matching \cup {i}
    /\ UNCHANGED rowVars

RowStep ==
    /\ \/ \E i \in Ids : Retag(i)
       \/ /\ \/ \E i \in Ids : BeginInsert(i) \/ CommitInsert(i) \/ Delete(i)
             \/ Tick
          /\ UNCHANGED matching
    /\ unseen' = IF List \subseteq List' THEN unseen ELSE {}
    /\ leftList' = (leftList \/ (counted # NoCount /\ List \ List' # {}))
    /\ cameList' = (cameList \/ (counted # NoCount /\ List' \ List # {}))
    /\ UNCHANGED <<request, counted, viewVars>>

Next ==
    \/ \E n \in 1..MaxPage : Open(n)
    \/ FollowNext \/ CountFiltered \/ ListPage \/ RequestFails
    \/ RowStep

Spec == Init /\ [][Next]_vars

-----------------------------------------------------------------------------
(* Properties                                                              *)

\* The type of every variable.
TypeOK ==
    /\ now \in 1..MaxTime
    /\ stamp \in [Ids -> 0..MaxTime]
    /\ table \subseteq Ids /\ writing \subseteq Ids \ table /\ matching \subseteq Ids
    /\ request \in Nat
    /\ counted \in Nat \cup {NoCount}
    /\ page \in Nat /\ pages \in Nat /\ page <= pages
    /\ shown \subseteq Ids /\ unseen \subseteq List
    /\ leftList \in BOOLEAN /\ cameList \in BOOLEAN

\* The reader has come from page 1 to a page without a Next link.
WalkEnds == request = NoPage /\ page # NoPage /\ page = pages

Ties == \E i, j \in List : i # j /\ stamp[i] = stamp[j]

\* A walk from page 1 to the end shows every row that fitted all the while,
\* although rows arrive in front of and behind the reader, as long as none leaves
\* the list, no two carry the same created_at, and none slips in between the count
\* and the list of the last page (its total then offers no link to what it pushed
\* out).
WalkShowsAll == WalkEnds /\ ~cameList /\ ~Ties => unseen = {}

\* A page with a Next link is full and the last page is not empty, although the
\* total is older than the list: a stale or invented page number shows the last
\* page, unless a row left the list between the two queries.
PagesAreFull ==
    [][ListPage /\ ~leftList =>
          /\ page' < pages' => Cardinality(shown') = PageSize
          /\ List # {} => shown' # {}]_vars

-----------------------------------------------------------------------------
(* The inductive invariant                                                 *)

RowsAreStamped == \A i \in table \cup writing : stamp[i] # 0

\* A total is wrong by no more than what the two races explain.
CountIsOld ==
    counted # NoCount =>
        /\ request # NoPage
        /\ ~leftList => counted <= Cardinality(List)
        /\ ~leftList /\ ~cameList => counted = Cardinality(List)
        /\ unseen # {} => ~leftList

NewerRows(i) == {j \in List : Newer(j, i)}

\* What a walk has not shown yet lies behind the pages that it has shown.
WalkGoesOn ==
    unseen # {} =>
        /\ request \in {NoPage, page + 1}
        /\ page # NoPage => pages <= TotalPages(Cardinality(List))
        /\ counted # NoCount => page < TotalPages(counted)
        /\ page # NoPage /\ request # NoPage => page < pages
        /\ ~Ties =>
              /\ \A i \in unseen : Cardinality(NewerRows(i)) >= page * PageSize
              /\ page # NoPage /\ request = NoPage /\ ~cameList => page < pages

WalkInv == TypeOK /\ RowsAreStamped /\ CountIsOld /\ WalkGoesOn
=============================================================================
