----------------------------- MODULE CsvExport ------------------------------
(***************************************************************************)
(* GET /api/reports/export.  The handler reads the range page by page,     *)
(* newest first, each page by the keyset (created_at, id) of the last row  *)
(* written.  Each page is a query of its own: rows come and go in between. *)
(***************************************************************************)
EXTENDS EntryRows

CONSTANTS
    Start, End  \* the range: rng.Start is inclusive, rng.End exclusive

ASSUME RangeOK == Start \in Nat \ {0} /\ End \in Nat

(* UUIDs are numbers here, in the order PostgreSQL compares them in.  They *)
(* are drawn at random: their order says nothing of the time.              *)
ASSUME IdsOK == Ids \subseteq Nat

VARIABLES
    stage,      \* idle, reading, done, or cut: an error ended the response
    last,       \* the last row written, or NoRow
    written,    \* rows of the CSV
    twice,      \* history: rows written more than once
    began,      \* history: the time of the first query
    present     \* history: rows of the range visible ever since the first query

vars == <<now, stamp, writing, table, stage, last, written, twice, began, present>>

NoRow == -1

Init ==
    /\ RowInit
    /\ stage = "idle"
    /\ last = NoRow
    /\ written = {} /\ twice = {}
    /\ began = 0
    /\ present = {}

\* Mutant of Precedes: the order of the stamps alone.
PrecedesByTime(i, j) == stamp[i] > stamp[j]

\* ORDER BY created_at DESC, id DESC
Precedes(i, j) == stamp[i] > stamp[j] \/ (stamp[i] = stamp[j] /\ i > j)

\* Mutant of Remaining: the row at the cursor is read again.
RemainingFromLast(after) ==
    {i \in table : /\ Start <= stamp[i] /\ stamp[i] < End
                   /\ after # NoRow => ~Precedes(i, after)}

\* The WHERE of ListCreatedBetween.  The cursor may have been deleted since.
Remaining(after) ==
    {i \in table : /\ Start <= stamp[i] /\ stamp[i] < End
                   /\ after # NoRow => Precedes(after, i)}

\* One query, and the rows it returned written in order.
WritePage ==
    \E page \in SUBSET Remaining(last) :
       /\ IsPage(page, Remaining(last), Precedes)
       /\ twice' = twice \cup (page \cap written)
       /\ written' = written \cup page
       /\ IF Cardinality(page) < PageSize
          THEN stage' = "done" /\ UNCHANGED last
          ELSE /\ stage' = "reading"
               /\ last' \in {i \in page : \A j \in page : ~Precedes(i, j)}

FirstPage ==
    /\ stage = "idle"
    /\ WritePage
    /\ began' = now
    /\ present' = Remaining(NoRow)
    /\ UNCHANGED rowVars

NextPage ==
    /\ stage = "reading"
    /\ WritePage
    /\ UNCHANGED <<began, present>>
    /\ UNCHANGED rowVars

\* A query fails or the client has gone: nothing follows the rows written so far.
\* The first query's error is answered with a 500 instead.
StopEarly ==
    /\ stage = "reading"
    /\ stage' = "cut"
    /\ UNCHANGED <<last, written, twice, began, present>>
    /\ UNCHANGED rowVars

RowStep ==
    /\ \/ \E i \in Ids : BeginInsert(i) \/ CommitInsert(i) \/ Delete(i)
       \/ Tick
    /\ present' = present \cap table'
    /\ UNCHANGED <<stage, last, written, twice, began>>

Next == FirstPage \/ NextPage \/ StopEarly \/ RowStep

Spec == Init /\ [][Next]_vars

-----------------------------------------------------------------------------
(* Properties                                                              *)

\* The type of every variable.
TypeOK ==
    /\ now \in Nat \ {0}
    /\ stamp \in [Ids -> Nat]
    /\ writing \subseteq Ids /\ table \subseteq Ids
    /\ stage \in {"idle", "reading", "done", "cut"}
    /\ last \in Ids \cup {NoRow}
    /\ written \subseteq Ids /\ twice \subseteq Ids /\ present \subseteq Ids
    /\ began \in Nat

\* No row is written twice, not even when rows with the same created_at fall on
\* both sides of a page break or rows appear and vanish between the queries.
NothingTwice == twice = {}

\* A complete export has every row of the range that could be seen all the time.
NothingSkipped == stage = "done" => present \subseteq written

\* Entries created after the export began do not prolong it: every row in it was
\* stamped by then.
ExportIsBounded == \A i \in written : stamp[i] <= began

(* The rows written come before the cursor or are the cursor; what is left *)
(* of the range comes after it.                                            *)
CursorSplitsRange ==
    /\ stage = "idle" => last = NoRow /\ written = {} /\ present = {}
    /\ stage = "reading" =>
         /\ last \in written
         /\ \A i \in written : i = last \/ Precedes(i, last)
         /\ \A i \in present \ written : Precedes(last, i)

RowsAreStamped ==
    /\ table \cup writing \cup written \subseteq {i \in Ids : stamp[i] # 0}
    /\ present \subseteq table
    /\ \A i \in present : Start <= stamp[i] /\ stamp[i] < End
    /\ \A i \in Ids : stamp[i] <= now
    /\ began <= now

IInv == TypeOK /\ CursorSplitsRange /\ RowsAreStamped /\ NothingTwice /\ NothingSkipped /\ ExportIsBounded
=============================================================================
