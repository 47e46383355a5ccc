----------------------------- MODULE EntryRows ------------------------------
(***************************************************************************)
(* The rows that the lists read: when each was stamped and whether it can  *)
(* be seen.  An INSERT takes its created_at when it starts and becomes     *)
(* visible when it commits, so a row may appear behind a younger one, and  *)
(* two rows may carry the same stamp.  The UUIDs are drawn at random:      *)
(* their order says nothing of the time.                                   *)
(***************************************************************************)
EXTENDS Integers, FiniteSets

CONSTANTS
    Ids,        \* UUIDs
    PageSize,   \* csvPageSize, dashboardPageSize
    MaxTime     \* bound: the last stamp

ASSUME RowsOK ==
    /\ IsFiniteSet(Ids)
    /\ PageSize \in Nat \ {0} /\ MaxTime \in Nat \ {0}

VARIABLES
    now,        \* the database's clock
    stamp,      \* stamp[i]: created_at of row i, 0 while the UUID is unused
    writing,    \* rows whose INSERT has not committed
    table       \* rows that a query sees

rowVars == <<now, stamp, writing, table>>

RowInit ==
    /\ now = 1
    /\ stamp \in [Ids -> 0..1]
    /\ writing = {}
    /\ table = {i \in Ids : stamp[i] = 1}

BeginInsert(i) ==
    /\ stamp[i] = 0
    /\ stamp' = [stamp EXCEPT ![i] = now]
    /\ writing' = writing \cup {i}
    /\ UNCHANGED <<now, table>>

CommitInsert(i) ==
    /\ i \in writing
    /\ writing' = writing \ {i}
    /\ table' = table \cup {i}
    /\ UNCHANGED <<now, stamp>>

Delete(i) ==
    /\ i \in table
    /\ table' = table \ {i}
    /\ UNCHANGED <<now, stamp, writing>>

Tick ==
    /\ now < MaxTime
    /\ now' = now + 1
    /\ UNCHANGED <<stamp, writing, table>>

\* The first PageSize of the candidates, in an order that ties leave open.
IsPage(page, candidates, Precedes(_, _)) ==
    /\ page \subseteq candidates
    /\ Cardinality(page) <= PageSize
    /\ page # candidates => Cardinality(page) = PageSize
    /\ \A i \in page, j \in candidates \ page : ~Precedes(j, i)
=============================================================================
