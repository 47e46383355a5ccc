------------------------------ MODULE MCLists -------------------------------
(* The dashboard and the report for TLC.  They share no state: a behaviour *)
(* looks at one of them while the other one rests.  The rows of the        *)
(* dashboard are alike, for its list has no order by UUID.                 *)
EXTENDS Dashboard, Report, TLC

VARIABLE part

\* A day has four hours.  Midnight of day 2 is skipped or repeated, the whole day is
\* skipped, or the clock changes at another time of the day.
MCZones ==
    LET changes(before, after, at) == [at |-> at, before |-> before, after |-> after] IN
    { changes(1, 1, 0), changes(1, 2, 7), changes(-2, -1, 10), changes(-1, -2, 10),
      changes(-2, 2, 10), changes(2, 1, 8) }

MCSorts ==
    { [tag |-> "go", type |-> "video", seconds |-> 20], [tag |-> "", type |-> "", seconds |-> 30] }

MCInit ==
    /\ part \in {"dashboard", "report"}
    /\ Init
    /\ IF part = "report"
       THEN ReportInit /\ table = {}
       ELSE /\ zone = [at |-> 0, before |-> 1, after |-> 1] /\ span = [first |-> 1, last |-> 1]
            /\ listed = {} /\ row = <<>> /\ query = "totals" /\ report = NoReport /\ changed = FALSE

MCNext ==
    /\ UNCHANGED part
    /\ \/ part = "dashboard" /\ Next /\ UNCHANGED reportVars
       \/ part = "report" /\ ReportNext /\ UNCHANGED vars

MCSpec == MCInit /\ [][MCNext]_<<part, vars, reportVars>>

Symmetry == Permutations(Ids)
=============================================================================
