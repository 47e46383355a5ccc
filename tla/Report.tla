------------------------------- MODULE Report -------------------------------
(***************************************************************************)
(* GET /api/reports.  The days asked for become a span of instants in the  *)
(* report's zone; then five queries, each a transaction of its own, count  *)
(* the entries of that span by tag, by type and by week, and the days of   *)
(* this month that have one.                                               *)
(***************************************************************************)
EXTENDS Integers, FiniteSetsExt, Functions, Maps

CONSTANTS
    Entries,        \* rows that exist or may be added
    Sorts,          \* what a row may hold: [tag, type, seconds]
    Zones,          \* [at, before, after]: an offset from UTC that changes once
    DayHours, WeekDays, MonthDays,
    MaxChartWeeks,  \* maxChartWeeks
    MaxSeconds,     \* the largest int of PostgreSQL
    Asked,          \* the dates that a user asks for
    Now             \* the hour of the request

ASSUME CalendarOK == {DayHours, WeekDays, MonthDays, MaxChartWeeks} \subseteq Nat \ {0}

ASSUME RequestOK ==
    /\ Now \in Nat /\ Asked \subseteq Int
    /\ IsFiniteSet(Entries)
    /\ MaxSeconds \in Nat /\ \A s \in Sorts : s.seconds \in 0..MaxSeconds

\* The clock goes from last + 1 to next.  It is not set back into an earlier day, nor
\* forward over a midnight unless it stands at midnight or comes to it.  No zone repeats
\* its midnight east of Greenwich, where time.Date gives the second one; none has since
\* 2021.
ASSUME ZonesOK ==
    \A z \in Zones :
        LET last == z.at + z.before - 1
            next == z.at + z.after
        IN /\ {z.at, z.before, z.after} \subseteq Int
           /\ next > last + 1 => (next - 1) \div DayHours = (last + 1) \div DayHours
           /\ next <= last => /\ last \div DayHours <= next \div DayHours
                              /\ z.before > 0 => next % DayHours # 0

VARIABLES
    zone,
    span,       \* the first and the last date asked for
    listed,     \* the rows that a query sees
    row,        \* row[e], for these: when e was created and what it holds
    query,      \* the query that comes next, or done, or failed
    report,     \* its parts so far
    changed     \* history: rows have changed since the first query

reportVars == <<zone, span, listed, row, query, report, changed>>

NoReport == [total |-> 0, seconds |-> 0, tagged |-> 0, typed |-> 0, typedMinutes |-> 0,
             weeks |-> <<>>, days |-> 0]

ReportInit ==
    /\ zone \in Zones
    /\ span \in [first : Asked, last : Asked]
    /\ listed \in SUBSET Entries
    /\ \E at \in [listed -> 0..Now], s \in [listed -> Sorts] :
          row = [e \in listed |-> [at |-> at[e], holds |-> s[e]]]
    /\ query = "totals" /\ report = NoReport
    /\ changed = FALSE

-----------------------------------------------------------------------------
(* Dates: day 0 begins with hour 0 of UTC.                                 *)

ZoneOffset(t) == IF t < zone.at THEN zone.before ELSE zone.after

LocalDate(t) == (t + ZoneOffset(t)) \div DayHours

SamePeriod(t, u) == (t < zone.at) = (u < zone.at)

\* time.Date(year, month, day, 0, 0, 0, 0, loc): the offset is looked up at the local
\* time as if it were UTC and, when that leads out of its period, once more.
GoMidnight(day) ==
    LET local == day * DayHours
        utc == local - ZoneOffset(local)
    IN IF SamePeriod(local, utc) THEN utc ELSE local - ZoneOffset(utc)

\* Mutant of StartOfDay: midnight is taken as time.Date gives it.
StartOfDayRaw(day) == GoMidnight(day)

\* startOfDay goes on by the hour while it is still the day before.
StartOfDay(day) ==
    CHOOSE t \in GoMidnight(day) .. GoMidnight(day) + 2 * DayHours :
        /\ LocalDate(t) >= day
        /\ \A u \in GoMidnight(day) .. (t - 1) : LocalDate(u) < day

WeekStart(day) == day - (day % WeekDays)

Today == LocalDate(Now)

MonthStart == Today - (Today % MonthDays)

\* weeklyChartRange: the first day that is charted.
ChartFirst ==
    Max({span.first, WeekStart(span.last) - WeekDays * (MaxChartWeeks - 1)})

-----------------------------------------------------------------------------
(* The queries                                                             *)

Between(start, end) == {e \in listed : start <= row[e].at /\ row[e].at < end}

InSpan == Between(StartOfDay(span.first), StartOfDay(span.last + 1))

Seconds(rows) == SumFunction([e \in rows |-> row[e].holds.seconds])

Groups(rows, Key(_)) == {{e \in rows : Key(e) = k} : k \in {Key(e) : e \in rows}}

\* minutesFromSeconds rounds up.
Minutes(seconds) == (seconds + 59) \div 60

\* The sum of a query, or of a group of it, must fit into an int.
Counts(rows, next) ==
    /\ Seconds(rows) <= MaxSeconds
    /\ query' = next
    /\ UNCHANGED <<zone, span, row, listed, changed>>

GetReportTotals ==
    /\ query = "totals"
    /\ Counts(InSpan, "tags")
    /\ report' = [report EXCEPT !.total = Cardinality(InSpan), !.seconds = Seconds(InSpan)]

TaggedRows == {e \in InSpan : row[e].holds.tag # ""}

AggregateByTag ==
    /\ query = "tags"
    /\ Counts(TaggedRows, "types")
    /\ report' = [report EXCEPT !.tagged = Cardinality(TaggedRows)]

\* Mutant of TypedMinutes: each type is rounded before they are added.
TypedMinutesEach(groups) == SumFunction([g \in groups |-> Minutes(Seconds(g))])

\* buildTypeReport rounds once, after the sum.
TypedMinutes(groups) == Minutes(SumFunction([g \in groups |-> Seconds(g)]))

AggregateByType ==
    /\ query = "types"
    /\ \A g \in Groups(InSpan, LAMBDA e : row[e].holds.type) : Seconds(g) <= MaxSeconds
    /\ Counts({}, "weeks")
    /\ LET groups == Groups(InSpan, LAMBDA e : row[e].holds.type) IN
       report' = [report EXCEPT !.typed = SumFunction([g \in groups |-> Cardinality(g)]),
                                !.typedMinutes = TypedMinutes(groups)]

\* Mutant of ChartWeeks: it begins with the first day, not with its week.
ChartWeeksFromFirst == {w \in ChartFirst .. span.last : (w - ChartFirst) % WeekDays = 0}

\* buildWeekReport lists every week; what is counted for another one is dropped.
ChartWeeks == {w \in WeekStart(ChartFirst) .. span.last : w % WeekDays = 0}

AggregateByWeek ==
    LET charted == Between(StartOfDay(ChartFirst), StartOfDay(span.last + 1)) IN
    /\ query = "weeks"
    /\ \A g \in Groups(charted, LAMBDA e : WeekStart(LocalDate(row[e].at))) :
          Seconds(g) <= MaxSeconds
    /\ Counts({}, "days")
    /\ report' = [report EXCEPT !.weeks =
          [w \in IF span.last < ChartFirst THEN {} ELSE ChartWeeks |->
              Cardinality({e \in charted : WeekStart(LocalDate(row[e].at)) = w})]]

CountActiveDays ==
    LET month == Between(StartOfDay(MonthStart), StartOfDay(Today + 1)) IN
    /\ query = "days"
    /\ Counts({}, "done")
    /\ report' = [report EXCEPT !.days = Cardinality({LocalDate(row[e].at) : e \in month})]

\* Any error is answered with a 500 and nothing of the report.
ReportFails ==
    /\ query \notin {"done", "failed"}
    /\ query' = "failed" /\ report' = NoReport
    /\ UNCHANGED <<zone, span, row, listed, changed>>

\* An insert, perhaps after midnight, an edit or a delete between two queries.  Bound:
\* one of them.
RowsChange ==
    /\ query \notin {"totals", "done", "failed"} /\ ~changed
    /\ \E e \in Entries :
          \/ /\ e \notin listed
             /\ \E at \in {Now, Now + 1}, s \in Sorts :
                   row' = Put(row, e, [at |-> at, holds |-> s])
             /\ listed' = listed \cup {e}
          \/ /\ e \in listed
             /\ \E s \in Sorts : row' = [row EXCEPT ![e].holds = s]
             /\ UNCHANGED listed
          \/ /\ e \in listed
             /\ row' = Restrict(row, listed \ {e})
             /\ listed' = listed \ {e}
    /\ changed' = TRUE
    /\ UNCHANGED <<zone, span, query, report>>

ReportNext ==
    \/ GetReportTotals \/ AggregateByTag \/ AggregateByType \/ AggregateByWeek \/ CountActiveDays
    \/ ReportFails \/ RowsChange

ReportSpec == ReportInit /\ [][ReportNext]_reportVars

-----------------------------------------------------------------------------
(* Properties                                                              *)

OfDates(first, last) == {e \in listed : first <= LocalDate(row[e].at) /\ LocalDate(row[e].at) <= last}

\* The totals count the entries whose local date was asked for, also around a day
\* without a midnight or with an hour more or less; and no more days of this month have
\* an entry than have passed, even when midnight passes between the queries.
DatesAreLocal ==
    /\ query \notin {"totals", "failed"} /\ ~changed =>
          report.total = Cardinality(OfDates(span.first, span.last))
    /\ report.days <= Today - MonthStart + 1

\* A report that no write has disturbed is consistent: types and totals agree on the
\* entries and on the rounded minutes, and the tags are a part of them.
PartsAgree ==
    query = "done" /\ ~changed =>
        /\ report.typed = report.total
        /\ report.typedMinutes = Minutes(report.seconds)
        /\ report.tagged <= report.total

\* The chart drops nothing: its weeks hold all the entries of the days it covers.
ChartIsComplete ==
    query = "done" /\ ~changed => SumFunction(report.weeks) = Cardinality(OfDates(ChartFirst, span.last))

-----------------------------------------------------------------------------
(* The inductive invariant                                                 *)

Stages == {"totals", "tags", "types", "weeks", "days", "done", "failed"}

ReportTypeOK ==
    /\ zone \in Zones /\ span \in [first : Asked, last : Asked]
    /\ listed \subseteq Entries /\ row \in [listed -> [at : Nat, holds : Sorts]]
    /\ query \in Stages /\ changed \in BOOLEAN

\* What the queries so far have counted, while no write disturbs them.
PartsSoFar ==
    ~changed /\ query # "failed" =>
        /\ query # "totals" =>
              report.total = Cardinality(InSpan) /\ report.seconds = Seconds(InSpan)
        /\ query \notin {"totals", "tags"} => report.tagged = Cardinality(TaggedRows)
        /\ query \notin {"totals", "tags", "types"} =>
              /\ report.typed = Cardinality(InSpan)
              /\ report.typedMinutes = Minutes(Seconds(InSpan))
        /\ query \in {"days", "done"} =>
              SumFunction(report.weeks) = Cardinality(OfDates(ChartFirst, span.last))

ReportInv ==
    /\ ReportTypeOK /\ PartsSoFar
    /\ DOMAIN report = DOMAIN NoReport
    /\ report.days <= Today - MonthStart + 1
=============================================================================
