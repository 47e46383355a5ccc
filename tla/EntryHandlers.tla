--------------------------- MODULE EntryHandlers ----------------------------
(***************************************************************************)
(* The rows of a dashboard tab and the handlers that they call: polling,   *)
(* retry and delete.  Each handler is a series of queries.  Workers, other *)
(* tabs and edits come in between, several calls may be under way at once, *)
(* and the tab may have moved on when an answer arrives.                   *)
(***************************************************************************)
EXTENDS Naturals, Functions, Maps

CONSTANTS
    Calls,          \* requests of the tab that may be under way at once
    Entries,        \* UUIDs; one that has been deleted stands for a new one
    Tags, All       \* the dashboard's filters: one tag, or none

ASSUME AllOK == All \notin Tags

VARIABLES
    entry,      \* entry[i], for those that exist: tag and status
    at,         \* the filter in the URL of the tab
    shown,      \* shown[i]: status and return_to of the rows on it
    call,       \* call[c]: what is asked and how far the handler is
    missing     \* history: missing[c]: the polled entry has not fitted the filter
                \* at some moment of the call

tabVars == <<at, shown>>
handlerVars == <<entry, tabVars, call, missing>>

NoCall == [op |-> "none"]
NoTag  == "untagged"
Nowhere == "nowhere"

Exists(i) == i \in DOMAIN entry

\* The status icons and needsPolling tell no more apart.
Statuses == {"waiting", "failed", "settled"}

Listed(rows, filter) == {i \in DOMAIN rows : filter = All \/ rows[i].tag = filter}

Fits(i, filter) == i \in Listed(entry, filter)

\* Mutant of RowOf: the row is not stamped with the page that asked for it.
RowOfUnstamped(row, page) == [status |-> row.status, back |-> All]

\* buildEntryView and stampDashboardEntryViewFromRequest.
RowOf(row, page) == [status |-> row.status, back |-> page]

Page(rows, filter) == [i \in Listed(rows, filter) |-> RowOf(rows[i], filter)]

HandlersInit ==
    /\ entry = <<>>
    /\ at = All /\ shown = <<>>
    /\ call = [c \in Calls |-> NoCall]
    /\ missing = [c \in Calls |-> FALSE]

Absent == [status |-> "none", back |-> Nowhere]

Begin(c, op, step, i) ==
    /\ call[c] = NoCall
    /\ call' = [call EXCEPT ![c] = [op |-> op, step |-> step, id |-> i, from |-> at, row |-> Absent]]
    /\ UNCHANGED <<entry, tabVars>>

Go(c, step) == call' = [call EXCEPT ![c].step = step]

Finish(c) == call' = [call EXCEPT ![c] = NoCall]

In(c, op, step) == call[c].op = op /\ call[c].step = step

\* The row or the page that asked has left the tab: nobody hears the answer, but what
\* the handler has still to change it does change.
Unheard(what) ==
    IF what.op \in {"none", "status"} THEN NoCall ELSE [what EXCEPT !.from = Nowhere]

\* The tab goes to a page, on its own or as HX-Redirect tells it to.
Show(filter, rows, others) ==
    /\ at' = filter
    /\ shown' = Page(rows, filter)
    /\ call' = [c \in Calls |-> Unheard(others[c])]

Navigate(filter) ==
    /\ Show(filter, entry, call)
    /\ UNCHANGED entry

-----------------------------------------------------------------------------
(* GET /entries/{id}/status and POST /api/entries/{id}/refresh-enrichment  *)

\* A row polls every five seconds while it waits, one request at a time.
Poll(c, i) ==
    /\ i \in DOMAIN shown /\ shown[i].status = "waiting"
    /\ \A d \in Calls : ~(call[d].op = "status" /\ call[d].id = i)
    /\ Begin(c, "status", "read", i)

Retry(c, i) ==
    /\ i \in DOMAIN shown /\ shown[i].status = "failed"
    /\ Begin(c, "retry", "reset", i)

ResetEnrichment(c) ==
    /\ In(c, "retry", "reset")
    /\ entry' = IF Exists(call[c].id) THEN [entry EXCEPT ![call[c].id].status = "waiting"] ELSE entry
    /\ Go(c, "read")
    /\ UNCHANGED tabVars

\* An entry that is gone is answered with 404, which htmx does not swap in.
ReadEntry(c) ==
    LET asked == call[c] IN
    /\ asked.op \in {"status", "retry"} /\ asked.step = "read"
    /\ IF ~Exists(asked.id) THEN Finish(c)
       ELSE call' = [call EXCEPT
               ![c].row = RowOf(entry[asked.id], asked.from),
               ![c].step = IF asked.op = "status" /\ asked.from # All THEN "filter" ELSE "answer"]
    /\ UNCHANGED <<entry, tabVars>>

\* Mutant of KeepsRow: a check that fails takes the row away.
KeepsRowIfChecked(c, failed) == ~failed /\ Fits(call[c].id, call[c].from)

\* matchesDashboardFilter: a check that fails keeps the row.
KeepsRow(c, failed) == failed \/ Fits(call[c].id, call[c].from)

MatchFilter(c) ==
    /\ In(c, "status", "filter")
    /\ \E failed \in BOOLEAN : Go(c, IF KeepsRow(c, failed) THEN "answer" ELSE "remove")
    /\ UNCHANGED <<entry, tabVars>>

\* The row is swapped for the new one, or for the empty body.
Answer(c) ==
    /\ call[c].op \in {"status", "retry"} /\ call[c].step \in {"answer", "remove"}
    /\ shown' = IF call[c].from = Nowhere THEN shown
                ELSE IF call[c].step = "answer" THEN Put(shown, call[c].id, call[c].row)
                ELSE Restrict(shown, DOMAIN shown \ {call[c].id})
    /\ Finish(c)
    /\ UNCHANGED <<entry, at>>

-----------------------------------------------------------------------------
(* DELETE /api/entries/{id}                                                *)

PressDelete(c, i) ==
    /\ i \in DOMAIN shown
    /\ Begin(c, "delete", "read", i)

\* Of two tabs that delete an entry at once both may get this far.
FindForDelete(c) ==
    /\ In(c, "delete", "read")
    /\ IF Exists(call[c].id) THEN Go(c, "delete") ELSE Finish(c)
    /\ UNCHANGED <<entry, tabVars>>

\* HX-Redirect leads to the page that the tab was on.
DeleteEntry(c) ==
    /\ In(c, "delete", "delete")
    /\ entry' = Restrict(entry, DOMAIN entry \ {call[c].id})
    /\ IF call[c].from = Nowhere THEN Finish(c) /\ UNCHANGED tabVars
       ELSE Show(at, entry', [call EXCEPT ![c] = NoCall])

-----------------------------------------------------------------------------
\* A query fails, or the answer is lost: the page stays as it is.
CallFails(c) ==
    /\ call[c] # NoCall
    /\ Finish(c)
    /\ UNCHANGED <<entry, tabVars>>

\* A worker settles the enrichment; another tab captures, edits or deletes an entry.
Elsewhere(i) ==
    /\ \/ /\ Exists(i) /\ entry[i].status = "waiting"
          /\ \E s \in {"failed", "settled"} : entry' = [entry EXCEPT ![i].status = s]
       \/ /\ Exists(i)
          /\ \E tag \in Tags \cup {NoTag} : entry' = [entry EXCEPT ![i].tag = tag]
       \/ /\ ~Exists(i)
          /\ \E tag \in Tags \cup {NoTag} :
                entry' = Put(entry, i, [tag |-> tag, status |-> "waiting"])
       \/ /\ Exists(i)
          /\ entry' = Restrict(entry, DOMAIN entry \ {i})
    /\ UNCHANGED <<tabVars, call>>

Misses(c) == ~Fits(call[c].id, call[c].from)

CallStep(c) ==
    \/ \E i \in Entries : Poll(c, i) \/ Retry(c, i) \/ PressDelete(c, i)
    \/ ResetEnrichment(c) \/ ReadEntry(c) \/ MatchFilter(c) \/ Answer(c)
    \/ FindForDelete(c) \/ DeleteEntry(c)
    \/ CallFails(c)

HandlersNext ==
    /\ \/ \E c \in Calls : CallStep(c)
       \/ \E filter \in Tags \cup {All} : Navigate(filter)
       \/ \E i \in Entries : Elsewhere(i)
    /\ missing' = [c \in Calls |->
          /\ call'[c].op = "status"
          /\ (call[c].op = "status" /\ missing[c]) \/ Misses(c)']

HandlersSpec == HandlersInit /\ [][HandlersNext]_handlerVars

-----------------------------------------------------------------------------
(* Properties                                                              *)

\* A poll takes a row off the page only if the entry was gone or outside the filter
\* at some moment of the call: a failed check or a late answer never does.
RowsVanishForReason ==
    [][\A c \in Calls : Answer(c) /\ DOMAIN shown \ DOMAIN shown' # {} => missing[c]]_handlerVars

\* However often a row is swapped while the tab moves from page to page, its edit link
\* leads back to the page that it is on.
EditLinkReturnsHere == \A i \in DOMAIN shown : shown[i].back = at

-----------------------------------------------------------------------------
(* Why: a call that the tab still listens to was made by the page that it  *)
(* shows, so the row that it brings is stamped with that page.             *)
Asks(what, page) ==
    /\ what.from \in {page, Nowhere}
    /\ what.step \in {"filter", "answer"} /\ what.from # Nowhere => what.row.back = page
    /\ what.step = "remove" => what.op = "status"

Filters == Tags \cup {All}
Row == [status : Statuses \cup {"none"}, back : Filters \cup {Nowhere}]

Call == [op : {"status", "retry", "delete"},
         step : {"reset", "read", "filter", "answer", "remove", "delete"},
         id : Entries, from : Filters \cup {Nowhere}, row : Row]

HandlersOK ==
    /\ at \in Filters
    /\ entry \in [DOMAIN entry -> [tag : Tags \cup {NoTag}, status : Statuses]]
    /\ call \in [Calls -> {NoCall} \cup Call]

HandlersInv ==
    /\ HandlersOK
    /\ EditLinkReturnsHere
    /\ \A c \in Calls : call[c] # NoCall => Asks(call[c], at)
    /\ \A c \in Calls : call[c].op = "status" =>
          /\ Misses(c) => missing[c]
          /\ call[c].step = "remove" => missing[c]
=============================================================================
