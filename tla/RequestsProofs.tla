--------------------------- MODULE RequestsProofs ---------------------------
(***************************************************************************)
(* Theorems about what the handlers answer: the CSV export, for any page   *)
(* size, range and rows; captures of links, for any requests; the rows of  *)
(* a page, for any calls of its tab; and logins, for any tabs, replicas    *)
(* and tokens.                                                             *)
(***************************************************************************)
EXTENDS CsvExport, Capture, EntryHandlers, Access, FiniteSetTheorems, TLAPS

-----------------------------------------------------------------------------
(* CsvExport                                                               *)

(* The keyset is a strict total order of the rows.                         *)
LEMMA KeysetIsOrder ==
  ASSUME TypeOK
  PROVE  /\ \A i \in Ids : ~Precedes(i, i)
         /\ \A i, j \in Ids : i = j \/ Precedes(i, j) \/ Precedes(j, i)
         /\ \A i, j, k \in Ids : Precedes(i, j) /\ Precedes(j, k) => Precedes(i, k)
         /\ \A i, j \in Ids : Precedes(i, j) => ~Precedes(j, i)
  <1>1. \A i \in Ids : i \in Nat /\ stamp[i] \in Nat
    BY IdsOK DEF TypeOK
  <1> QED
    BY <1>1 DEF Precedes

(* A page that is not full is all there was.                               *)
LEMMA ShortPageIsAll ==
  ASSUME NEW page, NEW candidates, IsPage(page, candidates, Precedes), Cardinality(page) < PageSize
  PROVE  page = candidates
  BY RowsOK DEF IsPage

(* Rows that keep their stamps keep their order.                           *)
LEMMA OrderStays ==
  ASSUME NEW i \in Ids, NEW j \in Ids, stamp'[i] = stamp[i], stamp'[j] = stamp[j]
  PROVE  Precedes(i, j)' <=> Precedes(i, j)
  BY DEF Precedes

(* The rows of a page are new and lie between the cursor and the rest.     *)
LEMMA PageStep ==
  ASSUME IInv, WritePage, UNCHANGED rowVars,
         stage \in {"idle", "reading"}, stage = "idle" => last = NoRow,
         \/ stage = "idle" /\ began' = now /\ present' = Remaining(NoRow)
         \/ stage = "reading" /\ UNCHANGED <<began, present>>
  PROVE  IInv'
  <1> USE DEF IInv
  <1>1. PICK page \in SUBSET Remaining(last) :
           /\ IsPage(page, Remaining(last), Precedes)
           /\ twice' = twice \cup (page \cap written)
           /\ written' = written \cup page
           /\ IF Cardinality(page) < PageSize
              THEN stage' = "done" /\ UNCHANGED last
              ELSE /\ stage' = "reading"
                   /\ last' \in {i \in page : \A j \in page : ~Precedes(i, j)}
    BY DEF WritePage
  <1>2. /\ stamp' = stamp /\ table' = table /\ now' = now /\ writing' = writing
        /\ \A i, j : Precedes(i, j)' <=> Precedes(i, j)
    BY DEF rowVars, Precedes
  <1>3. page \subseteq Ids /\ page \subseteq table /\ page \subseteq Remaining(last)
    BY <1>1 DEF Remaining, TypeOK
  <1>4. stage = "reading" => last \in Ids /\ last # NoRow
    BY IdsOK DEF TypeOK, CursorSplitsRange, NoRow
  <1>5. page \cap written = {}
    <2>1. CASE stage = "idle"
      BY <2>1 DEF CursorSplitsRange
    <2>2. CASE stage = "reading"
      <3>1. \A i \in page : Precedes(last, i)
        BY <2>2, <1>3, <1>4 DEF Remaining
      <3>2. \A i \in written : i = last \/ Precedes(i, last)
        BY <2>2 DEF CursorSplitsRange
      <3> QED
        BY <3>1, <3>2, <1>3, <1>4, <2>2, KeysetIsOrder
    <2> QED
      BY <2>1, <2>2
  <1>6. NothingTwice'
    BY <1>1, <1>5 DEF NothingTwice
  <1>7. TypeOK'
    <2>1. present' \subseteq Ids /\ began' \in Nat
      BY DEF Remaining, TypeOK
    <2>2. last' \in Ids \cup {NoRow} /\ stage' \in {"idle", "reading", "done", "cut"}
      BY <1>1, <1>3 DEF TypeOK
    <2> QED
      BY <1>1, <1>2, <1>3, <1>5, <2>1, <2>2 DEF TypeOK, rowVars
  (* Rows still to come were ahead of the old cursor or are not read yet.  *)
  <1>8. present' \ written \subseteq Remaining(last)
    <2>1. CASE stage = "idle"
      BY <2>1
    <2>2. CASE stage = "reading"
      BY <2>2, <1>4 DEF CursorSplitsRange, RowsAreStamped, Remaining
    <2> QED
      BY <2>1, <2>2
  <1>9. NothingSkipped'
    <2>1. CASE Cardinality(page) < PageSize
      BY <1>1, <1>8, <2>1, ShortPageIsAll DEF NothingSkipped
    <2>2. CASE ~(Cardinality(page) < PageSize)
      BY <1>1, <2>2 DEF NothingSkipped
    <2> QED
      BY <2>1, <2>2
  <1>10. CursorSplitsRange'
    <2>1. CASE Cardinality(page) < PageSize
      BY <1>1, <2>1 DEF CursorSplitsRange
    <2>2. CASE ~(Cardinality(page) < PageSize)
      <3>1. /\ stage' = "reading" /\ last' \in page
            /\ \A j \in page : j = last' \/ Precedes(j, last')
        BY <1>1, <1>3, <2>2, KeysetIsOrder
      <3>2. \A i \in written : Precedes(i, last')
        <4>1. CASE stage = "idle"
          BY <4>1 DEF CursorSplitsRange
        <4>2. CASE stage = "reading"
          <5>1. Precedes(last, last')
            BY <3>1, <4>2, <1>3, <1>4 DEF Remaining
          <5>2. \A i \in written : i = last \/ Precedes(i, last)
            BY <4>2 DEF CursorSplitsRange
          <5> QED
            BY <5>1, <5>2, <3>1, <1>3, <1>4, <4>2, KeysetIsOrder DEF TypeOK
        <4> QED
          BY <4>1, <4>2
      <3>3. \A i \in present' \ written' : Precedes(last', i)
        <4> TAKE i \in present' \ written'
        <4>1. i \in Remaining(last) /\ i \notin page /\ i \in Ids
          BY <1>1, <1>8, <1>7 DEF TypeOK
        <4>2. ~Precedes(i, last') /\ i # last'
          BY <1>1, <3>1, <4>1 DEF IsPage
        <4> QED
          BY <4>1, <4>2, <3>1, <1>3, KeysetIsOrder
      <3> QED
        BY <1>1, <1>2, <3>1, <3>2, <3>3 DEF CursorSplitsRange
    <2> QED
      BY <2>1, <2>2
  <1>11. RowsAreStamped'
    BY <1>1, <1>2, <1>3 DEF RowsAreStamped, Remaining, TypeOK
  <1>12. ExportIsBounded'
    <2>1. CASE stage = "idle"
      BY <2>1, <1>1, <1>2, <1>3 DEF ExportIsBounded, CursorSplitsRange, RowsAreStamped
    <2>2. CASE stage = "reading"
      <3>1. stamp[last] <= began /\ stamp[last] \in Nat /\ began \in Nat
        BY <2>2, <1>4 DEF CursorSplitsRange, ExportIsBounded, TypeOK
      <3>2. \A i \in page : stamp[i] <= stamp[last] /\ stamp[i] \in Nat
        BY <2>2, <1>3, <1>4 DEF Remaining, Precedes, TypeOK
      <3> QED
        BY <1>1, <1>2, <2>2, <3>1, <3>2 DEF ExportIsBounded
    <2> QED
      BY <2>1, <2>2
  <1> QED
    BY <1>6, <1>7, <1>9, <1>10, <1>11, <1>12

(* Rows that come and go disturb neither what is written nor what is left: *)
(* a row that appears was not there all the time, and none changes place.  *)
LEMMA RowStepKeeps ==
  ASSUME IInv, RowStep
  PROVE  IInv'
  <1> USE DEF IInv
  <1> DEFINE Tame == /\ stamp' \in [Ids -> Nat] /\ now' \in Nat /\ now <= now'
                     /\ writing' \subseteq Ids /\ table' \subseteq Ids
                     /\ \A i \in Ids : stamp[i] # 0 => stamp'[i] = stamp[i]
                     /\ \A i \in Ids : stamp'[i] <= now'
                     /\ \A i \in table' \cup writing' : stamp'[i] # 0
  <1>1. Tame
    <2> USE DEF TypeOK, RowsAreStamped
    <2>1. ASSUME NEW i \in Ids, BeginInsert(i) PROVE Tame
      BY <2>1 DEF BeginInsert
    <2>2. ASSUME NEW i \in Ids, CommitInsert(i) PROVE Tame
      BY <2>2 DEF CommitInsert
    <2>3. ASSUME NEW i \in Ids, Delete(i) PROVE Tame
      BY <2>3 DEF Delete
    <2>4. CASE Tick
      BY <2>4 DEF Tick
    <2> QED
      BY <2>1, <2>2, <2>3, <2>4 DEF RowStep
  <1>2. /\ present' = present \cap table'
        /\ UNCHANGED <<stage, last, written, twice, began>>
    BY DEF RowStep
  <1>3. written \subseteq {i \in Ids : stamp[i] # 0} /\ present \subseteq {i \in Ids : stamp[i] # 0}
    BY DEF RowsAreStamped
  <1>4. TypeOK' /\ NothingTwice' /\ NothingSkipped'
    BY <1>1, <1>2 DEF TypeOK, NothingTwice, NothingSkipped
  <1>5. RowsAreStamped'
    BY <1>1, <1>2, <1>3 DEF RowsAreStamped, TypeOK
  <1>6. ExportIsBounded'
    BY <1>1, <1>2, <1>3 DEF ExportIsBounded
  <1>7. CursorSplitsRange'
    BY <1>1, <1>2, <1>3, OrderStays DEF CursorSplitsRange
  <1> QED
    BY <1>4, <1>5, <1>6, <1>7

(* Every step keeps the invariant.                                         *)
LEMMA ExportInvariant == IInv /\ [Next]_vars => IInv'
  <1> SUFFICES ASSUME IInv, [Next]_vars PROVE IInv'
    OBVIOUS
  <1>1. CASE FirstPage
    BY <1>1, PageStep DEF FirstPage, IInv, CursorSplitsRange
  <1>2. CASE NextPage
    BY <1>2, PageStep DEF NextPage
  <1>3. CASE StopEarly
    BY <1>3 DEF StopEarly, rowVars, IInv, TypeOK, CursorSplitsRange, RowsAreStamped,
                NothingTwice, NothingSkipped, ExportIsBounded
  <1>4. CASE RowStep
    BY <1>4, RowStepKeeps
  <1>5. CASE UNCHANGED vars
    BY <1>5 DEF vars, IInv, TypeOK, CursorSplitsRange, RowsAreStamped,
                NothingTwice, NothingSkipped, ExportIsBounded, Precedes
  <1> QED
    BY <1>1, <1>2, <1>3, <1>4, <1>5 DEF Next

(* The cursor splits the range in every reachable state.                   *)
THEOREM ExportInductive == Spec => []IInv
  <1>1. Init => IInv
    BY DEF Init, RowInit, IInv, TypeOK, CursorSplitsRange, RowsAreStamped,
           NothingTwice, NothingSkipped, ExportIsBounded
  <1> QED
    BY <1>1, ExportInvariant, PTL DEF Spec

(* The export never writes a row twice, whatever ties and page size.       *)
THEOREM NeverRepeats == Spec => []NothingTwice
  BY ExportInductive, PTL DEF IInv

(* A complete export has every row of the range that was there throughout. *)
THEOREM NeverSkips == Spec => []NothingSkipped
  BY ExportInductive, PTL DEF IInv

(* No entry that is created while the export runs prolongs it.             *)
THEOREM StaysBounded == Spec => []ExportIsBounded
  BY ExportInductive, PTL DEF IInv

-----------------------------------------------------------------------------
(* Capture                                                                 *)

\* CaptureInv holds: the check of a request that is about to insert has seen every entry
\* that was there when it began, and none of those has its link.
LEMMA CaptureInductive == CaptureSpec => []CaptureInv
<1>1. CaptureInit => CaptureInv
  BY DEF CaptureInit, CaptureInv, NoCapture
<1>2. CaptureInv /\ [CaptureNext]_captureVars => CaptureInv'
  <2> SUFFICES ASSUME CaptureInv, [CaptureNext]_captureVars PROVE CaptureInv'
    OBVIOUS
  <2> USE DEF CaptureInv
  <2>1. ASSUME UNCHANGED captureVars PROVE CaptureInv'
    BY <2>1 DEF captureVars
  <2>2. ASSUME NEW c \in Captures, NEW x, capture' = [capture EXCEPT ![c] = x],
               NEW seen \in SUBSET DOMAIN link, known' = [known EXCEPT ![c] = seen],
               UNCHANGED link, x.step # "insert"
        PROVE  CaptureInv'
    <3>1. capture' \in [Captures -> {capture'[d] : d \in Captures}] /\ capture'[c] = x
          /\ \A d \in Captures : d # c => capture'[d] = capture[d]
      BY <2>2
    <3>2. QED
      BY <2>2, <3>1
  <2>3. ASSUME NEW c \in Captures, Submit(c) PROVE CaptureInv'
    <3>1. PICK url \in Spellings, allow \in BOOLEAN :
             capture' = [capture EXCEPT ![c] = [step |-> "check", url |-> url, allow |-> allow]]
      BY <2>3 DEF Submit
    <3>2. QED
      BY <2>2, <2>3, <3>1 DEF Submit
  <2>4. ASSUME NEW c \in Captures, Respond(c), UNCHANGED link PROVE CaptureInv'
    BY <2>2, <2>4 DEF Respond, NoCapture
  <2>5. ASSUME NEW c \in Captures, CheckDuplicate(c) PROVE CaptureInv'
    <3>1. CASE Respond(c)
      BY <2>4, <2>5, <3>1 DEF CheckDuplicate
    <3>2. CASE ~Respond(c)
      <4>1. /\ capture[c].allow \/ ~IsDuplicate(capture[c].url)
            /\ capture' = [capture EXCEPT ![c].step = "insert"]
            /\ UNCHANGED <<known, link>>
        BY <2>5, <3>2 DEF CheckDuplicate
      <4>2. capture'[c].allow = capture[c].allow /\ capture'[c].url = capture[c].url
        BY <4>1
      <4>3. capture' \in [Captures -> {capture'[d] : d \in Captures}]
            /\ \A d \in Captures : d # c => capture'[d] = capture[d]
        BY <4>1
      <4>4. QED
        BY <4>1, <4>2, <4>3 DEF IsDuplicate
    <3>3. QED
      BY <3>1, <3>2
  <2>6. ASSUME NEW c \in Captures, InsertEntry(c) PROVE CaptureInv'
    <3>1. PICK i : i \notin DOMAIN link /\ link' = Put(link, i, capture[c].url)
      BY <2>6 DEF InsertEntry
    <3>2. DOMAIN link \subseteq DOMAIN link' /\ \A j \in DOMAIN link : link'[j] = link[j]
      BY <3>1 DEF Put
    <3>3. capture' = [capture EXCEPT ![c] = NoCapture] /\ known' = [known EXCEPT ![c] = {}]
      BY <2>6 DEF InsertEntry, Respond
    <3>4. capture' \in [Captures -> {capture'[d] : d \in Captures}]
          /\ \A d \in Captures : d # c => capture'[d] = capture[d]
      BY <3>3
    <3>5. QED
      BY <3>2, <3>3, <3>4
  <2>7. ASSUME NEW i \in Links, DeleteLink(i) PROVE CaptureInv'
    <3>1. DOMAIN link' = DOMAIN link \ {i} /\ \A j \in DOMAIN link' : link'[j] = link[j]
      BY <2>7 DEF DeleteLink, Restrict
    <3>2. QED
      BY <2>7, <3>1 DEF DeleteLink
  <2>8. QED
    BY <2>1, <2>3, <2>4, <2>5, <2>6, <2>7 DEF CaptureNext, CaptureFails
<1>3. QED
  BY <1>1, <1>2, PTL DEF CaptureSpec

\* NoSilentDuplicate of the runs, for any requests and links: CreateEntry stores a link
\* that an entry has only if the user asked for it, or if that entry was not there yet when
\* the request began.
THEOREM DuplicatesOverlap == CaptureSpec => NoSilentDuplicate
<1>1. CaptureInv => [\A c \in Captures : InsertEntry(c) /\ ~capture[c].allow =>
          \A i \in DOMAIN link :
             Normalized(link[i]) = Normalized(capture[c].url) => i \notin known[c]]_captureVars
  BY DEF CaptureInv, InsertEntry
<1>2. QED
  BY <1>1, CaptureInductive, PTL DEF NoSilentDuplicate

-----------------------------------------------------------------------------
(* EntryHandlers                                                           *)

\* The rows of a table that are kept, one by one.
LEMMA Restricts ==
  ASSUME NEW map, NEW S
  PROVE  /\ DOMAIN Restrict(map, S) = S
         /\ Restrict(map, S) = [m \in S |-> Restrict(map, S)[m]]
         /\ \A m \in S : Restrict(map, S)[m] = map[m]
BY DEF Restrict

\* What the record of a request under way holds.
LEMMA CallFields ==
  \A what \in Call :
     /\ what # NoCall /\ what.op \in {"status", "retry", "delete"} /\ what.id \in Entries
     /\ what.from \in Filters \cup {Nowhere} /\ what.row \in Row
BY DEF Call, NoCall

\* A handler that goes on keeps the entry, the list and the row of its request.
LEMMA CallMoves ==
  \A what \in Call, step \in {"reset", "read", "filter", "answer", "remove", "delete"} :
     LET w == [what EXCEPT !.step = step]
     IN /\ w \in Call /\ w.op = what.op /\ w.id = what.id /\ w.from = what.from
        /\ w.row = what.row /\ w.step = step
BY DEF Call

\* A request whose list is left keeps all the rest.
LEMMA CallUnheard ==
  \A what \in Call :
     LET w == [what EXCEPT !.from = Nowhere]
     IN /\ w \in Call /\ w.op = what.op /\ w.id = what.id /\ w.from = Nowhere
        /\ w.row = what.row /\ w.step = what.step
BY DEF Call

\* missing, the history of the calls, after any step of the handlers.
MissingNext ==
  missing' = [c \in Calls |->
          /\ call'[c].op = "status"
          /\ (call[c].op = "status" /\ missing[c]) \/ Misses(c)']

\* The rows of the table entries are rows.
EntriesOK == entry \in [DOMAIN entry -> [tag : Tags \cup {NoTag}, status : Statuses]]

\* The invariant after a step that changes several requests at once.
LEMMA ManyCalls ==
  ASSUME HandlersInv, MissingNext, at' \in Filters, EntriesOK', EditLinkReturnsHere',
         call' \in [Calls -> {NoCall} \cup Call],
         \A c \in Calls : call'[c] # NoCall => Asks(call'[c], at'),
         \A c \in Calls : call'[c].op = "status" /\ call'[c].step = "remove" =>
            call[c].op = "status" /\ missing[c]
  PROVE  HandlersInv'
BY DEF HandlersInv, HandlersOK, MissingNext, EntriesOK

\* The invariant after a step of one request.
LEMMA OneCall ==
  ASSUME HandlersInv, MissingNext, EntriesOK', EditLinkReturnsHere', at' = at,
         NEW c \in Calls, NEW what \in {NoCall} \cup Call, call' = [call EXCEPT ![c] = what],
         what # NoCall => Asks(what, at),
         what.op = "status" /\ what.step = "remove" => call[c].op = "status" /\ missing[c]
  PROVE  HandlersInv'
<1>1. call' \in [Calls -> {NoCall} \cup Call] /\ call'[c] = what
      /\ \A d \in Calls : d # c => call'[d] = call[d]
  BY DEF HandlersInv, HandlersOK
<1>3. \A d \in Calls : call'[d] # NoCall => Asks(call'[d], at')
  BY <1>1 DEF HandlersInv
<1>4. \A d \in Calls : call'[d].op = "status" /\ call'[d].step = "remove" =>
         call[d].op = "status" /\ missing[d]
  BY <1>1 DEF HandlersInv
<1>5. QED
  BY <1>1, <1>3, <1>4, ManyCalls DEF HandlersInv, HandlersOK

\* A request that is over is not one of the three kinds.
LEMMA NoCallIsNone == NoCall.op = "none" /\ NoCall \in {NoCall} \cup Call
BY DEF NoCall

\* A step that changes neither the table nor the tab keeps what they are.
LEMMA RowsStay ==
  ASSUME HandlersInv, UNCHANGED <<entry, tabVars>>
  PROVE  EntriesOK' /\ EditLinkReturnsHere' /\ at' = at
BY DEF HandlersInv, HandlersOK, EntriesOK, EditLinkReturnsHere, tabVars

\* A poll, a retry or a delete, as it begins.
LEMMA BeginStep ==
  ASSUME HandlersInv, MissingNext, NEW c \in Calls, NEW i \in Entries,
         \/ Begin(c, "status", "read", i)
         \/ Begin(c, "retry", "reset", i)
         \/ Begin(c, "delete", "read", i)
  PROVE  HandlersInv'
<1>1. ASSUME NEW op \in {"status", "retry", "delete"}, NEW step \in {"read", "reset"}, Begin(c, op, step, i)
      PROVE  HandlersInv'
  <2> DEFINE what == [op |-> op, step |-> step, id |-> i, from |-> at, row |-> Absent]
  <2>1. call' = [call EXCEPT ![c] = what] /\ UNCHANGED <<entry, tabVars>>
    BY <1>1 DEF Begin
  <2>2. what \in Call
    BY DEF HandlersInv, HandlersOK, Call, Absent, Row
  <2>3. Asks(what, at) /\ what.step # "remove"
    BY DEF Asks
  <2> HIDE DEF what
  <2>4. QED
    BY <2>1, <2>2, <2>3, OneCall, RowsStay
<1>2. QED
  BY <1>1

\* A handler that is done.
LEMMA FinishStep ==
  ASSUME HandlersInv, MissingNext, NEW c \in Calls, Finish(c), EntriesOK', EditLinkReturnsHere', at' = at
  PROVE  HandlersInv'
BY OneCall, NoCallIsNone DEF Finish

\* A handler that goes on to another of its steps, all but the row of its answer unchanged.
LEMMA GoStep ==
  ASSUME HandlersInv, MissingNext, NEW c \in Calls, call[c] # NoCall,
         NEW step \in {"reset", "read", "filter", "answer", "remove", "delete"}, Go(c, step),
         EntriesOK', EditLinkReturnsHere', at' = at,
         step \in {"filter", "answer"} => call[c].step = "filter",
         step = "remove" => call[c].op = "status" /\ missing[c]
  PROVE  HandlersInv'
<1> DEFINE what == [call[c] EXCEPT !.step = step]
<1>1. call' = [call EXCEPT ![c] = what]
  BY DEF Go
<1>2. call[c] \in Call /\ Asks(call[c], at)
  BY DEF HandlersInv, HandlersOK
<1>3. /\ what \in Call /\ what.op = call[c].op /\ what.from = call[c].from
      /\ what.row = call[c].row /\ what.step = step
  BY <1>2, CallMoves
<1> HIDE DEF what
<1>4. Asks(what, at)
  BY <1>2, <1>3 DEF Asks
<1>5. QED
  BY <1>1, <1>3, <1>4, OneCall

\* FindByID of a poll or of a retry: the row that the answer will show, or that there is
\* none.
LEMMA ReadStep ==
  ASSUME HandlersInv, MissingNext, NEW c \in Calls, ReadEntry(c)
  PROVE  HandlersInv'
<1>1. call[c] # NoCall /\ UNCHANGED <<entry, tabVars>>
  BY DEF ReadEntry, NoCall
<1>2. call[c] \in Call /\ Asks(call[c], at)
  BY <1>1 DEF HandlersInv, HandlersOK
<1>3. CASE ~Exists(call[c].id)
  BY <1>1, <1>3, FinishStep, RowsStay DEF ReadEntry
<1>4. CASE Exists(call[c].id)
  <2> DEFINE row == RowOf(entry[call[c].id], call[c].from)
             step == IF call[c].op = "status" /\ call[c].from # All THEN "filter" ELSE "answer"
             what == [call[c] EXCEPT !.row = row, !.step = step]
  <2>1. call' = [call EXCEPT ![c] = what]
    BY <1>4 DEF ReadEntry
  <2>2. entry[call[c].id] \in [tag : Tags \cup {NoTag}, status : Statuses]
    BY <1>4 DEF HandlersInv, HandlersOK, Exists
  <2>3. row \in Row /\ row.back = call[c].from
    BY <1>2, <2>2, CallFields DEF RowOf, Row
  <2>4. step \in {"filter", "answer"}
    OBVIOUS
  <2> HIDE DEF row, step
  <2>5. /\ what \in Call /\ what.op = call[c].op /\ what.from = call[c].from
        /\ what.row = row /\ what.step = step
    <3> DEFINE old == call[c]
    <3>1. old \in Call
      BY <1>2
    <3> HIDE DEF old
    <3>2. /\ [old EXCEPT !.row = row, !.step = step] \in Call
          /\ [old EXCEPT !.row = row, !.step = step].op = old.op
          /\ [old EXCEPT !.row = row, !.step = step].from = old.from
          /\ [old EXCEPT !.row = row, !.step = step].row = row
          /\ [old EXCEPT !.row = row, !.step = step].step = step
      BY <2>3, <2>4, <3>1 DEF Call
    <3>3. QED
      BY <3>2 DEF old
  <2> HIDE DEF what
  <2>6. Asks(what, at)
    BY <1>2, <2>3, <2>4, <2>5 DEF Asks
  <2>7. QED
    BY <1>1, <2>1, <2>4, <2>5, <2>6, OneCall, RowsStay
<1>5. QED
  BY <1>3, <1>4

\* The row that a handler answers with leads back to the list that asked for it.
LEMMA AnswerStep ==
  ASSUME HandlersInv, MissingNext, NEW c \in Calls, Answer(c)
  PROVE  HandlersInv'
<1>1. call[c] # NoCall /\ entry' = entry /\ at' = at /\ Finish(c)
  BY DEF Answer, NoCall
<1>2. call[c] \in Call /\ Asks(call[c], at)
  BY <1>1 DEF HandlersInv, HandlersOK
<1>3. EntriesOK'
  BY <1>1 DEF HandlersInv, HandlersOK, EntriesOK
<1>4. EditLinkReturnsHere'
  <2>1. CASE call[c].from = Nowhere
    BY <1>1, <2>1 DEF Answer, HandlersInv, EditLinkReturnsHere
  <2>2. CASE call[c].from # Nowhere /\ call[c].step = "answer"
    <3>1. shown' = Put(shown, call[c].id, call[c].row) /\ call[c].row.back = at
      BY <1>2, <2>2 DEF Answer, Asks
    <3>2. QED
      BY <1>1, <3>1 DEF HandlersInv, EditLinkReturnsHere, Put
  <2>3. CASE call[c].from # Nowhere /\ call[c].step # "answer"
    <3>1. shown' = Restrict(shown, DOMAIN shown \ {call[c].id})
      BY <2>3 DEF Answer
    <3>2. QED
      BY <1>1, <3>1, Restricts DEF HandlersInv, EditLinkReturnsHere
  <2>4. QED
    BY <2>1, <2>2, <2>3
<1>5. QED
  BY <1>1, <1>3, <1>4, FinishStep

\* A page that is shown anew has rows of its own, and listens to no call of the page
\* before.
LEMMA ShowStep ==
  ASSUME HandlersInv, MissingNext, NEW filter \in Filters, NEW rows, NEW others,
         Show(filter, rows, others), EntriesOK',
         \A c \in Calls : others[c] = NoCall \/ others[c] = call[c]
  PROVE  HandlersInv'
<1>1. at' = filter /\ shown' = Page(rows, filter) /\ call' = [c \in Calls |-> Unheard(others[c])]
  BY DEF Show
<1>2. EditLinkReturnsHere'
  BY <1>1 DEF EditLinkReturnsHere, Page, RowOf
<1>3. ASSUME NEW c \in Calls
      PROVE  \/ call'[c] = NoCall
             \/ /\ call'[c] \in Call /\ Asks(call'[c], at')
                /\ call'[c].op # "status"
  <2>1. call'[c] = Unheard(others[c])
    BY <1>1
  <2>2. CASE others[c].op \in {"none", "status"}
    BY <2>1, <2>2 DEF Unheard
  <2>3. CASE others[c].op \notin {"none", "status"}
    <3>1. others[c] # NoCall /\ others[c] = call[c]
      BY <2>3, NoCallIsNone
    <3>2. call[c] \in Call /\ Asks(call[c], at)
      BY <3>1 DEF HandlersInv, HandlersOK
    <3>3. call'[c] = [call[c] EXCEPT !.from = Nowhere]
      BY <2>1, <2>3, <3>1 DEF Unheard
    <3>4. /\ call'[c] \in Call /\ call'[c].op = call[c].op /\ call'[c].from = Nowhere
          /\ call'[c].row = call[c].row /\ call'[c].step = call[c].step
      BY <3>2, <3>3, CallUnheard
    <3>5. QED
      BY <2>3, <3>1, <3>2, <3>4 DEF Asks
  <2>4. QED
    BY <2>2, <2>3
<1>4. call' \in [Calls -> {NoCall} \cup Call]
  <2>1. \A c \in Calls : call'[c] \in {NoCall} \cup Call
    BY <1>3
  <2>2. QED
    BY <1>1, <2>1
<1>5. QED
  BY <1>1, <1>2, <1>3, <1>4, ManyCalls, NoCallIsNone

\* What the workers and the other handlers do to a row.
LEMMA ElsewhereStep ==
  ASSUME HandlersInv, MissingNext, NEW i \in Entries, Elsewhere(i)
  PROVE  HandlersInv'
<1>1. UNCHANGED <<tabVars, call>>
  BY DEF Elsewhere
<1>2. EntriesOK'
  <2>1. CASE \E s \in {"failed", "settled"} : entry' = [entry EXCEPT ![i].status = s]
    BY <2>1 DEF HandlersInv, HandlersOK, EntriesOK, Statuses
  <2>2. CASE \E tag \in Tags \cup {NoTag} : entry' = [entry EXCEPT ![i].tag = tag]
    BY <2>2 DEF HandlersInv, HandlersOK, EntriesOK
  <2>3. ASSUME NEW tag \in Tags \cup {NoTag}, entry' = Put(entry, i, [tag |-> tag, status |-> "waiting"])
        PROVE EntriesOK'
    <3> DEFINE row == [tag |-> tag, status |-> "waiting"]
    <3>1. row \in [tag : Tags \cup {NoTag}, status : Statuses]
      BY DEF Statuses
    <3> HIDE DEF row
    <3>2. entry' = Put(entry, i, row)
      BY <2>3 DEF row
    <3>3. QED
      BY <3>1, <3>2 DEF HandlersInv, HandlersOK, EntriesOK, Put
  <2>4. CASE entry' = Restrict(entry, DOMAIN entry \ {i})
    BY <2>4, Restricts DEF HandlersInv, HandlersOK, EntriesOK
  <2>5. QED
    BY <2>1, <2>2, <2>3, <2>4 DEF Elsewhere
<1>3. QED
  BY <1>1, <1>2, ManyCalls DEF HandlersInv, HandlersOK, EditLinkReturnsHere, tabVars

\* Every step of a request.
LEMMA CallStepKeeps ==
  ASSUME HandlersInv, MissingNext, NEW c \in Calls, CallStep(c)
  PROVE  HandlersInv'
<1>1. ASSUME NEW i \in Entries, Poll(c, i) \/ Retry(c, i) \/ PressDelete(c, i) PROVE HandlersInv'
  BY <1>1, BeginStep DEF Poll, Retry, PressDelete
<1>2. CASE ResetEnrichment(c)
  <2>1. call[c] # NoCall /\ UNCHANGED tabVars /\ Go(c, "read")
    BY <1>2 DEF ResetEnrichment, In, NoCall
  <2>2. EntriesOK'
    <3>1. entry' = entry \/ entry' = [entry EXCEPT ![call[c].id].status = "waiting"]
      BY <1>2 DEF ResetEnrichment
    <3>2. QED
      BY <3>1 DEF HandlersInv, HandlersOK, EntriesOK, Statuses
  <2>3. EditLinkReturnsHere' /\ at' = at
    BY <2>1 DEF HandlersInv, EditLinkReturnsHere, tabVars
  <2>4. QED
    BY <2>1, <2>2, <2>3, GoStep
<1>3. CASE MatchFilter(c)
  <2>1. call[c] # NoCall /\ UNCHANGED <<entry, tabVars>> /\ call[c].op = "status" /\ call[c].step = "filter"
    BY <1>3 DEF MatchFilter, In, NoCall
  <2>2. PICK failed \in BOOLEAN : Go(c, IF KeepsRow(c, failed) THEN "answer" ELSE "remove")
    BY <1>3 DEF MatchFilter
  <2>3. ~KeepsRow(c, failed) => missing[c]
    BY <2>1 DEF KeepsRow, HandlersInv, Misses
  <2>4. CASE KeepsRow(c, failed)
    BY <2>1, <2>2, <2>4, GoStep, RowsStay
  <2>5. CASE ~KeepsRow(c, failed)
    BY <2>1, <2>2, <2>3, <2>5, GoStep, RowsStay
  <2>6. QED
    BY <2>4, <2>5
<1>4. CASE FindForDelete(c)
  <2>1. call[c] # NoCall /\ UNCHANGED <<entry, tabVars>> /\ (Go(c, "delete") \/ Finish(c))
    BY <1>4 DEF FindForDelete, In, NoCall
  <2>2. QED
    BY <2>1, GoStep, FinishStep, RowsStay
<1>5. CASE DeleteEntry(c)
  <2>1. entry' = Restrict(entry, DOMAIN entry \ {call[c].id})
    BY <1>5 DEF DeleteEntry
  <2>2. EntriesOK'
    BY <2>1, Restricts DEF HandlersInv, HandlersOK, EntriesOK
  <2>3. CASE Finish(c) /\ UNCHANGED tabVars
    BY <2>2, <2>3, FinishStep DEF HandlersInv, EditLinkReturnsHere, tabVars
  <2>4. CASE Show(at, entry', [call EXCEPT ![c] = NoCall])
    <3> DEFINE others == [call EXCEPT ![c] = NoCall]
    <3>1. \A d \in Calls : others[d] = NoCall \/ others[d] = call[d]
      BY DEF HandlersInv, HandlersOK
    <3> HIDE DEF others
    <3>2. at \in Filters
      BY DEF HandlersInv, HandlersOK
    <3>3. QED
      BY <2>2, <2>4, <3>1, <3>2, ShowStep DEF others
  <2>5. QED
    BY <1>5, <2>3, <2>4 DEF DeleteEntry
<1>6. CASE CallFails(c)
  BY <1>6, FinishStep, RowsStay DEF CallFails
<1>7. QED
  BY <1>1, <1>2, <1>3, <1>4, <1>5, <1>6, ReadStep, AnswerStep DEF CallStep

\* HandlersInv holds: a call that the tab listens to was made by the page that it shows,
\* and a poll that removes a row has seen its entry not fit that page.
LEMMA HandlersInductive == HandlersSpec => []HandlersInv
<1>1. HandlersInit => HandlersInv
  BY NoCallIsNone DEF HandlersInit, HandlersInv, HandlersOK, EditLinkReturnsHere, Filters
<1>2. HandlersInv /\ [HandlersNext]_handlerVars => HandlersInv'
  <2> SUFFICES ASSUME HandlersInv, [HandlersNext]_handlerVars PROVE HandlersInv'
    OBVIOUS
  <2>1. ASSUME UNCHANGED handlerVars PROVE HandlersInv'
    BY <2>1 DEF handlerVars, tabVars, HandlersInv, HandlersOK, EditLinkReturnsHere, Misses, Fits
  <2>2. ASSUME HandlersNext PROVE HandlersInv'
    <3>1. MissingNext
      BY <2>2 DEF HandlersNext, MissingNext
    <3>2. ASSUME NEW filter \in Filters, Navigate(filter) PROVE HandlersInv'
      <4>1. EntriesOK'
        BY <3>2 DEF Navigate, HandlersInv, HandlersOK, EntriesOK
      <4>2. QED
        BY <3>1, <3>2, <4>1, ShowStep DEF Navigate
    <3>3. QED
      BY <2>2, <3>1, <3>2, CallStepKeeps, ElsewhereStep DEF HandlersNext, Filters
  <2>3. QED
    BY <2>1, <2>2
<1>3. QED
  BY <1>1, <1>2, PTL DEF HandlersSpec

\* EditLinkReturnsHere of the runs, for any entries, filters and requests: the edit link of
\* a row on the screen leads back to the list that shows it, however late the fragment was
\* that put the row there.
THEOREM RowsLeadBack == HandlersSpec => []EditLinkReturnsHere
<1>1. HandlersInv => EditLinkReturnsHere
  BY DEF HandlersInv
<1>2. QED
  BY <1>1, HandlersInductive, PTL

\* RowsVanishForReason of the runs: an answer only takes a row off the screen if, at some
\* moment while it was under way, the row's entry was gone or did not pass the filter.
THEOREM RowsAreMissing == HandlersSpec => RowsVanishForReason
<1>1. HandlersInv => [\A c \in Calls : Answer(c) /\ DOMAIN shown \ DOMAIN shown' # {} => missing[c]]_handlerVars
  <2> SUFFICES ASSUME HandlersInv, NEW c \in Calls, Answer(c), DOMAIN shown \ DOMAIN shown' # {}
               PROVE  missing[c]
    OBVIOUS
  <2>1. call[c] # NoCall
    BY DEF Answer, NoCall
  <2>2. CASE call[c].step = "answer"
    <3>1. shown' = shown \/ shown' = Put(shown, call[c].id, call[c].row)
      BY <2>2 DEF Answer
    <3>2. QED
      BY <3>1 DEF Put
  <2>3. CASE call[c].step = "remove"
    BY <2>1, <2>3 DEF HandlersInv, Asks
  <2>4. QED
    BY <2>2, <2>3 DEF Answer
<1>2. QED
  BY <1>1, HandlersInductive, PTL DEF RowsVanishForReason

-----------------------------------------------------------------------------
(* Access                                                                  *)

\* What a tab or the server does for one tab, the answer to it excepted.
TabStep(t) ==
    \/ \E url \in URLs, from \in {"app", "elsewhere"} : Ask(t, url, from)
    \/ \E key \in 0..MaxToken : SubmitKey(t, key)
    \/ \E from \in {"app", "elsewhere"} : PressLogout(t, from)
    \/ Open(t) \/ GiveUp(t)
    \/ \E s \in Servers : Handle(t, s)

\* TabsOK holds: whatever is asked, requests and answers are of the kinds the server knows.
LEMMA TabsOKInductive == AccessSpec => []TabsOK
<1>1. AccessInit => TabsOK
  BY AccessOK DEF AccessInit, TabsOK, Quiet
<1>2. TabsOK /\ [AccessNext]_accessVars => TabsOK'
  <2> SUFFICES ASSUME TabsOK, [AccessNext]_accessVars PROVE TabsOK'
    OBVIOUS
  <2>1. ASSUME UNCHANGED accessVars PROVE TabsOK'
    BY <2>1 DEF TabsOK, accessVars
  <2>2. ASSUME NEW s \in Servers, Rollout(s) PROVE TabsOK'
    <3>1. token' \in [Servers -> 1..MaxToken]
      BY <2>2, AccessOK DEF Rollout, TabsOK
    <3>2. QED
      BY <3>1, <2>2 DEF Rollout, TabsOK
  <2>3. ASSUME NEW t \in Tabs, NEW x, token' = token, tab' = [tab EXCEPT ![t] = x],
               x.step \in {"quiet", "sent", "answered"},
               x.step = "sent" => x.what.op \in Ops,
               x.step = "answered" /\ "op" \in DOMAIN x.answer.next => x.answer.next.op \in Ops,
               x.step = "answered" /\ "op" \notin DOMAIN x.answer.next => x.answer.next.step = "quiet"
        PROVE TabsOK'
    <3>1. tab' \in [Tabs -> {tab'[u] : u \in Tabs}] /\ tab'[t] = x
          /\ \A u \in Tabs : u # t => tab'[u] = tab[u]
      BY <2>3 DEF TabsOK
    <3>2. QED
      BY <3>1, <2>3 DEF TabsOK
  <2>4. ASSUME NEW t \in Tabs, TabStep(t) PROVE TabsOK'
    <3>1. ASSUME NEW url, NEW from, Ask(t, url, from) PROVE TabsOK'
      <4> DEFINE x == Sent([op |-> "visit", url |-> url, from |-> from, htmx |-> url # "page"],
                           cookie)
      <4>1. x.step = "sent" /\ x.what.op \in Ops
        BY DEF Sent, Ops
      <4>2. tab' = [tab EXCEPT ![t] = x] /\ token' = token
        BY <3>1 DEF Ask
      <4> HIDE DEF x
      <4>3. QED
        BY <4>1, <4>2, <2>3
    <3>2. ASSUME NEW key, SubmitKey(t, key) PROVE TabsOK'
      BY <3>2, <2>3 DEF SubmitKey, Sent, Ops
    <3>3. ASSUME NEW from, PressLogout(t, from) PROVE TabsOK'
      BY <3>3, <2>3 DEF PressLogout, Sent, Ops
    <3>4. ASSUME Open(t) \/ GiveUp(t) PROVE TabsOK'
      BY <3>4, <2>3 DEF Open, GiveUp, Quiet
    <3>5. ASSUME NEW s \in Servers, Handle(t, s) PROVE TabsOK'
      <4> DEFINE what == tab[t].what  key == tab[t].cookie
                 answer == CASE what.op = "visit"  -> Auth(what, key, s)
                             [] what.op = "form"   -> LoginPage(what, key, s)
                             [] what.op = "login"  -> Login(what, s)
                             [] what.op = "logout" -> Logout(what)
      <4>1. what.op \in Ops
        BY <3>5 DEF Handle, TabsOK
      <4>2. tab' = [tab EXCEPT ![t] = [step |-> "answered", answer |-> answer,
                                       logout |-> what.op = "logout"]] /\ token' = token
        BY <3>5 DEF Handle
      <4>3. /\ "op" \in DOMAIN answer.next => answer.next.op \in Ops
            /\ "op" \notin DOMAIN answer.next => answer.next.step = "quiet"
        <5>1. CASE what.op = "visit"
          BY <5>1 DEF Auth, Visited, Shown, Quiet, LoginFor, Goes, Ops
        <5>2. CASE what.op = "form"
          BY <5>2 DEF LoginPage, Visit, Goes, Ops
        <5>3. CASE what.op = "login"
          BY <5>3 DEF Login, Visit, Shown, Quiet, LoginFor, Goes, Ops
        <5>4. CASE what.op = "logout"
          BY <5>4 DEF Logout, Shown, Quiet, Ops
        <5>5. QED
          BY <4>1, <5>1, <5>2, <5>3, <5>4 DEF Ops
      <4> DEFINE x == [step |-> "answered", answer |-> answer, logout |-> what.op = "logout"]
      <4>4. tab' = [tab EXCEPT ![t] = x] /\ token' = token
        BY <4>2
      <4> HIDE DEF answer
      <4>5. x.step = "answered" /\ x.answer = answer
        OBVIOUS
      <4> HIDE DEF x
      <4>6. QED
        BY <4>3, <4>4, <4>5, <2>3
    <3>6. QED
      BY <2>4, <3>1, <3>2, <3>3, <3>4, <3>5 DEF TabStep
  <2>5. ASSUME NEW t \in Tabs, Deliver(t) PROVE TabsOK'
    <3>1. CASE "op" \in DOMAIN tab[t].answer.next
      BY <3>1, <2>5, <2>3 DEF Deliver, TabsOK, Sent
    <3>2. CASE "op" \notin DOMAIN tab[t].answer.next
      BY <3>2, <2>5, <2>3 DEF Deliver, TabsOK
    <3>3. QED
      BY <3>1, <3>2
  <2>6. QED
    BY <2>1, <2>2, <2>4, <2>5 DEF AccessNext, TabStep
<1>3. QED
  BY <1>1, <1>2, PTL DEF AccessSpec

\* An access token is neither the missing cookie nor the answer that leaves it alone.
LEMMA TokensDiffer ==
  \A key \in 1..MaxToken : key # NoKey /\ key # Keep /\ Keep # NoKey
BY AccessOK DEF NoKey, Keep

\* The rollout of two tokens is not over at once.
LEMMA OnlyKey ==
  ASSUME TabsOK, NEW key, NEW other, RolloutIsOver(key), RolloutIsOver(other)
  PROVE  key = other /\ key \in 1..MaxToken
<1>1. PICK s \in Servers : TRUE
  BY AccessOK
<1>2. QED
  BY <1>1 DEF RolloutIsOver, TabsOK

\* Tabs of two kinds are together at most the tabs there are.
LEMMA TabsSize ==
  ASSUME NEW A, NEW B, A \subseteq Tabs, B \subseteq Tabs, A \cap B = {}
  PROVE  /\ Cardinality(A) \in Nat /\ Cardinality(B) \in Nat /\ Cardinality(Tabs) \in Nat
         /\ Cardinality(A) + Cardinality(B) <= Cardinality(Tabs)
<1>1. /\ IsFiniteSet(Tabs) /\ IsFiniteSet(A) /\ IsFiniteSet(B)
      /\ Cardinality(A) \in Nat /\ Cardinality(B) \in Nat /\ Cardinality(Tabs) \in Nat
  BY AccessOK, FS_Subset, FS_CardinalityType
<1>2. Cardinality(A \cup B) = Cardinality(A) + Cardinality(B)
  <2>1. Cardinality(A \cup B) = Cardinality(A) + Cardinality(B) - Cardinality(A \cap B)
    BY <1>1, FS_Union
  <2>2. Cardinality(A \cap B) = 0
    BY FS_EmptySet
  <2>3. QED
    BY <1>1, <2>1, <2>2
<1>3. Cardinality(A \cup B) <= Cardinality(Tabs)
  BY <1>1, FS_Subset
<1>4. QED
  BY <1>1, <1>2, <1>3

\* A tab that leaves a set of tabs.
LEMMA TabsLess ==
  ASSUME NEW A, A \subseteq Tabs, NEW t
  PROVE  /\ t \in A => Cardinality(A \ {t}) = Cardinality(A) - 1 /\ Cardinality(A) # 0
         /\ t \notin A => Cardinality(A \ {t}) = Cardinality(A)
<1>1. IsFiniteSet(A)
  BY AccessOK, FS_Subset
<1>2. t \notin A => A \ {t} = A
  OBVIOUS
<1>3. QED
  BY <1>1, <1>2, FS_RemoveElement, FS_EmptySet

\* Tabs among others are fewer.
LEMMA TabsFewer ==
  ASSUME NEW A, A \subseteq Tabs, NEW B, B \subseteq A
  PROVE  Cardinality(B) \in Nat /\ Cardinality(B) <= Cardinality(A)
<1>1. IsFiniteSet(A)
  BY AccessOK, FS_Subset
<1>2. QED
  BY <1>1, FS_Subset, FS_CardinalityType

\* A tab that logs in with an old token is not one whose visit is stale.
LEMMA Apart ==
  ASSUME NEW key \in 1..MaxToken, TabsOK
  PROVE  /\ OldLogins(key) \subseteq Tabs /\ StaleVisits(key) \subseteq Tabs
         /\ OldLogins(key) \cap StaleVisits(key) = {}
BY DEF OldLogins, StaleVisits

\* The answer of requireAuth leaves the cookie alone, or clears the one of a request with a
\* token that is not the replica's.
LEMMA AuthClears ==
  ASSUME NEW what, NEW k, NEW s
  PROVE  LET jar == Auth(what, k, s).jar IN jar = Keep \/ (jar = NoKey /\ IsStale(k, s))
<1>1. \A shows : Shown(shows).jar = Keep
  BY DEF Shown
<1>2. \A url : LoginFor(url).jar = Keep /\ [LoginFor(url) EXCEPT !.jar = NoKey].jar = NoKey
  BY DEF LoginFor, Goes
<1>3. QED
  BY <1>1, <1>2 DEF Auth, Visited

(* What a step of one tab does to the two sets.                            *)
LEMMA TabStepFacts ==
  ASSUME TabsOK, NEW key \in 1..MaxToken, RolloutIsOver(key), NEW t \in Tabs, TabStep(t)
  PROVE  /\ OldLogins(key)' = OldLogins(key) \ {t}
         /\ cookie \in {NoKey, key} => StaleVisits(key)' \subseteq StaleVisits(key)
         /\ UNCHANGED <<token, cookie, lost>>
<1>1. ASSUME NEW x, tab' = [tab EXCEPT ![t] = x],
             x.step = "answered" => x.answer.jar \in {Keep, NoKey, key},
             cookie \in {NoKey, key} /\ x.step = "sent" /\ x.what.op = "visit" => x.cookie \in {NoKey, key},
             cookie \in {NoKey, key} /\ x.step = "answered" /\ ~x.logout /\ x.answer.jar = NoKey =>
                t \in StaleVisits(key)
      PROVE  /\ OldLogins(key)' = OldLogins(key) \ {t}
             /\ cookie \in {NoKey, key} => StaleVisits(key)' \subseteq StaleVisits(key)
  <2>1. tab'[t] = x /\ \A u \in Tabs : u # t => tab'[u] = tab[u]
    BY <1>1 DEF TabsOK
  <2>2. OldLogins(key)' = OldLogins(key) \ {t}
    BY <1>1, <2>1 DEF OldLogins
  <2>3. ASSUME cookie \in {NoKey, key}, NEW u \in StaleVisits(key)' PROVE u \in StaleVisits(key)
    BY <1>1, <2>1, <2>3 DEF StaleVisits
  <2>4. QED
    BY <2>2, <2>3
<1>2. ASSUME NEW url, NEW from, Ask(t, url, from)
      PROVE  /\ OldLogins(key)' = OldLogins(key) \ {t}
             /\ cookie \in {NoKey, key} => StaleVisits(key)' \subseteq StaleVisits(key)
  <2> DEFINE x == Sent([op |-> "visit", url |-> url, from |-> from, htmx |-> url # "page"],
                       cookie)
  <2>1. x.step = "sent" /\ x.cookie = cookie
    BY DEF Sent
  <2>2. tab' = [tab EXCEPT ![t] = x]
    BY <1>2 DEF Ask
  <2> HIDE DEF x
  <2>3. QED
    BY <2>1, <2>2, <1>1
<1>3. ASSUME NEW k, SubmitKey(t, k)
      PROVE  /\ OldLogins(key)' = OldLogins(key) \ {t}
             /\ cookie \in {NoKey, key} => StaleVisits(key)' \subseteq StaleVisits(key)
  BY <1>3, <1>1 DEF SubmitKey, Sent
<1>4. ASSUME NEW from, PressLogout(t, from)
      PROVE  /\ OldLogins(key)' = OldLogins(key) \ {t}
             /\ cookie \in {NoKey, key} => StaleVisits(key)' \subseteq StaleVisits(key)
  BY <1>4, <1>1 DEF PressLogout, Sent
<1>5. ASSUME Open(t) \/ GiveUp(t)
      PROVE  /\ OldLogins(key)' = OldLogins(key) \ {t}
             /\ cookie \in {NoKey, key} => StaleVisits(key)' \subseteq StaleVisits(key)
  BY <1>5, <1>1 DEF Open, GiveUp, Quiet
<1>6. ASSUME NEW s \in Servers, Handle(t, s)
      PROVE  /\ OldLogins(key)' = OldLogins(key) \ {t}
             /\ cookie \in {NoKey, key} => StaleVisits(key)' \subseteq StaleVisits(key)
  <2> DEFINE what == tab[t].what
             answer == CASE what.op = "visit"  -> Auth(what, tab[t].cookie, s)
                         [] what.op = "form"   -> LoginPage(what, tab[t].cookie, s)
                         [] what.op = "login"  -> Login(what, s)
                         [] what.op = "logout" -> Logout(what)
             x == [step |-> "answered", answer |-> answer, logout |-> what.op = "logout"]
  <2>1. tab[t].step = "sent" /\ what.op \in Ops /\ token[s] = key
    BY <1>6 DEF Handle, TabsOK, RolloutIsOver
  <2>2. tab' = [tab EXCEPT ![t] = x]
    BY <1>6 DEF Handle
  <2>3. /\ answer.jar \in {Keep, NoKey, key}
        /\ answer.jar = NoKey /\ what.op # "logout" => t \in StaleVisits(key)
    <3>1. CASE what.op = "visit"
      <4>1. answer = Auth(what, tab[t].cookie, s)
        BY <3>1
      <4> HIDE DEF answer
      <4>2. answer.jar = Keep \/ (answer.jar = NoKey /\ IsStale(tab[t].cookie, s))
        BY <4>1, AuthClears
      <4>3. IsStale(tab[t].cookie, s) => t \in StaleVisits(key)
        BY <3>1, <2>1 DEF IsStale, StaleVisits
      <4>4. QED
        BY <4>2, <4>3, TokensDiffer
    <3>2. CASE what.op = "form"
      <4>1. answer.jar = Keep
        BY <3>2 DEF LoginPage, Goes
      <4> HIDE DEF answer
      <4>2. QED
        BY <4>1, TokensDiffer
    <3>3. CASE what.op = "login"
      <4>1. answer.jar = Keep \/ answer.jar = key
        BY <3>3, <2>1 DEF Login, Shown, LoginFor, Goes
      <4> HIDE DEF answer
      <4>2. QED
        BY <4>1, TokensDiffer
    <3>4. CASE what.op = "logout"
      <4>1. answer.jar = Keep \/ answer.jar = NoKey
        BY <3>4 DEF Logout, Shown
      <4> HIDE DEF answer
      <4>2. QED
        BY <4>1, <3>4
    <3>5. QED
      BY <2>1, <3>1, <3>2, <3>3, <3>4 DEF Ops
  <2> HIDE DEF answer
  <2>4. x.step = "answered" /\ x.answer = answer /\ (~x.logout => what.op # "logout")
    OBVIOUS
  <2> HIDE DEF x
  <2>5. QED
    BY <2>2, <2>3, <2>4, <1>1
<1>7. UNCHANGED <<token, cookie, lost>>
  BY DEF TabStep, Ask, SubmitKey, PressLogout, Open, GiveUp, Handle
<1>8. QED
  BY <1>2, <1>3, <1>4, <1>5, <1>6, <1>7 DEF TabStep

(* The arithmetic of what may be lost.                                     *)
LEMMA OldLoginArrives ==
  ASSUME NEW n \in Nat, NEW a \in 1..n
  PROVE  TwiceByLogins(n, a) = TwiceByLogins(n, a - 1) + 2 * (n + 1 - a)
BY DEF TwiceByLogins

\* What may be lost at all is within the bound.
LEMMA LossesFit ==
  ASSUME NEW n \in Nat, NEW a \in Nat, NEW b \in Nat, a + b <= n, NEW good \in BOOLEAN
  PROVE  TwiceToLose(n, a, b, good) \in Int /\ TwiceToLose(n, a, b, good) <= n * (n + 1)
<1>1. PICK d \in Nat : n = a + d
  BY Z3
<1>2. n * (n + 1) = TwiceByLogins(n, a) + d * (d + 1)
  BY <1>1 DEF TwiceByLogins
<1>3. d * (d + 1) >= 2 * d
  <2>1. CASE d = 0
    BY <2>1
  <2>2. CASE d >= 1
    <3>1. PICK e \in Nat : d = e + 1
      BY <2>2
    <3>2. d * (d + 1) = e * e + 3 * e + 2 /\ e * e >= 0
      BY <3>1
    <3>3. QED
      BY <3>1, <3>2
  <2>3. QED
    BY <2>1, <2>2
<1>4. TwiceByLogins(n, a) \in Int /\ n * (n + 1) \in Int /\ d * (d + 1) \in Int
  BY DEF TwiceByLogins
<1> HIDE DEF TwiceByLogins
<1>5. (IF good THEN 2 * b ELSE IF a < n THEN 2 * (n - a - 1) ELSE 0) <= 2 * d
  BY <1>1
<1>6. QED
  BY <1>2, <1>3, <1>4, <1>5 DEF TwiceToLose

\* An answer that reaches the browser: who loses the cookie, and whose login it was.
LEMMA DeliverFacts ==
  ASSUME TabsOK, NEW key \in 1..MaxToken, RolloutIsOver(key), NEW t \in Tabs, Deliver(t)
  PROVE  /\ OldLogins(key)' = OldLogins(key) \ {t}
         /\ cookie' \in {NoKey, key} => StaleVisits(key)' \subseteq StaleVisits(key) \ {t}
         /\ cookie' = cookie \/ cookie' \in {NoKey, key} \/ t \in OldLogins(key)
         /\ t \in OldLogins(key) => cookie' \notin {NoKey, key}
         /\ lost' # lost => lost' = lost + 1 /\ cookie = key
                              /\ (t \in OldLogins(key) \/ t \in StaleVisits(key))
<1> DEFINE answer == tab[t].answer
<1> DEFINE x == IF "op" \in DOMAIN answer.next THEN Sent(answer.next, cookie') ELSE answer.next
<1>1. /\ tab[t].step = "answered" /\ tab' = [tab EXCEPT ![t] = x]
      /\ cookie' = IF answer.jar = Keep THEN cookie ELSE answer.jar
      /\ lost' = IF RolloutIsOver(cookie) /\ cookie' # cookie /\ ~tab[t].logout THEN lost + 1 ELSE lost
  BY DEF Deliver
<1>2. x.step = "quiet" \/ (x.step = "sent" /\ x.cookie = cookie')
  BY <1>1 DEF TabsOK, Sent
<1> HIDE DEF x
<1>3. tab'[t] = x /\ \A u \in Tabs : u # t => tab'[u] = tab[u]
  BY <1>1 DEF TabsOK
<1>4. OldLogins(key)' = OldLogins(key) \ {t}
  BY <1>2, <1>3 DEF OldLogins
<1>5. ASSUME cookie' \in {NoKey, key}, NEW u \in StaleVisits(key)'
      PROVE  u \in StaleVisits(key) /\ u # t
  <2>1. u # t
    BY <1>2, <1>3, <1>5 DEF StaleVisits
  <2>2. QED
    BY <2>1, <1>3, <1>5 DEF StaleVisits
<1>6. t \in OldLogins(key) <=> answer.jar \notin {Keep, NoKey, key}
  BY <1>1 DEF OldLogins
<1>7. lost' # lost => lost' = lost + 1 /\ cookie = key /\ cookie' # cookie /\ ~tab[t].logout
  BY <1>1, OnlyKey
<1>8. answer.jar = NoKey /\ ~tab[t].logout => t \in StaleVisits(key)
  BY <1>1 DEF StaleVisits
<1>9. QED
  BY <1>1, <1>4, <1>5, <1>6, <1>7, <1>8, TokensDiffer

\* A step of a tab or of the server costs no login that is not paid for.
LEMMA PaidAfterTabStep ==
  ASSUME TabsOK, LossIsPaidFor, NEW t \in Tabs, TabStep(t)
  PROVE  LossIsPaidFor'
<1>1. UNCHANGED <<token, cookie, lost>>
  BY DEF TabStep, Ask, SubmitKey, PressLogout, Open, GiveUp, Handle
<1> DEFINE n == Cardinality(Tabs)
<1>2. ASSUME NEW key \in 1..MaxToken, RolloutIsOver(key)
      PROVE  2 * lost + TwiceToLose(n, Cardinality(OldLogins(key)'), Cardinality(StaleVisits(key)'),
                                    cookie \in {NoKey, key}) <= n * (n + 1)
  <2> DEFINE a == Cardinality(OldLogins(key))  a1 == Cardinality(OldLogins(key)')
             b == Cardinality(StaleVisits(key))  b1 == Cardinality(StaleVisits(key)')
  <2>1. /\ OldLogins(key)' = OldLogins(key) \ {t}
        /\ cookie \in {NoKey, key} => StaleVisits(key)' \subseteq StaleVisits(key)
    BY <1>2, TabStepFacts
  <2>2. n \in Nat /\ a \in Nat /\ b \in Nat /\ a + b <= n
    BY Apart, TabsSize
  <2>3. a1 = a \/ (a \in 1..n /\ a1 = a - 1)
    BY <2>1, <2>2, Apart, TabsLess
  <2>4. cookie \in {NoKey, key} => b1 \in Nat /\ b1 <= b
    BY <2>1, Apart, TabsFewer
  <2>5. 2 * lost + TwiceToLose(n, a, b, cookie \in {NoKey, key}) <= n * (n + 1) /\ lost \in Nat
    BY <1>2 DEF LossIsPaidFor
  <2>6. TwiceByLogins(n, a1) \in Int /\ TwiceByLogins(n, a) \in Int /\ n * (n + 1) \in Int
    BY <2>2, <2>3 DEF TwiceByLogins
  <2>7. a \in 1..n => TwiceByLogins(n, a) = TwiceByLogins(n, a - 1) + 2 * (n + 1 - a)
    BY <2>2, OldLoginArrives
  <2> HIDE DEF a, a1, b, b1, n
  <2>8. CASE cookie \in {NoKey, key}
    BY <2>2, <2>3, <2>4, <2>5, <2>6, <2>7, <2>8 DEF TwiceToLose, a1, b1, n
  <2>9. CASE cookie \notin {NoKey, key}
    BY <2>2, <2>3, <2>5, <2>6, <2>7, <2>9 DEF TwiceToLose, a1, b1, n
  <2>10. QED
    BY <2>8, <2>9
<1>3. QED
  BY <1>1, <1>2 DEF LossIsPaidFor, RolloutIsOver

\* A cookie that is lost is lost to a login with the old token or to a visit that was on
\* its way before it was set: each of them is spent by it.
LEMMA PaidAfterDeliver ==
  ASSUME TabsOK, LossIsPaidFor, NEW t \in Tabs, Deliver(t)
  PROVE  LossIsPaidFor'
<1> DEFINE n == Cardinality(Tabs)
<1>1. token' = token
  BY DEF Deliver
<1>2. ASSUME NEW key \in 1..MaxToken, RolloutIsOver(key)
      PROVE  /\ lost' \in Nat
             /\ 2 * lost' + TwiceToLose(n, Cardinality(OldLogins(key)'), Cardinality(StaleVisits(key)'),
                                        cookie' \in {NoKey, key}) <= n * (n + 1)
  <2> DEFINE a == Cardinality(OldLogins(key))  a1 == Cardinality(OldLogins(key)')
             b == Cardinality(StaleVisits(key))  b1 == Cardinality(StaleVisits(key)')
             good == cookie \in {NoKey, key}  good1 == cookie' \in {NoKey, key}
  <2>1. /\ OldLogins(key)' = OldLogins(key) \ {t}
        /\ good1 => StaleVisits(key)' \subseteq StaleVisits(key) \ {t}
        /\ cookie' = cookie \/ good1 \/ t \in OldLogins(key)
        /\ t \in OldLogins(key) => ~good1
        /\ lost' # lost => lost' = lost + 1 /\ cookie = key
                             /\ (t \in OldLogins(key) \/ t \in StaleVisits(key))
    BY <1>2, DeliverFacts
  <2>2. n \in Nat /\ a \in Nat /\ b \in Nat /\ a + b <= n
    BY Apart, TabsSize
  <2>3. /\ t \in OldLogins(key) => a \in 1..n /\ a1 = a - 1
        /\ t \notin OldLogins(key) => a1 = a
    BY <2>1, <2>2, Apart, TabsLess
  <2>4. good1 => /\ b1 \in Nat /\ b1 <= b
                 /\ t \in StaleVisits(key) => b1 <= b - 1
    <3>1. good1 => b1 \in Nat /\ b1 <= Cardinality(StaleVisits(key) \ {t})
      BY <2>1, Apart, TabsFewer
    <3>2. QED
      BY <3>1, <2>2, Apart, TabsLess
  <2>5. good1 => b1 + a1 <= n - 1
    <3>1. ASSUME good1 PROVE b1 + a1 <= n - 1
      <4>1. StaleVisits(key)' \cup {t} \subseteq Tabs /\ OldLogins(key) \subseteq Tabs
            /\ (StaleVisits(key)' \cup {t}) \cap OldLogins(key) = {}
        BY <3>1, <2>1, Apart
      <4>2. Cardinality(StaleVisits(key)' \cup {t}) + a <= n
            /\ Cardinality(StaleVisits(key)' \cup {t}) \in Nat
        BY <4>1, TabsSize
      <4>3. (StaleVisits(key)' \cup {t}) \ {t} = StaleVisits(key)'
        BY <3>1, <2>1
      <4>4. b1 = Cardinality(StaleVisits(key)' \cup {t}) - 1
        BY <4>1, <4>3, TabsLess
      <4>5. QED
        BY <4>2, <4>4, <3>1, <2>1, <2>2, <2>3
    <3>2. QED
      BY <3>1
  <2>6. 2 * lost + TwiceToLose(n, a, b, good) <= n * (n + 1) /\ lost \in Nat
    BY <1>2 DEF LossIsPaidFor
  <2>7. TwiceByLogins(n, a1) \in Int /\ TwiceByLogins(n, a) \in Int /\ n * (n + 1) \in Int
    BY <2>2, <2>3 DEF TwiceByLogins
  <2>8. a \in 1..n => TwiceByLogins(n, a) = TwiceByLogins(n, a - 1) + 2 * (n + 1 - a)
    BY <2>2, OldLoginArrives
  <2>9. cookie = key => good
    OBVIOUS
  <2>10. cookie' = cookie => good1 = good
    OBVIOUS
  <2>11. lost' \in Nat
    BY <2>1, <2>6
  <2> DEFINE old == t \in OldLogins(key)  stale == t \in StaleVisits(key)
  <2>12. ~(old /\ stale)
    BY Apart
  <2> HIDE DEF a, a1, b, b1, n, good, good1, old, stale
  <2>13. 2 * lost' + TwiceToLose(n, a1, b1, good1) <= n * (n + 1)
    <3>1. CASE old
      <4>1. ~good1 /\ a1 = a - 1 /\ a \in 1..n /\ (lost' # lost => lost' = lost + 1 /\ good)
        BY <3>1, <2>1, <2>3, <2>9 DEF old
      <4>2. CASE good
        BY <4>1, <4>2, <2>2, <2>6, <2>7, <2>8 DEF TwiceToLose
      <4>3. CASE ~good
        BY <4>1, <4>3, <2>2, <2>6, <2>7, <2>8 DEF TwiceToLose
      <4>4. QED
        BY <4>2, <4>3
    <3>2. CASE ~old
      <4>1. a1 = a /\ (lost' # lost => lost' = lost + 1 /\ good /\ stale) /\ (cookie' = cookie \/ good1)
        BY <3>2, <2>1, <2>3, <2>9 DEF old, stale
      <4>2. CASE good1 /\ good
        BY <4>1, <4>2, <2>2, <2>4, <2>6, <2>7 DEF TwiceToLose, stale
      <4>3. CASE good1 /\ ~good
        BY <4>1, <4>3, <2>2, <2>4, <2>5, <2>6, <2>7 DEF TwiceToLose
      <4>4. CASE ~good1
        BY <4>1, <4>4, <2>2, <2>6, <2>7, <2>10 DEF TwiceToLose
      <4>5. QED
        BY <4>2, <4>3, <4>4
    <3>3. QED
      BY <3>1, <3>2
  <2>14. QED
    BY <2>11, <2>13 DEF n, a1, b1, good1
<1>3. ASSUME \A key \in 1..MaxToken : ~RolloutIsOver(key) PROVE lost' = 0
  <2>1. ~RolloutIsOver(cookie)
    BY <1>3, OnlyKey
  <2>2. QED
    BY <2>1, <1>3 DEF Deliver, LossIsPaidFor
<1>4. QED
  BY <1>1, <1>2, <1>3 DEF LossIsPaidFor, RolloutIsOver

\* A restart with the next token ends one rollout at most, and nothing is lost yet.
LEMMA PaidAfterRollout ==
  ASSUME TabsOK', NEW s \in Servers, Rollout(s)
  PROVE  LossIsPaidFor'
<1>1. lost' = 0
  BY DEF Rollout
<1>2. ASSUME NEW key \in 1..MaxToken
      PROVE  LET n == Cardinality(Tabs)
                 owed == TwiceToLose(n, Cardinality(OldLogins(key)'), Cardinality(StaleVisits(key)'),
                                     cookie' \in {NoKey, key})
             IN owed \in Int /\ owed <= n * (n + 1)
  <2> DEFINE n == Cardinality(Tabs)  a == Cardinality(OldLogins(key)')
             b == Cardinality(StaleVisits(key)')  good == cookie' \in {NoKey, key}
  <2>1. /\ OldLogins(key)' \subseteq Tabs /\ StaleVisits(key)' \subseteq Tabs
        /\ OldLogins(key)' \cap StaleVisits(key)' = {}
    BY DEF OldLogins, StaleVisits
  <2>2. a \in Nat /\ b \in Nat /\ n \in Nat /\ a + b <= n /\ good \in BOOLEAN
    BY <2>1, TabsSize
  <2> HIDE DEF n, a, b, good
  <2>3. TwiceToLose(n, a, b, good) \in Int /\ TwiceToLose(n, a, b, good) <= n * (n + 1)
    BY <2>2, LossesFit
  <2>4. QED
    BY <2>3 DEF n, a, b, good
<1>3. QED
  BY <1>1, <1>2 DEF LossIsPaidFor

\* AccessInv holds: what has been lost since the rollout and what the requests under way
\* may still cost are together within the bound.
THEOREM AccessInductive == AccessSpec => []AccessInv
<1>1. AccessInit => LossIsPaidFor
  <2> SUFFICES ASSUME AccessInit PROVE LossIsPaidFor
    OBVIOUS
  <2>1. \A key \in 1..MaxToken : OldLogins(key) = {} /\ StaleVisits(key) = {}
    BY DEF AccessInit, OldLogins, StaleVisits, Quiet
  <2>2. Cardinality({}) = 0 /\ Cardinality(Tabs) \in Nat
    BY AccessOK, FS_EmptySet, FS_CardinalityType
  <2>3. \A n \in Nat : TwiceToLose(n, 0, 0, TRUE) = 0 /\ n * (n + 1) >= 0
    BY DEF TwiceToLose, TwiceByLogins
  <2>4. RolloutIsOver(1) /\ 1 \in 1..MaxToken
    BY AccessOK DEF AccessInit, RolloutIsOver
  <2>5. lost = 0 /\ \A key \in 1..MaxToken : (cookie \in {NoKey, key}) = TRUE
    BY DEF AccessInit
  <2> HIDE DEF AccessInit
  <2>6. ASSUME NEW key \in 1..MaxToken
        PROVE  TwiceToLose(Cardinality(Tabs), Cardinality(OldLogins(key)), Cardinality(StaleVisits(key)),
                           cookie \in {NoKey, key}) = 0
    BY <2>1, <2>2, <2>3, <2>5
  <2>7. QED
    BY <2>2, <2>3, <2>4, <2>5, <2>6 DEF LossIsPaidFor
<1>2. TabsOK /\ TabsOK' /\ LossIsPaidFor /\ [AccessNext]_accessVars => LossIsPaidFor'
  <2> SUFFICES ASSUME TabsOK, TabsOK', LossIsPaidFor, [AccessNext]_accessVars PROVE LossIsPaidFor'
    OBVIOUS
  <2>1. ASSUME UNCHANGED accessVars PROVE LossIsPaidFor'
    BY <2>1 DEF accessVars, LossIsPaidFor, RolloutIsOver, OldLogins, StaleVisits
  <2>2. QED
    BY <2>1, PaidAfterTabStep, PaidAfterDeliver, PaidAfterRollout DEF AccessNext, TabStep
<1>3. AccessSpec => []TabsOK
  BY TabsOKInductive
<1>4. QED
  BY <1>1, <1>2, <1>3, PTL DEF AccessSpec, AccessInv

\* LoginsLast of the runs, for any number of tabs, URLs, replicas and tokens: once a
\* rollout is over, a good cookie is lost no more often than n (n + 1) / 2 times with n
\* tabs, so that they do not keep logging each other out.
THEOREM LosingEnds == AccessSpec => []LoginsLast
<1>1. AccessInv => LoginsLast
  <2> SUFFICES ASSUME AccessInv PROVE LoginsLast
    OBVIOUS
  <2> DEFINE n == Cardinality(Tabs)
  <2>1. n \in Nat /\ lost \in Nat
    BY AccessOK, FS_CardinalityType DEF AccessInv, LossIsPaidFor
  <2>2. 2 * lost <= n * (n + 1)
    <3>1. ASSUME NEW key \in 1..MaxToken, RolloutIsOver(key) PROVE 2 * lost <= n * (n + 1)
      <4> DEFINE a == Cardinality(OldLogins(key))  b == Cardinality(StaleVisits(key))
      <4>1. a \in Nat /\ b \in Nat /\ a + b <= n
        BY Apart, TabsSize DEF AccessInv
      <4>2. 2 * lost + TwiceToLose(n, a, b, cookie \in {NoKey, key}) <= n * (n + 1)
        BY <3>1 DEF AccessInv, LossIsPaidFor
      <4> HIDE DEF a, b, n
      <4>3. PICK d \in Nat : n = a + d
        BY <4>1, <2>1, Z3
      <4>4. TwiceByLogins(n, a) >= 0 /\ TwiceByLogins(n, a) \in Int /\ n * (n + 1) \in Int
        <5>1. TwiceByLogins(n, a) = a * (a + 2 * d + 1) /\ a * (a + 2 * d + 1) \in Nat
          BY <4>1, <4>3 DEF TwiceByLogins
        <5>2. QED
          BY <5>1, <2>1
      <4>5. QED
        BY <4>1, <4>2, <4>4, <2>1 DEF TwiceToLose
    <3>2. ASSUME \A key \in 1..MaxToken : ~RolloutIsOver(key) PROVE 2 * lost <= n * (n + 1)
      BY <3>2, <2>1 DEF AccessInv, LossIsPaidFor
    <3>3. QED
      BY <3>1, <3>2
  <2> HIDE DEF n
  <2>3. n * (n + 1) \in Nat
    BY <2>1
  <2>4. \A m \in Nat : 2 * lost <= m => lost <= m \div 2
    BY <2>1
  <2>5. QED
    BY <2>2, <2>3, <2>4 DEF LoginsLast, MostLost, n
<1>2. QED
  BY <1>1, AccessInductive, PTL
=============================================================================
