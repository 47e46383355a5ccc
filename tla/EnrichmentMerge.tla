-------------------------- MODULE EnrichmentMerge ---------------------------
(***************************************************************************)
(* How an enrichment result and the user's edits share one entry.  Title,  *)
(* description and source type belong to both: a worker captures them when *)
(* it claims the job and CompleteEnrichment fills those that were blank    *)
(* and have not changed.  The summary job then decides by title and        *)
(* description whether there is anything to summarize.                     *)
(*                                                                         *)
(* A value stands for where it came from: "user", "page", or one of the    *)
(* blank values NULL, the empty string, and the default type "other".      *)
(***************************************************************************)
EXTENDS Integers

CONSTANTS
    Workers,                    \* enrichment loops of any replica
    MaxResets, MaxEdits, MaxLapses      \* bounds on events

ASSUME ConstantsOK == {MaxResets, MaxEdits, MaxLapses} \subseteq Nat

VARIABLES
    field,      \* field[f]: the shared columns of the entry
    source,     \* the token of the claim that wrote canonical_url, domain, ...
    job,        \* the enrichment job columns: status, token, live lease
    lastToken,  \* tokens 1..lastToken have been drawn
    work,       \* work[w]: claim and result of loop w
    input,      \* the last decision of summarize(): skipped, or what it sent
    edits,      \* history: edits[w][f] counts edits of f since w's claim
    used        \* how often each bounded event has happened

vars == <<field, source, job, lastToken, work, input, edits, used>>

Texts  == {"title", "description"}
Fields == Texts \cup {"source_type"}

Values(f) == IF f \in Texts THEN {"NULL", "", "page", "user"} ELSE {"other", "page", "user"}

\* COALESCE(value, '') = '', and the type that stands for none.
Blank(f)  == IF f \in Texts THEN {"NULL", ""} ELSE {"other"}

\* What an enricher can answer: sanitizeUTF8 of a Go string is never NULL.
Answers(f) == IF f \in Texts THEN {"", "page"} ELSE {"other", "page"}

\* What an edit can leave: parseOptionalString turns an empty input into NULL.
Edits(f)  == IF f \in Texts THEN {"NULL", "user"} ELSE {"other", "user"}

Choices(S(_)) == {g \in [Fields -> UNION {S(f) : f \in Fields}] : \A f \in Fields : g[f] \in S(f)}

Idle    == [stage |-> "idle"]
NoInput == [sent |-> FALSE]

Spend(ev, max) == used[ev] < max /\ used' = [used EXCEPT ![ev] = @ + 1]

Init ==
    /\ field = [f \in Fields |-> IF f \in Texts THEN "NULL" ELSE "other"]
    /\ source = 0
    /\ job = [status |-> "pending", token |-> 0, live |-> FALSE]
    /\ lastToken = 0
    /\ work = [w \in Workers |-> Idle]
    /\ input = NoInput
    /\ edits = [w \in Workers |-> [f \in Fields |-> 0]]
    /\ used = [ev \in {"reset", "edit", "lapse"} |-> 0]

-----------------------------------------------------------------------------

\* ClaimJob returns the shared columns as they are at the claim.
ClaimJob(w) ==
    /\ work[w] = Idle
    /\ job.status = "pending" \/ (job.status = "processing" /\ ~job.live)
    /\ lastToken' = lastToken + 1
    /\ job' = [status |-> "processing", token |-> lastToken + 1, live |-> TRUE]
    /\ work' = [work EXCEPT ![w] = [stage |-> "fetching", token |-> lastToken + 1,
                                    claimed |-> field]]
    /\ edits' = [edits EXCEPT ![w] = [f \in Fields |-> 0]]
    /\ UNCHANGED <<field, source, input, used>>

\* Enrich answers with whatever the page has.
Fetch(w) ==
    /\ work[w].stage = "fetching"
    /\ \E result \in Choices(Answers) :
          work' = [work EXCEPT ![w] = [stage |-> "saving", token |-> @.token,
                                       claimed |-> @.claimed, result |-> result]]
    /\ UNCHANGED <<field, source, job, lastToken, input, edits, used>>

\* Mutant of Current: without the token.
CurrentAnyToken(w) == job.status = "processing" /\ job.live

Current(w) == job = [status |-> "processing", token |-> work[w].token, live |-> TRUE]

\* Mutants of Merge: a blank value is filled even if the user has just cleared it;
\* the empty string does not count as blank.
MergeBlank(f, now, claimed, result) == IF now \in Blank(f) THEN result ELSE now
MergeNull(f, now, claimed, result) ==
    IF now = claimed /\ claimed \in {"NULL", "other"} THEN result ELSE now

\* The CASE expressions of CompleteEnrichment.
Merge(f, now, claimed, result) ==
    IF now = claimed /\ claimed \in Blank(f) THEN result ELSE now

Merged(w) == [f \in Fields |-> Merge(f, field[f], work[w].claimed[f], work[w].result[f])]

CompleteEnrichment(w) ==
    /\ work[w].stage = "saving"
    /\ IF Current(w)
       THEN /\ field' = Merged(w)
            /\ source' = work[w].token
            /\ job' = [status |-> "ok", token |-> 0, live |-> FALSE]
       ELSE UNCHANGED <<field, source, job>>
    /\ work' = [work EXCEPT ![w] = Idle]
    /\ UNCHANGED <<lastToken, input, edits, used>>

\* FinishJob after a provider error.
Fail(w) ==
    /\ work[w].stage = "fetching"
    /\ job' = IF Current(w) THEN [status |-> "failed", token |-> 0, live |-> FALSE] ELSE job
    /\ work' = [work EXCEPT ![w] = Idle]
    /\ UNCHANGED <<field, source, lastToken, input, edits, used>>

LeaseLapses ==
    /\ job.live
    /\ Spend("lapse", MaxLapses)
    /\ job' = [job EXCEPT !.live = FALSE]
    /\ UNCHANGED <<field, source, lastToken, work, input, edits>>

ResetEnrichment ==
    /\ Spend("reset", MaxResets)
    /\ job' = [status |-> "pending", token |-> 0, live |-> FALSE]
    /\ UNCHANGED <<field, source, lastToken, work, input, edits>>

\* Update with new values for some of the shared fields; the job keeps running.
Edit ==
    /\ Spend("edit", MaxEdits)
    /\ \E changed \in SUBSET Fields \ {{}}, new \in Choices(Edits) :
          /\ \A f \in changed : new[f] # field[f]
          /\ field' = [f \in Fields |-> IF f \in changed THEN new[f] ELSE field[f]]
          /\ edits' = [w \in Workers |-> [f \in Fields |->
                         edits[w][f] + (IF f \in changed THEN 1 ELSE 0)]]
    /\ UNCHANGED <<source, job, lastToken, work, input>>

\* The summary loop claims the entry and decides in summarize() whether to skip.
Summarize ==
    /\ job.status = "ok"
    /\ input' = IF field["title"] = "NULL" /\ field["description"] = "NULL"
                THEN NoInput
                ELSE [sent |-> TRUE, title |-> field["title"],
                      description |-> field["description"]]
    /\ UNCHANGED <<field, source, job, lastToken, work, edits, used>>

Next == \/ \E w \in Workers : ClaimJob(w) \/ Fetch(w) \/ CompleteEnrichment(w) \/ Fail(w)
        \/ Edit \/ LeaseLapses \/ ResetEnrichment \/ Summarize

Spec == Init /\ [][Next]_vars

-----------------------------------------------------------------------------
(* Properties                                                              *)

\* The type of the entry's columns and of the claims on it.
TypeOK ==
    /\ field \in Choices(Values)
    /\ source \in 0..lastToken
    /\ job \in [status : {"pending", "processing", "ok", "failed"}, token : 0..lastToken,
                live : BOOLEAN]
    /\ \A w \in Workers : work[w].stage # "idle" =>
           work[w].token \in 1..lastToken /\ work[w].claimed \in Choices(Values)

\* The step in which w's result is saved.
Saves(w) == work[w].stage = "saving" /\ source' # source /\ source' = work[w].token

\* One edit of a field while the job runs is kept when the job completes, if it
\* cleared the field or chose "other" as much as if it filled it in.
SingleEditIsKept ==
    [][\A w \in Workers, f \in Fields :
          Saves(w) /\ edits[w][f] = 1 => field'[f] = field[f]]_vars

\* The comment above CompleteEnrichment: any edit made while the job ran,
\* including clearing a field or choosing "other", is kept.
AnyEditIsKept ==
    [][\A w \in Workers, f \in Fields :
          Saves(w) /\ edits[w][f] > 0 => field'[f] = field[f]]_vars

\* A field that was blank at the claim and not edited since gets the answer of
\* that very claim, so a refresh can complete what an earlier one left blank.
BlankFieldsAreFilled ==
    [][\A w \in Workers, f \in Fields :
          Saves(w) /\ edits[w][f] = 0 /\ field[f] \in Blank(f)
             => field'[f] = work[w].result[f]]_vars

\* README.md: the result is "skipped" for a summary with nothing to summarize, so
\* the summarizer is never sent an input without title and description.
NothingToSummarizeIsSkipped ==
    input.sent => input.title \notin Blank("title") \/ input.description \notin Blank("description")
=============================================================================
