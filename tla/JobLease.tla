------------------------------ MODULE JobLease ------------------------------
(***************************************************************************)
(* The job columns of the entries table and the worker loops that share    *)
(* them.  Every replica runs two loops, one per kind of job; each claims a *)
(* row under a fresh token and a lease, calls a provider without holding a *)
(* connection, and saves the outcome only if its claim is still current.   *)
(* HTTP handlers reset, supersede, create and delete rows meanwhile.       *)
(*                                                                         *)
(* Only <kind>_status, <kind>_claim_token and <kind>_lease_expires_at are  *)
(* kept here.  SummaryRefresh adds the summary text, the force flag and    *)
(* the cache; EnrichmentMerge the fields that enrichment fills.            *)
(*                                                                         *)
(* A lease is live or expired instead of a time: LeaseLapses may expire it *)
(* at any moment, so nothing here depends on the five minutes.             *)
(***************************************************************************)
EXTENDS Integers, FiniteSets

CONSTANTS
    Replicas,       \* the learnd processes that share the database
    Summarizing,    \* those of them whose summarizer is not nil
    MaxEntries,     \* bound: entries are numbered 1..MaxEntries as created
    Preloaded,      \* entries that exist before the replicas start
    Scenarios       \* bound: how often the Events may have happened together

Kinds    == {"enrichment", "summary"}
Entries  == 1..MaxEntries
Jobs     == Kinds \X Entries
Loops    == Replicas \X Kinds
Outcomes == {"ok", "failed", "skipped"}
Statuses == Outcomes \cup {"none", "pending", "processing"}
Events   == {"fault", "crash", "stop", "lapse", "reset", "edit", "delete"}

ASSUME ConstantsOK ==
    /\ Summarizing \subseteq Replicas
    /\ MaxEntries \in Nat
    /\ Preloaded \in 0..MaxEntries
    /\ Scenarios \subseteq [Events -> Nat]

VARIABLES
    created,    \* number of entries inserted so far
    job,        \* job[<<kind, entry>>]: status, token and lease columns
    lastToken,  \* tokens 1..lastToken have been drawn (uuid.New)
    pc,         \* where each loop is
    claim,      \* the JobClaim of each loop and the status it is to write
    stopping,   \* the replica's worker context is cancelled
    inflight,   \* statements whose caller has given up but which may still run
    uncounted,  \* outcomes written to rows less learnd_jobs_total{kind,result}
    lastWrite,  \* history: the token of the last claim that wrote to the job
    revoked,    \* history: tokens up to this one have lost the job
    used        \* how often each event has happened

vars == <<created, job, lastToken, pc, claim, stopping, inflight, uncounted,
          lastWrite, revoked, used>>

-----------------------------------------------------------------------------

NoToken == 0

\* The three columns of a job that nobody holds.
Unleased(s) == [status |-> s, token |-> NoToken, lease |-> "null"]

NoClaim == [entry |-> 0, token |-> NoToken, want |-> "none"]

Spend(ev) == /\ used' = [used EXCEPT ![ev] = @ + 1]
             /\ used' \in Scenarios

Exists(e) == \A k \in Kinds : job[<<k, e>>].status # "none"

\* Stages of a loop that has a claim in its hands.
Busy    == {"running", "saving", "erred", "releasing"}
\* Stages in which a statement on the claimed row is being executed.
Writing == {"saving", "releasing"}

JobOf(l) == <<l[2], claim[l].entry>>

\* Mutants of Current: without the token, and without any condition but the id.
CurrentAnyToken(j, t) == job[j].status = "processing" /\ job[j].lease = "live"
CurrentUnguarded(j, t) == job[j].status # "none"

\* The WHERE clause of FinishJob and of both Complete functions.
Current(j, t) == /\ job[j].status = "processing"
                 /\ job[j].token = t
                 /\ job[j].lease = "live"

\* Mutants of Eligible: abandoned rows are not reclaimed; rows without a lease
\* are not seen as abandoned; a row is taken whether its lease is live or not.
EligiblePendingOnly(k) ==
    {e \in Entries : /\ job[<<k, e>>].status = "pending"
                     /\ k = "summary" => job[<<"enrichment", e>>].status = "ok"}
EligibleNotLegacy(k) ==
    {e \in Entries :
        /\ \/ job[<<k, e>>].status = "pending"
           \/ job[<<k, e>>].lease = "expired"
        /\ k = "summary" => job[<<"enrichment", e>>].status = "ok"}

EligibleEvenLeased(k) ==
    {e \in Entries : /\ job[<<k, e>>].status \in {"pending", "processing"}
                     /\ k = "summary" => job[<<"enrichment", e>>].status = "ok"}

\* The WHERE clause of ClaimJob.
Eligible(k) ==
    {e \in Entries :
        /\ \/ job[<<k, e>>].status = "pending"
           \/ /\ job[<<k, e>>].status = "processing"
              /\ job[<<k, e>>].lease # "live"
        /\ k = "summary" => job[<<"enrichment", e>>].status = "ok"}

\* ORDER BY created_at, id LIMIT 1
Oldest(S) == {e \in S : \A f \in S : e <= f}

\* Rows a statement has locked at this moment, which SKIP LOCKED passes over.
RowLocked == {claim[l].entry : l \in {m \in Loops : pc[m] \in Writing}}
             \cup {x.job[2] : x \in inflight}

-----------------------------------------------------------------------------
(* A row is either new, or was left by a build that had no leases: that    *)
(* one set 'processing' and nothing else.                                  *)
FirstState(e, k, start) ==
    IF e > Preloaded THEN Unleased("none")
    ELSE CASE start = "new"        -> Unleased("pending")
           [] start = "enriching"   -> Unleased(IF k = "enrichment" THEN "processing"
                                                ELSE "pending")
           [] start = "summarizing" -> Unleased(IF k = "enrichment" THEN "ok"
                                                ELSE "processing")

Init ==
    /\ created = Preloaded
    /\ \E start \in [Entries -> {"new", "enriching", "summarizing"}] :
          job = [j \in Jobs |-> FirstState(j[2], j[1], start[j[2]])]
    /\ lastToken = 0
    /\ pc = [l \in Loops |-> "idle"]
    /\ claim = [l \in Loops |-> NoClaim]
    /\ stopping = [w \in Replicas |-> FALSE]
    /\ inflight = {}
    /\ uncounted = [x \in Kinds \X Outcomes |-> 0]
    /\ lastWrite = [j \in Jobs |-> NoToken]
    /\ revoked = [j \in Jobs |-> NoToken]
    /\ used = [ev \in Events |-> 0]

-----------------------------------------------------------------------------
(* The worker loops                                                        *)

\* ClaimJob inside process().  If the answer is lost, or a shutdown cancels the
\* call while the database runs it, the row stays claimed under a token nobody
\* knows; both are counted as faults.
ClaimJob(l) ==
    /\ pc[l] = "idle"
    /\ ~stopping[l[1]]
    /\ l[2] = "summary" => l[1] \in Summarizing
    /\ \E skipped \in SUBSET RowLocked, e \in Entries :
          LET j == <<l[2], e>>
              t == lastToken + 1
          IN /\ e \in Oldest(Eligible(l[2]) \ skipped)
             /\ job' = [job EXCEPT ![j] = [status |-> "processing", token |-> t,
                                           lease |-> "live"]]
             /\ revoked' = [revoked EXCEPT ![j] = lastToken]
             /\ lastToken' = t
             /\ \/ /\ pc' = [pc EXCEPT ![l] = "running"]
                   /\ claim' = [claim EXCEPT ![l] = [entry |-> e, token |-> t,
                                                     want |-> "none"]]
                   /\ UNCHANGED used
                \/ /\ Spend("fault")
                   /\ UNCHANGED <<pc, claim>>
    /\ UNCHANGED <<created, stopping, inflight, uncounted, lastWrite>>

\* The loop goes on with its claim, to write status s.
Carry(l, stage, s) ==
    /\ pc' = [pc EXCEPT ![l] = stage]
    /\ claim' = [claim EXCEPT ![l].want = s]

\* The run function returns and the claim goes out of scope.
LeaveClaim(l, stage) ==
    /\ pc' = [pc EXCEPT ![l] = stage]
    /\ claim' = [claim EXCEPT ![l] = NoClaim]

\* Mutant of SaveError: a claim is left to its lease at a shutdown, too.
SaveErrorDrops(l) == LeaveClaim(l, "idle")

\* saved() with an error that is not ErrClaimLost: the claim is left to its
\* lease unless the worker is shutting down.
SaveError(l) == IF stopping[l[1]] THEN Carry(l, "erred", "none") ELSE LeaveClaim(l, "idle")

RowsUnchanged == UNCHANGED <<created, job, lastToken, stopping, uncounted,
                             lastWrite, revoked>>

\* The provider (or the summary cache) answers, or the call fails: an error, the
\* two-minute deadline or the cancelled context.
ProviderReturns(l) ==
    /\ pc[l] = "running"
    /\ Carry(l, "saving", "ok") \/ Carry(l, "erred", "none")
    /\ UNCHANGED <<inflight, used>> /\ RowsUnchanged

\* summarize() finds neither a title nor a description in the claim.
SkipSummary(l) ==
    /\ pc[l] = "running" /\ l[2] = "summary"
    /\ Carry(l, "saving", "skipped")
    /\ UNCHANGED <<inflight, used>> /\ RowsUnchanged

CacheLookupFails(l) ==
    /\ pc[l] = "running" /\ l[2] = "summary"
    /\ IF stopping[l[1]] THEN UNCHANGED used ELSE Spend("fault")
    /\ SaveError(l)
    /\ UNCHANGED inflight /\ RowsUnchanged

\* finishError() decides by parent.Err() what it is going to record.
FinishError(l) ==
    /\ pc[l] = "erred"
    /\ Carry(l, "releasing", IF stopping[l[1]] THEN "pending" ELSE "failed")
    /\ UNCHANGED <<inflight, used>> /\ RowsUnchanged

\* The guarded UPDATE takes effect in the database.
RecordStatus(j, t, s) ==
    IF Current(j, t)
    THEN /\ job' = [job EXCEPT ![j] = Unleased(s)]
         /\ lastWrite' = [lastWrite EXCEPT ![j] = t]
    ELSE UNCHANGED <<job, lastWrite>>

One(b) == IF b THEN 1 ELSE 0

\* How much RecordStatus(j, t, s) adds to the recorded outcomes x.
Recorded(j, t, s, x) == One(Current(j, t) /\ x = <<j[1], s>>)

\* Mutant of Counted: lost claims are counted too.
CountedAlways(l, x) == One(x = <<l[2], claim[l].want>>)

\* How much saved() or the end of finishError() adds to the counter for x: a
\* write that reported success is counted, except the return to pending.
Counted(l, x) == One(Current(JobOf(l), claim[l].token) /\ x = <<l[2], claim[l].want>>)

\* CompleteEnrichment, CompleteSummary or FinishJob answers: it wrote the row,
\* or found that the claim is lost.
WriteAnswers(l) ==
    /\ pc[l] \in Writing
    /\ RecordStatus(JobOf(l), claim[l].token, claim[l].want)
    /\ uncounted' = [x \in Kinds \X Outcomes |->
           uncounted[x] + Recorded(JobOf(l), claim[l].token, claim[l].want, x)
                        - Counted(l, x)]
    /\ LeaveClaim(l, "idle")
    /\ UNCHANGED <<created, lastToken, stopping, inflight, revoked, used>>

StatementOf(l) == [job |-> JobOf(l), token |-> claim[l].token, want |-> claim[l].want]

\* The write fails or times out for its caller; the database may still run it.
\* Cancelling the worker cancels a Complete in progress, but not the cleanup,
\* which has a context of its own.
WriteFails(l) ==
    /\ pc[l] \in Writing
    /\ IF pc[l] = "saving" /\ stopping[l[1]] THEN UNCHANGED used ELSE Spend("fault")
    /\ IF pc[l] = "saving" THEN SaveError(l) ELSE LeaveClaim(l, "idle")
    /\ inflight' = inflight \cup {StatementOf(l)}
    /\ RowsUnchanged

\* runLoop returns once its context is done.
LoopExits(l) ==
    /\ pc[l] = "idle" /\ stopping[l[1]]
    /\ LeaveClaim(l, "done")
    /\ UNCHANGED <<inflight, used>> /\ RowsUnchanged

LoopStep(l) == ClaimJob(l) \/ ProviderReturns(l) \/ SkipSummary(l)
               \/ CacheLookupFails(l) \/ FinishError(l) \/ WriteAnswers(l)
               \/ WriteFails(l) \/ LoopExits(l)

-----------------------------------------------------------------------------
(* Processes, the network and time                                         *)

LoopsOf(w) == {w} \X Kinds

\* SIGTERM: the signal context, which every worker context derives from, ends.
Shutdown(w) ==
    /\ ~stopping[w]
    /\ Spend("stop")
    /\ stopping' = [stopping EXCEPT ![w] = TRUE]
    /\ UNCHANGED <<created, job, lastToken, pc, claim, inflight, uncounted,
                   lastWrite, revoked>>

\* The process dies; statements it had sent may or may not still run.
Crash(w) ==
    /\ \E l \in LoopsOf(w) : pc[l] # "done"
    /\ Spend("crash")
    /\ stopping' = [stopping EXCEPT ![w] = TRUE]
    /\ pc' = [l \in Loops |-> IF l[1] = w THEN "done" ELSE pc[l]]
    /\ claim' = [l \in Loops |-> IF l[1] = w THEN NoClaim ELSE claim[l]]
    /\ \E sent \in SUBSET {l \in LoopsOf(w) : pc[l] \in Writing} :
          inflight' = inflight \cup {StatementOf(l) : l \in sent}
    /\ UNCHANGED <<created, job, lastToken, uncounted, lastWrite, revoked>>

\* A new process takes the place of one that has ended.
Restart(w) ==
    /\ \A l \in LoopsOf(w) : pc[l] = "done"
    /\ stopping' = [stopping EXCEPT ![w] = FALSE]
    /\ pc' = [l \in Loops |-> IF l[1] = w THEN "idle" ELSE pc[l]]
    /\ UNCHANGED <<created, job, lastToken, claim, inflight, uncounted,
                   lastWrite, revoked, used>>

\* A statement whose caller has given up runs after all, or never will.
LateWrite(x) ==
    /\ \/ /\ RecordStatus(x.job, x.token, x.want)
          /\ uncounted' = [o \in Kinds \X Outcomes |->
                 uncounted[o] + Recorded(x.job, x.token, x.want, o)]
       \/ UNCHANGED <<job, lastWrite, uncounted>>
    /\ inflight' = inflight \ {x}
    /\ UNCHANGED <<created, lastToken, pc, claim, stopping, revoked, used>>

Held(j) == \E l \in Loops : pc[l] \in Busy /\ JobOf(l) = j /\ claim[l].token = job[j].token

\* lease_expires_at passes.  While the holder is at work this takes a stall (the
\* timeouts add up to less than the lease), so it is bounded there.
LeaseLapses(j) ==
    /\ job[j].lease = "live"
    /\ IF Held(j) THEN Spend("lapse") ELSE UNCHANGED used
    /\ job' = [job EXCEPT ![j].lease = "expired"]
    /\ UNCHANGED <<created, lastToken, pc, claim, stopping, inflight, uncounted, lastWrite, revoked>>

-----------------------------------------------------------------------------
(* The HTTP handlers                                                       *)

Revoke(j, s) ==
    /\ job' = [job EXCEPT ![j] = Unleased(s)]
    /\ revoked' = [revoked EXCEPT ![j] = lastToken]
    /\ UNCHANGED <<created, lastToken, pc, claim, stopping, inflight, uncounted, lastWrite>>

\* ResetEnrichment does not look at, or change, the summary's columns.
ResetEnrichment(e) ==
    Exists(e) /\ Spend("reset") /\ Revoke(<<"enrichment", e>>, "pending")

ResetSummary(e) ==
    Exists(e) /\ Spend("reset") /\ Revoke(<<"summary", e>>, "pending")

\* Update with a summary text that differs from the stored one, while a summary
\* job is queued or running.  Any other Update leaves these columns alone.
SupersedeSummary(e) ==
    /\ job[<<"summary", e>>].status \in {"pending", "processing"}
    /\ Spend("edit")
    /\ Revoke(<<"summary", e>>, "ok")

CreateEntry ==
    /\ created < MaxEntries
    /\ created' = created + 1
    /\ job' = [j \in Jobs |-> IF j[2] = created + 1 THEN Unleased("pending") ELSE job[j]]
    /\ UNCHANGED <<lastToken, pc, claim, stopping, inflight, uncounted,
                   lastWrite, revoked, used>>

DeleteEntry(e) ==
    /\ Exists(e)
    /\ Spend("delete")
    /\ job' = [j \in Jobs |-> IF j[2] = e THEN Unleased("none") ELSE job[j]]
    /\ revoked' = [j \in Jobs |-> IF j[2] = e THEN lastToken ELSE revoked[j]]
    /\ UNCHANGED <<created, lastToken, pc, claim, stopping, inflight, uncounted, lastWrite>>

UserStep == \/ CreateEntry
            \/ \E e \in Entries : ResetEnrichment(e) \/ ResetSummary(e)
                                  \/ SupersedeSummary(e) \/ DeleteEntry(e)

-----------------------------------------------------------------------------

ProcessStep(w) == Shutdown(w) \/ Crash(w) \/ Restart(w)

Next == \/ \E l \in Loops : LoopStep(l)
        \/ \E w \in Replicas : ProcessStep(w)
        \/ \E x \in inflight : LateWrite(x)
        \/ \E j \in Jobs : LeaseLapses(j)
        \/ UserStep

Spec == Init /\ [][Next]_vars

(* Fairness: a loop ticks every ten seconds and every call it makes is     *)
(* bounded by a context deadline; a stopped replica is replaced; an        *)
(* abandoned statement ends; a lease that nobody works under runs out.     *)
Progress(l) == ClaimJob(l) \/ ProviderReturns(l) \/ FinishError(l) \/ WriteAnswers(l)
               \/ LoopExits(l)

Fairness == /\ \A l \in Loops : WF_vars(Progress(l))
            /\ \A w \in Replicas : WF_vars(Restart(w))
            /\ WF_vars(\E x \in inflight : LateWrite(x))
            /\ \A j \in Jobs : WF_vars(LeaseLapses(j) /\ ~Held(j))

FairSpec == Spec /\ Fairness

-----------------------------------------------------------------------------
(* Properties                                                              *)

Leases == {"null", "live", "expired"}

\* The type of every variable.
TypeOK ==
    /\ created \in 0..MaxEntries
    /\ job \in [Jobs -> [status : Statuses, token : Nat, lease : Leases]]
    /\ lastToken \in Nat
    /\ pc \in [Loops -> Busy \cup {"idle", "done"}]
    /\ claim \in [Loops -> [entry : Entries \cup {0}, token : Nat, want : Statuses]]
    /\ stopping \in [Replicas -> BOOLEAN]
    /\ inflight \subseteq [job : Jobs, token : Nat, want : Statuses]
    /\ uncounted \in [Kinds \X Outcomes -> Int]
    /\ lastWrite \in [Jobs -> Nat]
    /\ revoked \in [Jobs -> Nat]
    /\ used \in [Events -> Nat]

\* At no time can two loops both pass the WHERE clause of a final write on the
\* same job: the token of ClaimJob makes ownership exclusive across replicas.
AtMostOneOwner ==
    \A l, m \in Loops :
        /\ pc[l] \in Busy /\ pc[m] \in Busy
        /\ JobOf(l) = JobOf(m)
        /\ Current(JobOf(l), claim[l].token)
        /\ Current(JobOf(m), claim[m].token)
        => l = m

\* A row under a live lease has a loop working on it, unless an answer or a process was
\* lost: summarize(), saved() and finishError() leave no other path on which a
\* claim is dropped without being released, shutdown included.
LeasedJobIsHeld ==
    used["fault"] = 0 /\ used["crash"] = 0 =>
        \A j \in Jobs : job[j].lease = "live" => Held(j)

\* The counter never runs ahead of the rows: an outcome is counted only after
\* it was recorded, however writes fail, run late or lose their claim.
MetricNeverOvercounts ==
    \A x \in Kinds \X Outcomes : uncounted[x] >= 0

\* Without a lost answer, a crash or a shutdown every recorded outcome has been
\* counted.
MetricIsComplete ==
    used["fault"] = 0 /\ used["crash"] = 0 /\ used["stop"] = 0 =>
        \A x \in Kinds \X Outcomes : uncounted[x] = 0

\* learnd_jobs_total is never ahead of the rows, and exact until an answer, a process or a
\* replica is lost.
MetricAgrees == MetricNeverOvercounts /\ MetricIsComplete

(* Until an answer, a process or a replica is lost nothing is left to      *)
(* count: no worker is stopping, so no write is cancelled, and no          *)
(* abandoned statement runs behind its loop's back.                        *)
NothingIsLeftToCount ==
    used["fault"] = 0 /\ used["crash"] = 0 /\ used["stop"] = 0 =>
        /\ \A w \in Replicas : ~stopping[w]
        /\ inflight = {}
        /\ \A x \in Kinds \X Outcomes : uncounted[x] = 0

\* A result is written only by a claim that came after the last revocation
\* (refresh, superseding edit, delete, or a newer claim), even when the
\* statement runs after its caller gave up.
StaleClaimNeverWrites ==
    [][\A j \in Jobs : lastWrite'[j] # lastWrite[j] => lastWrite'[j] > revoked[j]]_vars

\* Each claim writes its job at most once, and results land in claim order; only
\* a superseding edit settles a job otherwise.
ResultsLandInClaimOrder ==
    [][\A j \in Jobs : job'[j] # job[j] /\ job'[j].status \in Outcomes
                       /\ used'["edit"] = used["edit"]
                       => lastWrite'[j] > lastWrite[j]]_vars

\* Settled work is left alone until the user asks: no late statement, expired
\* lease or other replica takes a job out of ok, failed or skipped.
SettledWaitsForUser ==
    [][\A j \in Jobs : job[j].status \in Outcomes /\ job'[j] # job[j]
                       => used'["reset"] > used["reset"] \/ used'["delete"] > used["delete"]]_vars

(* A loop in one of the Busy stages has a claim on an entry under a token  *)
(* drawn for it, and no two loops have the same token.                     *)
LoopsHaveClaims ==
    /\ \A l \in Loops :
          /\ claim[l].token <= lastToken
          /\ pc[l] \in Busy => claim[l].token # NoToken /\ claim[l].entry \in Entries
          /\ pc[l] \in Writing => claim[l].want # "none"
    /\ \A l, m \in Loops :
          claim[l].token = claim[m].token /\ claim[l].token # NoToken => l = m

(* Abandoned statements carry tokens that were drawn.                      *)
StatementsHaveTokens ==
    \A x \in inflight : x.token # NoToken /\ x.token <= lastToken /\ x.want # "none"

(* The token on a row is younger than every claim that has written or lost *)
(* the job.                                                                *)
RowsHaveYoungTokens ==
    \A j \in Jobs :
        /\ job[j].token <= lastToken /\ lastWrite[j] <= lastToken /\ revoked[j] <= lastToken
        /\ job[j].token # NoToken => job[j].token > revoked[j] /\ job[j].token > lastWrite[j]

(* Only a processing row is leased, and rows not yet inserted are absent.  *)
RowsAreConsistent ==
    \A j \in Jobs :
        /\ job[j].lease # "null" => job[j].status = "processing"
        /\ j[2] > created => job[j].status = "none"

(* These parts together are inductive: every step of Next preserves them, and  *)
(* they imply the safety properties above.                                    *)
IInv == TypeOK /\ LoopsHaveClaims /\ StatementsHaveTokens /\ RowsHaveYoungTokens
        /\ RowsAreConsistent

\* What the status row polls for (needsPolling with SummaryEnabled).
NeedsPolling(e) ==
    \/ job[<<"enrichment", e>>].status \in {"pending", "processing"}
    \/ /\ job[<<"enrichment", e>>].status = "ok"
       /\ job[<<"summary", e>>].status \in {"pending", "processing"}

\* The comment in entry_row.templ: a summary whose enrichment is not ok is not
\* claimed and stays pending indefinitely, so a row that does not poll changes
\* only when the user acts.
QuietRowStays ==
    [][\A e \in Entries :
         ~NeedsPolling(e) /\ Exists(e) /\ job'[<<"summary", e>>].status # job[<<"summary", e>>].status
         => \E ev \in {"reset", "edit", "delete"} : used'[ev] > used[ev]]_vars

Unfinished(j) == job[j].status \in {"pending", "processing"}

\* Every queued enrichment is settled in the end, or its entry deleted.
EnrichmentSettles ==
    \A e \in Entries : Unfinished(<<"enrichment", e>>) ~> ~Unfinished(<<"enrichment", e>>)

\* Every queued summary is settled in the end unless its enrichment is not ok:
\* ClaimJob never takes a summary whose enrichment has failed.
SummarySettles ==
    \A e \in Entries :
        Unfinished(<<"summary", e>>) ~>
            \/ ~Unfinished(<<"summary", e>>)
            \/ job[<<"enrichment", e>>].status = "failed"

-----------------------------------------------------------------------------
(* The refinement: pending and processing are both "queued", and a job is  *)
(* held by the token on its row as long as the lease is live.              *)

StateOf(s) == IF s = "none" THEN "absent"
              ELSE IF s \in {"pending", "processing"} THEN "queued" ELSE s

HolderOf(r) == IF r.lease = "live" THEN r.token ELSE NoToken

Contract == INSTANCE JobContract WITH
    state  <- [j \in Jobs |-> StateOf(job[j].status)],
    holder <- [j \in Jobs |-> HolderOf(job[j])],
    drawn  <- lastToken

\* However claims, failures, crashes, late statements and users interleave, every
\* step on a job is one that JobContract allows: above all no job is handed out
\* while it is held, and only its holder settles it.
KeepsContract == Contract!Spec
=============================================================================
