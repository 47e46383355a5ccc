--------------------------- MODULE SummaryRefresh ---------------------------
(***************************************************************************)
(* Summary jobs with everything they read and write: the entry's summary   *)
(* text, the force flag set by a refresh, and the cache that entries with  *)
(* the same URL share.  CompleteSummary and ResetSummary are transactions  *)
(* of two statements; the row locks they take are held until they commit.  *)
(*                                                                         *)
(* A text is named by the token of the claim whose provider call made it,  *)
(* so a larger number is a text that was asked for later.                  *)
(***************************************************************************)
EXTENDS Integers, FiniteSets

CONSTANTS
    Entries,    \* entries that exist
    Urls,       \* what an entry's COALESCE(canonical_url, source_url) can be
    Workers,    \* summary loops, of any replica
    Users,      \* HTTP requests that may be under way at once
    Scenarios   \* bound: how often the Events may have happened together

Events == {"reset", "edit", "loss", "move"}

ASSUME ConstantsOK == Scenarios \subseteq [Events -> Nat]
ASSUME ProcsOK == Workers \cap Users = {} /\ "nobody" \notin Workers \cup Users

VARIABLES
    row,        \* row[e]: the summary columns and the URL of entry e
    cache,      \* cache[u]: the text cached under the hash of u, or NoText
    lastToken,  \* tokens 1..lastToken have been drawn
    job,        \* job[w]: what loop w is doing with its claim
    req,        \* req[u]: what RefreshSummary request u is doing
    entryLock,  \* entryLock[e]: the transaction that has updated row e, or Nobody
    cacheLock,  \* the same for rows of summary_cache
    refreshed,  \* history: lastToken when the entry was last refreshed
    userText,   \* history: the user has edited the text since the last refresh
    used        \* how often each of the Events has happened

vars == <<row, cache, lastToken, job, req, entryLock, cacheLock, refreshed,
          userText, used>>

Nobody   == "nobody"
NoText   == 0
ByUser   == -1
Statuses == {"pending", "processing", "ok", "failed", "skipped"}
Procs    == Workers \cup Users

Idle == [stage |-> "idle"]

\* The fields of a claim: ClaimJob's RETURNING list as far as it matters here.
Claim(e, t) == [stage |-> "claimed", entry |-> e, token |-> t,
                url |-> row[e].url, force |-> row[e].force, text |-> NoText]

Claimed(r, t) == [r EXCEPT !.status = "processing", !.live = TRUE, !.token = t]

Told(c, text, s) == [c EXCEPT !.text = text, !.stage = s]

Spend(ev) == /\ used' = [used EXCEPT ![ev] = @ + 1]
             /\ used' \in Scenarios

\* An UPDATE of row e by a single statement waits while a transaction holds it.
Unlocked(e) == entryLock[e] = Nobody

\* The WHERE clause of the final writes.
Current(c) == LET r == row[c.entry]
              IN r.status = "processing" /\ r.token = c.token /\ r.live

\* Mutant of Released: the end of a job takes the force flag down, failure or not.
ReleasedUnforced(r, s) ==
    [r EXCEPT !.status = s, !.token = 0, !.live = FALSE, !.force = FALSE]

Released(r, s) == [r EXCEPT !.status = s, !.token = 0, !.live = FALSE]

Init ==
    /\ row \in [Entries -> [status : {"pending"}, token : {0}, live : {FALSE},
                            force : {FALSE}, text : {NoText}, url : Urls,
                            enriched : {TRUE}]]
    /\ cache = [u \in Urls |-> NoText]
    /\ lastToken = 0
    /\ job = [w \in Workers |-> Idle]
    /\ req = [u \in Users |-> Idle]
    /\ entryLock = [e \in Entries |-> Nobody]
    /\ cacheLock = [u \in Urls |-> Nobody]
    /\ refreshed = [e \in Entries |-> 0]
    /\ userText = [e \in Entries |-> FALSE]
    /\ used = [ev \in Events |-> 0]

-----------------------------------------------------------------------------
(* summarize()                                                             *)

\* ClaimJob: FOR UPDATE SKIP LOCKED passes over rows that a transaction holds.
ClaimJob(w) ==
    /\ job[w] = Idle
    /\ \E e \in Entries :
          /\ Unlocked(e)
          /\ row[e].enriched
          /\ \/ row[e].status = "pending"
             \/ row[e].status = "processing" /\ ~row[e].live
          /\ job' = [job EXCEPT ![w] = Claim(e, lastToken + 1)]
          /\ row' = [row EXCEPT ![e] = Claimed(@, lastToken + 1)]
    /\ lastToken' = lastToken + 1
    /\ UNCHANGED <<cache, req, entryLock, cacheLock, refreshed, userText, used>>

LocalStep == UNCHANGED <<row, cache, lastToken, req, entryLock, cacheLock, refreshed,
                         userText, used>>

\* Mutant of LookUpCache: the force flag is not looked at.
LookUpCacheAlways(w) ==
    /\ job[w].stage = "claimed"
    /\ LET text == cache[job[w].url]
       IN job' = [job EXCEPT ![w] = Told(@, text, IF text = NoText THEN "asking"
                                                      ELSE "saving cached")]
    /\ LocalStep

\* GetByURLHash, skipped for a forced refresh; a hit goes straight to saving.
LookUpCache(w) ==
    /\ job[w].stage = "claimed"
    /\ LET text == IF job[w].force THEN NoText ELSE cache[job[w].url]
       IN job' = [job EXCEPT ![w] = Told(@, text, IF text = NoText THEN "asking"
                                                      ELSE "saving cached")]
    /\ LocalStep

\* Summarize answers; the text is stored together with a cache row.
ProviderAnswers(w) ==
    /\ job[w].stage = "asking"
    /\ job' = [job EXCEPT ![w] = Told(@, @.token, "saving")]
    /\ LocalStep

\* FinishJob.  A provider failure is the only way to failed; skipped comes before
\* the cache is asked; a shutdown returns the job to pending.
FinishJob(w) ==
    \E s \in {"failed", "skipped", "pending"} :
        /\ job[w].stage = CASE s = "failed"  -> "asking"
                            [] s = "skipped" -> "claimed"
                            [] s = "pending" -> "releasing"
        /\ Unlocked(job[w].entry)
        /\ row' = IF Current(job[w])
                  THEN [row EXCEPT ![job[w].entry] = Released(@, s)] ELSE row
        /\ job' = [job EXCEPT ![w] = Idle]
        /\ UNCHANGED <<cache, lastToken, req, entryLock, cacheLock, refreshed, userText, used>>

-----------------------------------------------------------------------------
(* Transactions.  Each takes its two row locks in the order of its         *)
(* statements; a statement that finds a row locked waits.                  *)

Action(p) == IF p \in Workers THEN job[p] ELSE req[p]

\* Mutant of LockOrder: ResetSummary deletes the cache row before it updates the
\* entry.
LockOrderMixed(p) == IF p \in Workers THEN <<"entry", "cache">> ELSE <<"cache", "entry">>

LockOrder(p) == <<"entry", "cache">>

\* The statement a process is about to execute inside its transaction.
AtStatement(p, table) ==
    LET a == Action(p)
    IN \/ a.stage = "saving cached" /\ table = "entry"
       \/ a.stage = "saving" /\ table = LockOrder(p)[1]
       \/ a.stage = "saved first" /\ table = LockOrder(p)[2]
       \/ a.stage = "resetting" /\ table = LockOrder(p)[1]
       \/ a.stage = "reset first" /\ table = LockOrder(p)[2]

NextStage(p, table) ==
    CASE Action(p).stage = "saving cached" -> "committing cached"
      [] Action(p).stage = "saving"        -> "saved first"
      [] Action(p).stage = "saved first"   -> "committing"
      [] Action(p).stage = "resetting"     -> "reset first"
      [] Action(p).stage = "reset first"   -> "committing reset"

SetStage(p, s) ==
    IF p \in Workers
    THEN job' = [job EXCEPT ![p].stage = s] /\ UNCHANGED req
    ELSE req' = [req EXCEPT ![p].stage = s] /\ UNCHANGED job

UnlockAll(p) ==
    /\ entryLock' = [e \in Entries |-> IF entryLock[e] = p THEN Nobody ELSE entryLock[e]]
    /\ cacheLock' = [u \in Urls |-> IF cacheLock[u] = p THEN Nobody ELSE cacheLock[u]]

\* UPDATE entries: a worker that finds its claim gone rolls back (ErrClaimLost).
UpdateEntry(p) ==
    LET e == Action(p).entry
    IN /\ AtStatement(p, "entry")
       /\ Unlocked(e)
       /\ IF p \in Workers /\ ~Current(job[p])
          THEN /\ UnlockAll(p)
               /\ job' = [job EXCEPT ![p] = Idle]
               /\ UNCHANGED req
          ELSE /\ SetStage(p, NextStage(p, "entry"))
               /\ entryLock' = [entryLock EXCEPT ![e] = p]
               /\ UNCHANGED cacheLock
       /\ UNCHANGED <<row, cache, lastToken, refreshed, userText, used>>

\* The URL whose cache row is written: of the claim, or RETURNING ... of the row.
CacheUrl(p) == IF p \in Workers THEN job[p].url ELSE row[req[p].entry].url

\* The upsert always takes the row (or its key); DELETE does not see, and so
\* does not wait for, a row that is being inserted.
CacheBusy(p) == /\ cacheLock[CacheUrl(p)] # Nobody
                /\ p \in Workers \/ cache[CacheUrl(p)] # NoText

\* Mutant of TouchCache: the upsert is not part of the transaction.
TouchCacheAtOnce(p) ==
    /\ AtStatement(p, "cache")
    /\ ~CacheBusy(p)
    /\ SetStage(p, NextStage(p, "cache"))
    /\ cache' = [cache EXCEPT ![CacheUrl(p)] = IF p \in Workers THEN job[p].text ELSE NoText]
    /\ UNCHANGED <<row, cacheLock, lastToken, entryLock, refreshed, userText, used>>

TouchCache(p) ==
    /\ AtStatement(p, "cache")
    /\ ~CacheBusy(p)
    /\ SetStage(p, NextStage(p, "cache"))
    /\ cacheLock' = IF p \in Workers \/ cache[CacheUrl(p)] # NoText
                    THEN [cacheLock EXCEPT ![CacheUrl(p)] = p] ELSE cacheLock
    /\ UNCHANGED <<row, cache, lastToken, entryLock, refreshed, userText, used>>

Completed(r, c) == [Released(r, "ok") EXCEPT !.text = c.text, !.force = FALSE]

CommitSummary(w) ==
    LET c == job[w]
    IN /\ c.stage \in {"committing", "committing cached"}
       /\ row' = [row EXCEPT ![c.entry] = Completed(@, c)]
       /\ cache' = IF c.stage = "committing" THEN [cache EXCEPT ![c.url] = c.text] ELSE cache
       /\ UnlockAll(w)
       /\ job' = [job EXCEPT ![w] = Idle]
       /\ UNCHANGED <<lastToken, req, refreshed, userText, used>>

Forced(r) == [Released(r, "pending") EXCEPT !.force = TRUE]

CommitReset(u) ==
    LET e == req[u].entry
    IN /\ req[u].stage = "committing reset"
       /\ row' = [row EXCEPT ![e] = Forced(@)]
       /\ cache' = [v \in Urls |-> IF cacheLock[v] = u THEN NoText ELSE cache[v]]
       /\ UnlockAll(u)
       /\ req' = [req EXCEPT ![u] = Idle]
       /\ refreshed' = [refreshed EXCEPT ![e] = lastToken]
       /\ userText' = [userText EXCEPT ![e] = FALSE]
       /\ UNCHANGED <<lastToken, job, used>>

\* Any statement or call can fail, and a process can die: the transaction rolls
\* back.  The claim, if there is one, is left to its lease, or, when the worker is
\* shutting down, released by a FinishJob.
Abort(p) ==
    /\ Action(p) # Idle
    /\ Spend("loss")
    /\ UnlockAll(p)
    /\ \/ p \in Workers /\ job' = [job EXCEPT ![p] = Idle] /\ UNCHANGED req
       \/ p \in Workers /\ job' = [job EXCEPT ![p].stage = "releasing"] /\ UNCHANGED req
       \/ p \in Users /\ req' = [req EXCEPT ![p] = Idle] /\ UNCHANGED job
    /\ UNCHANGED <<row, cache, lastToken, refreshed, userText>>

Held(e) == \E w \in Workers : job[w] # Idle /\ job[w].entry = e /\ job[w].token = row[e].token

\* The lease runs out, under a loop at work only when that loop is stalled.
LeaseLapses(e) ==
    /\ row[e].live
    /\ IF Held(e) THEN Spend("loss") ELSE UNCHANGED used
    /\ row' = [row EXCEPT ![e].live = FALSE]
    /\ UNCHANGED <<cache, lastToken, job, req, entryLock, cacheLock, refreshed, userText>>

-----------------------------------------------------------------------------
(* The handlers                                                            *)

\* RefreshSummary calls ResetSummary, which begins its transaction.
BeginReset(u) ==
    /\ req[u] = Idle
    /\ Spend("reset")
    /\ \E e \in Entries : req' = [req EXCEPT ![u] = [stage |-> "resetting", entry |-> e]]
    /\ UNCHANGED <<row, cache, lastToken, job, entryLock, cacheLock, refreshed, userText>>

\* Mutant of EditSummary: a queued or running job is not superseded.
EditSummaryOnly(e) ==
    /\ Unlocked(e)
    /\ Spend("edit")
    /\ row' = [row EXCEPT ![e].text = ByUser]
    /\ userText' = [userText EXCEPT ![e] = TRUE]
    /\ UNCHANGED <<cache, lastToken, job, req, entryLock, cacheLock, refreshed>>

\* Update with a new summary text: it supersedes a queued or running job, and
\* leaves summary_force_refresh as it is.
EditSummary(e) ==
    /\ Unlocked(e)
    /\ Spend("edit")
    /\ row' = [row EXCEPT ![e] =
          [IF @.status \in {"pending", "processing"} THEN Released(@, "ok") ELSE @
              EXCEPT !.text = ByUser]]
    /\ userText' = [userText EXCEPT ![e] = TRUE]
    /\ UNCHANGED <<cache, lastToken, job, req, entryLock, cacheLock, refreshed>>

\* ResetEnrichment, and the CompleteEnrichment that follows, which may find
\* another canonical URL.
StartEnrichment(e) ==
    /\ Unlocked(e) /\ row[e].enriched
    /\ Spend("move")
    /\ row' = [row EXCEPT ![e].enriched = FALSE]
    /\ UNCHANGED <<cache, lastToken, job, req, entryLock, cacheLock, refreshed, userText>>

CompleteEnrichment(e) ==
    /\ Unlocked(e) /\ ~row[e].enriched
    /\ \E u \in Urls : row' = [row EXCEPT ![e] = [@ EXCEPT !.enriched = TRUE, !.url = u]]
    /\ UNCHANGED <<cache, lastToken, job, req, entryLock, cacheLock, refreshed, userText,
                   used>>

-----------------------------------------------------------------------------

Next ==
    \/ \E w \in Workers : ClaimJob(w) \/ LookUpCache(w) \/ ProviderAnswers(w)
                          \/ FinishJob(w) \/ CommitSummary(w)
    \/ \E p \in Procs : UpdateEntry(p) \/ TouchCache(p) \/ Abort(p)
    \/ \E u \in Users : BeginReset(u) \/ CommitReset(u)
    \/ \E e \in Entries : LeaseLapses(e) \/ EditSummary(e) \/ StartEnrichment(e)
                          \/ CompleteEnrichment(e)

Spec == Init /\ [][Next]_vars

-----------------------------------------------------------------------------
(* Properties                                                              *)

Rows == [status : Statuses, token : Nat, live : BOOLEAN, force : BOOLEAN, text : Int,
         url : Urls, enriched : BOOLEAN]

ClaimStages == {"claimed", "asking", "saving", "saving cached", "saved first", "committing",
                "committing cached", "releasing"}

Claims == [stage : ClaimStages,
           entry : Entries, token : Nat, url : Urls, force : BOOLEAN, text : Int]

Requests == [stage : {"resetting", "reset first", "committing reset"}, entry : Entries]

DataTypeOK ==
    /\ row \in [Entries -> Rows]
    /\ cache \in [Urls -> Int]
    /\ lastToken \in Nat
    /\ refreshed \in [Entries -> Nat]
    /\ userText \in [Entries -> BOOLEAN]

ProcTypeOK ==
    /\ job \in [Workers -> Claims \cup {Idle}]
    /\ req \in [Users -> Requests \cup {Idle}]
    /\ entryLock \in [Entries -> Procs \cup {Nobody}]
    /\ cacheLock \in [Urls -> Procs \cup {Nobody}]

\* The type of the database's part of the state, and of the processes.
TypeOK == DataTypeOK /\ ProcTypeOK

\* docs/worker-rollout.md: a successful fresh result clears the flag atomically
\* with the saved summary and the cache.  The flag goes down only together with a
\* text that was asked for after the last refresh, and that text is cached.
FlagClearedByFreshText ==
    [][\A e \in Entries : row[e].force /\ ~row'[e].force =>
          /\ row'[e].text > refreshed[e]
          /\ \E u \in Urls : cache'[u] = row'[e].text]_vars

\* A refreshed entry never shows a text that is older than the refresh, cached or
\* late, once its summary is ok again; a user's own edit may take its place.
RefreshShowsFreshText ==
    \A e \in Entries :
        refreshed[e] > 0 /\ row[e].status = "ok" =>
            row[e].text = ByUser \/ row[e].text > refreshed[e]

\* A text the user has written is replaced only after the user asks for a refresh
\* again: every job that was queued or running at the edit is superseded.
UserTextWaitsForRefresh ==
    \A e \in Entries : userText[e] => row[e].text = ByUser

\* Losing ownership writes neither: a text enters the cache in the same step in
\* which the entry it was made for shows it.
CacheFollowsEntry ==
    [][\A u \in Urls : cache'[u] # cache[u] /\ cache'[u] # NoText =>
          \E e \in Entries : row'[e].text = cache'[u] /\ row'[e].status = "ok"]_vars

\* p waits for a row lock that q holds.
WaitsFor(p, q) ==
    \/ AtStatement(p, "entry") /\ entryLock[Action(p).entry] = q
    \/ AtStatement(p, "cache") /\ CacheBusy(p) /\ cacheLock[CacheUrl(p)] = q

\* The lock order (entry first, cache second) keeps the two kinds of transaction
\* from waiting for each other in a circle.
NoLockCycle ==
    \A S \in (SUBSET Procs) \ {{}} : \E p \in S : \A q \in S : ~WaitsFor(p, q)

=============================================================================
