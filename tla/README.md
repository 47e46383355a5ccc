# A specification of learnd

learnd is a learning log: a user captures links, a background worker enriches
each entry (title, type, runtime) and has it summarised, and a dashboard, a
report and a CSV export read the entries back. Several replicas share one
PostgreSQL database, and nearly all coordination between them happens in SQL
statements. This directory holds TLA+ models of that program, TLC runs that
check them on small instances, and theorems that TLAPS proves for all of them.

Source paths below are relative to `src/`; the full correspondence, definition
by definition, is the `map` of `PROJECT.json`.

    tlasany M.tla                        parse a module
    tlc -workers 2 -config X.cfg M       model-check a run listed in PROJECT.json
    tlapm MProofs.tla                    check the proofs of a module

## The system

| Component | State | Operations | Talks to |
| --- | --- | --- | --- |
| Background worker (`internal/worker`) | two loops per replica, the claim in hand, the cancel function | tick, claim, call, save, release, stop | job table, enrichers, summarizer, cache, metrics |
| Job table (`internal/repository/jobs.go`) | status, token, lease of each kind of job, force flag | `ClaimJob`, `FinishJob`, `CompleteEnrichment`, `CompleteSummary`, `ResetSummary` | PostgreSQL |
| Entry repository (`internal/repository/entry.go`) | the `entries` table | create, update, delete, reset, list, count, aggregate | PostgreSQL |
| Summary cache (`internal/repository/summary_cache.go`) | a summary per canonical URL | look up, upsert, delete | PostgreSQL |
| Entry handlers (`internal/handler/entry.go`) | none; the page that asked, in `HX-Current-URL` | create with duplicate check, edit, delete, refresh, status poll | entry repository, job table, the tab |
| Dashboard (`internal/handler/capture.go`) | none; page number and filter in the URL | count, list, page links | entry repository |
| Reports and export (`internal/handler/report.go`) | none; a cursor during an export | five aggregates, keyset paging, calendar ranges | entry repository |
| Readiness probe (`internal/handler/ready.go`) | mutex, last verdict and its time | probe | PostgreSQL |
| Row polling (`internal/ui/partials/entry_row.templ`) | the row in the browser | poll while `needsPolling` | entry handlers |
| Startup and migrations (`cmd/learnd`, `internal/migrate`) | `goose_db_version`, the session lock, what the process has open | connect, migrate, start worker, serve, stop | PostgreSQL, worker, server, metrics |
| Enrichers, network guard (`internal/enricher`, `internal/netguard`) | the result so far | pick an enricher, check, dial, follow redirects, read the page | the network |
| Summarizer (`internal/summarizer`) | none | prompt, parse the answer | Gemini |
| URL normalisation (`internal/urlutil`) | none | validate, normalise | forms, entry repository |
| Authentication, middleware, server (`internal/handler/auth.go`, `internal/middleware`, `internal/server`) | a token per replica; the cookie of the browser | log in and out, let in, redirect, clear a stale cookie | all tabs of a browser |
| Metrics (`internal/metrics`) | counters | count, serve | worker, pool |
| Configuration (`internal/config`) | read once | load, validate | - |
| Rollout procedure (`docs/worker-rollout.md`) | the operator's list of IDs | stop, release, requeue | job table |

What is hard about it:

- **Claims across replicas.** A row is taken in one statement under a fresh
  UUID and a five-minute lease; no lock is held while the provider works. A
  claim may expire, be revoked by a refresh, an edit or a delete, or be taken
  over, at any point before its result arrives.
- **Ambiguous writes.** A save has a five-second deadline. When it passes, the
  statement may have run, may still run, or may never run.
- **Shutdown.** One context is cancelled under both loops in whatever stage
  they are; some of what they do next runs under that context, some under one
  of its own.
- **Three statements that share two rows.** Save, refresh and cache touch an
  entry and a cache row that another entry may share.
- **Edits while a job runs.** A result must fill blanks and never overwrite.
- **Lists that move.** Exports and dashboard pages are read by several queries
  while rows come, go, and carry equal timestamps.
- **A mutex across a ping** of a database that may hang.
- **Replicas that start at once** under a lock that belongs to a database
  session, which may outlive its process, with one deadline around three others.
- **A page that moves on.** Rows are polled, retried and deleted by requests
  whose answers may come after the tab has gone to another filter; all tabs share
  a cookie that any answer may set or clear.
- **Days without a midnight**, and reports put together from five queries.

### What makes each component correct

| Component | Correctness |
| --- | --- |
| Worker and job table | one owner per job; no result of a lost claim is written; results land in claim order; nothing is dropped or stranded; settled work waits for the user; the counter agrees with the rows; a lease outlives its holder |
| Summary and cache | a refresh ends in text generated after it; user text is not overwritten; entry and cache change together; no cycle of locks |
| Enrichment fields | filled fields and edits are kept, blanks are filled, the source type only leaves its default |
| Export | complete, without repeats, bounded |
| Dashboard | every page link leads to rows; a walk through the pages shows everything that stayed |
| Entry handlers | a link is stored twice only on request or by a race; a row disappears only for a reason; its edit link leads back |
| Readiness | bounded waiting; both answers recent |
| Startup | each migration once and in order; nothing runs before the schema is there or after the pool is closed; bounded |
| Reports | ranges are local dates; the parts agree; the chart is complete |
| URLs | one key for all spellings of a page, and no other page's where the code tells them apart (see `KeyIsThePage`); a stored link survives being shared |
| Enrichers | the best tag wins in any order; a duration is found if there is one; a page keys only its own site's summary |
| Authentication | a change of the token costs each tab a login and does not go on for ever |

## The modules

| Module | Models | Written for |
| --- | --- | --- |
| `JobContract` | what the job table promises: a job is queued, held by one token, or settled | refinement by `JobLease` |
| `JobLease` | `worker.go`, the lease columns of `jobs.go`, and every handler that writes them | ownership, loss, liveness |
| `JobLeaseProofs` | theorems about `JobLease` | |
| `JobLeaseRefinement` | the proof that `JobLease` implements `JobContract` | |
| `SummaryRefresh`, `SummaryRefreshProofs` | `CompleteSummary` and `ResetSummary` statement by statement with row locks, the cache, the force flag | freshness, deadlock |
| `EnrichmentMerge` | the field-by-field merge of `CompleteEnrichment` with `Update` | edits |
| `LeaseTiming` | the deadlines of one job against its lease, in time units | no overlap |
| `WorkersProofs` | theorems about `LeaseTiming` and `EnrichmentMerge` | |
| `Readiness` | `dbReady` | waiting, stale verdicts |
| `Startup` | `run()` and `migrate.Apply` on several replicas | migrations, deadlines, order of closing |
| `ReplicaProofs` | theorems about `Readiness` and `Startup` | |
| `EntryRows` | rows as a list query sees them: late commits, equal stamps | shared by the two below |
| `CsvExport` | `ExportCSV` over `ListCreatedBetween` | repeats, gaps |
| `Dashboard`, `DashboardProofs` | `CapturePage` over `CountFiltered` and `List` | moving pages |
| `Report` | `GetReport` with its calendar and its queries | zones, consistency |
| `Capture` | `Create`: duplicate check and insert | overlapping captures |
| `EntryHandlers` | `Status`, `RefreshEnrichment`, `Delete` and the rows of a tab | late answers |
| `Urls` | package `urlutil`, `sharedPrefillURL`, `SafeLinkURL` | keys of links |
| `Enrichers` | package `enricher` | redirects, order of elements |
| `Access` | login, logout, the cookie, both middlewares | tabs and replicas with different tokens |
| `RequestsProofs` | theorems about `CsvExport`, `Capture`, `EntryHandlers` and `Access` | |
| `ComputationProofs` | theorems about `Urls`, `Enrichers` and `Report` | |
| `Maps` | a table with a row more | shared by `Capture`, `EntryHandlers` and `Report` |
| `MC...` | what TLC runs: bounds, symmetry, and which parts a run looks at | |

`JobLease`, `SummaryRefresh`, `EnrichmentMerge` and `LeaseTiming` look at the
same claims at four resolutions. Each keeps the claim step and the guard of the
final write and adds what its properties need; none hides what another shows.

Parts that share no state are checked in one run without multiplying their
states: `MCWorkers`, `MCReplica`, `MCLists` and `MCRequests` have a variable
`part`, chosen at the start, and a behaviour takes steps of that part only while
the others rest in an initial state.

### JobLease

`job[<<kind, entry>>]` is the three columns of a job. A lease is `null`, `live`
or `expired` instead of a time; `LeaseLapses` may expire it at any moment, so no
property here rests on the five minutes. Tokens are numbers drawn in order,
which stands for UUIDs that never repeat and lets "younger" be said.

A loop is `<<replica, kind>>`; `pc` is where `process` and its callees are:

| `pc` | code |
| --- | --- |
| `idle` | before `ClaimJob`, in `process` or at the ticker |
| `running` | the provider call, or the cache lookup, in `enrich` / `summarize` |
| `saving` | `CompleteEnrichment`, `CompleteSummary`, or the `FinishJob` of a skip |
| `erred` | an error is on its way to `finishError`, which has not read `parent.Err()` |
| `releasing` | the `FinishJob` of `finishError` |
| `done` | `runLoop` has returned |

`inflight` holds statements whose caller has given up: `WriteFails` and `Crash`
put them there, `LateWrite` runs them or forgets them. `SKIP LOCKED` is the
choice of a set of locked rows to pass over. The handlers are `CreateEntry`,
`DeleteEntry`, `ResetEnrichment`, `ResetSummary` and `SupersedeSummary` (an
`Update` whose summary text differs while a summary job is queued or running).
Rows may start as a build without leases leaves them: processing, no lease.

`Scenarios` bounds how often the events may have happened together: `fault` (a
lost answer or failed statement), `crash`, `stop`, `lapse` (a lease that expires
under a loop at work), `reset`, `edit`, `delete`. The MC module builds it from
a bound per event and a `Budget` for all of them, so a run covers every mix and
order of a few events. `SummaryRefresh` is bounded in the same way. Creating
entries is bounded by `MaxEntries`.

### SummaryRefresh

Here a transaction is a sequence of statements and `lock` says who holds which row.
`CompleteSummary` locks the entry and then the cache row; `ResetSummary` does the
same; a claim and an edit are single statements. A text is named by the token of the
claim whose provider call made it, so "fresh" means asked by a claim that came after
the last refresh. Two entries may share a URL, and `StartEnrichment` /
`CompleteEnrichment` may move an entry to another canonical URL while a summary
claimed under the old one runs. A lost call may take effect or not.

### EnrichmentMerge

One entry with its title, description and source type. A value stands for where
it came from: `page`, `user`, or blank (NULL, the empty string, the type
`other`). A claim carries the values it saw; `Merge` is the CASE expression that
the three columns share. Every combination of form fields is an edit.

### LeaseTiming

Time in units of five seconds. A claim's lease runs from the database's clock;
the worker learns of it up to `Latency` later, has `Provider` for the call,
`Save` for the final write and, after a shutdown, `Cleanup` for the release. A
statement runs at any time until its deadline. `ASSUME LeaseOK` states the
budget that the code's numbers meet: 33 units of latency (165 s) + 24 + 1 + 1
units stay below 60. There is no refresh here: it is meant to start the work
again.

### Readiness

Time in half seconds. `TakeLock` is `mu.Lock()` and what follows up to the ping;
`PingEnds` is the rest. The database is up, refusing or hung, and changes at any
time. `Tick` cannot pass the deadline of a ping nor leave a free mutex unused,
which is what a running Go scheduler and a context deadline give.

### EntryRows, CsvExport, Dashboard

A row is stamped when its INSERT starts and visible when it commits, so rows
appear behind younger ones. `IsPage` is ORDER BY with LIMIT without fixing the
order of ties. In `CsvExport` the order is (created_at, id), hence total; in
`Dashboard` it is created_at alone, and OFFSET is the choice of any rows that
some order puts first. `Dashboard` keeps the two queries of `CapturePage` apart
and lets the reader open any page number and follow Next.

### Startup

`stage[r]` is where `run()` is on replica `r`:

| `stage` | code |
| --- | --- |
| `connecting` | `pgxpool.New` and `Ping` under the connection deadline |
| `listing` | `Up` asks for the versions without the lock |
| `locking` | `SessionLock`, with what is left of the total or its own budget |
| `applying` | the migrations `next[r]`, `next[r] + 1`, ... one transaction each |
| `unlocking`, `abandoning` | `SessionUnlock` after a success, after an error |
| `checking` | `GetVersions`, after which `Apply` returns |
| `starting`, `serving`, `draining` | the worker runs; the listener is opened, serves, is shut down |
| `leaving` | the deferred calls |

`log` is `goose_db_version`. The advisory lock belongs to a session: when the
process dies or its connection breaks, the lock becomes `Orphan` until PostgreSQL
notices, and a COMMIT that was on its way (`orphan`) may still be done. Time is
counted while a process boots; `BootTick` cannot pass a deadline, which is what
contexts give. A replica that is ready to migrate again after a failure is a new
process.

### Capture, EntryHandlers

Both take a handler apart into its queries, with anything in between. In
`EntryHandlers` one tab is on a filter and holds rows; `call[c]` is a request of
its own with `from`, the page that asked (`HX-Current-URL`). When the tab goes
elsewhere `from` becomes `Nowhere`: the answer is not heard, but what the handler
has still to change it changes. A poll whose answer has an empty body takes the
row away. `missing` remembers whether there was a moment during the call at which
the row did not belong on the page. A UUID that is deleted and inserted again
stands for a new one.

### Report

A zone is an offset that changes once. `GoMidnight` does what `time.Date` does:
it looks the offset up at the local time taken for UTC, and once more when that
leaves the period; `startOfDay` then goes on by the hour. Each query sees the rows
of its moment; one change of any kind may come between two of them. A sum that
does not fit into an int of PostgreSQL is an error of the query.

### Urls, Enrichers

A URL is a record of the parts that `url.Parse` tells apart, and a page is the
sequence of the elements that its enricher reads. What a query parameter, a title or a
duration says is one of a few values, and a pair of a query is readable or not:
`url.ParseQuery` drops one with a semicolon or a malformed %-escape. Each function is
an operator, and the actions are the calls that chain them: share, type, save, share
the saved link again; choose, check, dial, redirect, receive, read element by element.
Names may resolve to another address at every look-up, so that the check of a URL and
the check of the dialled address are two steps. The search for a duration returns a
set: what any order of Go's maps may find.

### Access

Tabs send requests with the cookie that the browser has at that moment; a replica
compares it with its own token; the answer says something of the cookie or not,
and the browser applies that when it arrives. `Rollout` gives the replicas the
next token one after the other. Tokens are numbers.

## The runs

All runs but `jobs_liveness` use `[][Next]_vars` without fairness. They check no
deadlock because the bounds on events end every behaviour; the program itself
stops only at a shutdown, which is modelled.

| Run | Bounds | Shows |
| --- | --- | --- |
| `jobs_events` | 2 replicas, 1 entry; any 3 of 1 fault, crash, stop, lapse, reset, edit, delete | ownership, no claim left leased, no stale write, settled work stays, the counter, refinement of `JobContract` |
| `jobs_users` | 2 replicas, 1 entry + 1 created; 1 reset, edit and delete | claim order |
| `jobs_liveness` | 1 fault, 1 crash, 1 stop; only one replica summarises | every queued job settles |
| `jobs_polling` | 1 reset | **violated**: a quiet row changes (finding) |
| `summary_refresh` | 2 entries, 2 URLs, 2 workers, 2 refreshing users; any 3 of 2 resets, 1 edit, 1 lost call, 1 move of URL | freshness, user text, locks, cache |
| `workers` | merging: 2 workers, 2 edits, 1 reset, 1 lapse; timing: 2 loops, 130 units (two leases) | the merge rules; a lease outlives its holder |
| `merge_aba` | 2 edits | **violated**: set and cleared again (finding) |
| `merge_untitled` | no edits | **violated**: empty is not NULL (finding) |
| `replica` | probing: 3 probes, ping 4, TTL 2, horizon 8 half seconds; booting: 2 replicas, 2 migrations, 5 starts, deadlines 1, 6, 3, 1 within 9 | recency of both answers; migrations, schema first, bounded start, order of closing |
| `lists` | dashboard: 4 rows, pages of 2, 4 stamps, links up to page 3; report: 2 rows, days of 4 hours, 6 zones, weeks of 2 days, months of 3, a chart of 1 week, 1 change | pages and walks; local dates, parts that agree, a complete chart |
| `requests` | export: 4 rows, pages of 2, 3 stamps, a range of 2; 2 captures of 3 spellings of 2 links; 2 calls of a tab, 2 entries, 1 tag; links, pages and JSON as listed in `MCRequests`; 2 tabs, 2 replicas, 3 tokens | completeness, duplicates, rows and links of a tab, keys, shared texts, metadata, logins |
| `url_ipv6` | every kind of host with every kind of port | **violated**: an accepted IPv6 link cannot be stored (finding) |

Why these bounds are enough to be interesting: ownership is contested between the
holder, one other claim, and one statement left behind, so two replicas and one lost
answer produce every pair, and a third event revokes or ends either; two entries make
`ORDER BY` and `SKIP LOCKED` choose; a reset before, during and after a claim covers
the ways to lose it. Locks can wait in a circle among two transactions, and the second
entry with the same URL is what makes a cache row contested. An export needs ties on
both sides of a page break and a full last page: four rows in pages of two, with three
stamps of which one is out of range, give both. Three probes queue with one that pings
and two that wait. Two replicas with five starts meet at the session lock, one of them
twice and with the session of a dead process between them; two migrations make a
half-way failure possible. The zones skip or repeat a midnight or a whole day, on
either side of Greenwich, and the dates asked for lie around the change. Pages have up
to three elements out of eleven kinds, so that every order of two that compete is
there with a third between them. Two tabs with three tokens go through two rollouts.

Every property of a passing run has a mutant of the code under which TLC finds
it violated; the mutants stand beside the definitions they replace.

### Fairness

Only `jobs_liveness` uses fairness, all of it weak: each loop goes on (a ticker
every ten seconds, a context deadline on every call), a stopped process is
replaced (the deployment restarts replicas), an abandoned statement ends (the
server notices a closed connection or finishes), and a lease that nobody works
under runs out (the clock). Nothing is assumed about errors: `WriteFails`,
`CacheLookupFails` and failing providers are not part of it. A save that fails
every time, for instance a value that does not fit its column, is outside: faults
are bounded, and such a job is repeated after each lease for as long as it
fails.

### Findings

1. `jobs_polling`. `entry_row.templ` stops polling when the enrichment is not
   ok and justifies it by summaries that "stay pending indefinitely". A summary
   claimed before Refresh Enrichment is still alive: when the new enrichment
   fails first, the summary settles later and the row does not show it.
2. `merge_aba`. `CompleteEnrichment` promises to keep "any edit made while the
   job ran, including clearing a field". It compares values, so a field set and
   cleared again by two edits looks untouched and is filled.
3. `merge_untitled`. The README documents `skipped` for "a summary with nothing
   to summarize". After an enrichment without title and description both are
   empty strings, and `summarize` looks for NULL.
4. `url_ipv6`. `ValidateSourceURL` promises to canonicalise a link "before
   storage". For an IPv6 host with a port of its own it returns a URL with two
   pairs of brackets, which `Create` then rejects as invalid.

Observations that contradict no stated promise: a row that slips in between the count
and the list can push the oldest row off the last page, which then has no Next link
(`WalkShowsAll` excludes exactly this case, ties, and rows that leave); an export cut
by a failing query cannot be told from a complete one; the row of an entry that
another tab has deleted keeps polling, for htmx does not swap a 404 in; requests that
are being answered when `Serve` fails are not waited for; a login that follows a poll
or a form leads back to a bare fragment or a 405, and a wrong key forgets where to go
back to; `classifySourceType` is never given an `og:type`; `/a%2Fb` and `/a/b` have
one key, while `/a` and `/a?` have two; the parts of a report may disagree when rows
change between its queries, which `PartsAgree` and `ChartIsComplete` exclude; in zones
east of Greenwich that repeat a midnight, which none has done since 2021, `startOfDay`
returns the second one.

One more disagreement has no run of its own, as `KeyIsThePage` leaves it out openly: a
test calls `NormalizeURL` one that "preserves meaningful query params"
(`normalize_test.go:19`), but `parsed.Query()` drops pairs with a semicolon or a
malformed escape, and its error with them, so that `?p=x;h=1` and `?p=x;h=2` have one
key.

## The theorems

Everything below holds for all values of the constants that satisfy the named
assumptions, which TLC also evaluates in the runs.

**Jobs**: `JobLeaseProofs` (assumes `ConstantsOK`). `IInv` strengthens the types by
four facts: a loop at work has a claim under a token that no other loop has
(`LoopsHaveClaims`); abandoned statements carry drawn tokens
(`StatementsHaveTokens`); the token on a row is younger than everything that wrote
to it or was revoked from it (`RowsHaveYoungTokens`); only a processing row is
leased (`RowsAreConsistent`). Without the first, two loops could share a token;
without the third, the guard of a final write would not tell an old claim from the
current one. One lemma per action preserves it. From it follow

- `ExclusiveOwnership`: two loops never both pass the guard of a final write;
- `NoStaleWrite`: no claim writes once it was revoked, statements that run late
  included;
- `ClaimOrder`: results land in claim order, each at most once;
- `SettledStays`: settled jobs change only when a user asks;
- `CounterNeverAhead`: `learnd_jobs_total` never exceeds the recorded outcomes;
- `CounterIsComplete`: until an answer, a process or a replica is lost it is equal
  to them. As long as none of these events has been used no worker is stopping and
  no statement is abandoned (`NothingIsLeftToCount`), so each write has its
  increment. `CounterAgrees` is both;
- `NoClaimDropped`: without a lost answer or crash every live lease has a loop
  at work under it, at a shutdown too.

**JobLeaseRefinement**. `ImplementsContract`: with pending and processing both
"queued" and the token of a live lease as the holder, the initial states map to
initial states of `JobContract` and every step to one of its steps or a stutter.

**SummaryRefreshProofs** (assumes `ProcsOK`). `LockInv`: who has updated an entry
and not committed holds its lock, and a cache row is only taken by the last
statement before a commit. So along a chain of waits the second waits for a cache
row and the third for nobody: `NoDeadlock`. `TextInv` builds on it. While a
transaction is under way its row is the claim's (`ClaimsAreKnown`); a queued or
running job of an entry that was ever refreshed is forced and its token is younger
than the refresh (`QueuedJobsAreForced`). Without the first, a commit could fall on
a row that was reset after its claim was checked; without the second, an unforced
job could bring an old cached text back. From them follow `FreshText`,
`UserTextKept`, and, for the step that commits, `FlagCleared` and `CacheFollows`.

**Merging** (`WorkersProofs`; no assumption but the bounds). `MergeInv`: no two
claims share a token, and under the current claim a field that nobody has edited is
as it was captured, one that was edited once is not. The step that saves is then the
current claim's own, and the CASE expressions see what the edit has done: `EditKept`
and `BlankFilled`, for any number of loops and edits. That an edit changes what it
touches is what two edits do not (finding 2). `TypeInv` follows the values:
`TypeCorrect`.

**Timing** (`WorkersProofs`; assumes `TimesOK` and `LeaseOK`). Each stage hands the
next a part of what its lease still covers; hence `NobodyWorksTwice` and
`LeaseLongEnough` for all deadlines within the budget, and with no bound on time.

**Startup** (`ReplicaProofs`; assumes `BudgetOK`, `NamesOK`). `BootInv`: whoever
applies has the lock and knows which version comes next, and so does a dead session
whose last COMMIT may yet be done (`OneApplies`), so two versions 1 cannot be in the
making at once; past `applying` the log is complete (`MigratedByThen`), and it never
shrinks; what is open fits the stage (`HoldsByStage`). `WithinBudget`: every
deadline is set within the sum of the deadlines before it. From them follow
`OnceInOrder`, `SchemaFirst`, `PoolLast`, and `StartIsBounded` for all deadlines
that fit into the start period.

**Readiness** (`ReplicaProofs`; assumes `TimesOK`, `NobodyOK`). A probe that waits
came in after the ping in progress began, and one that finds the mutex free came in
this moment or finds a verdict of this moment: `ProbesAreBounded`. `ResultIsTrue`
says of the cached verdict that the database was up, or not up, when it was given, a
hung-up client included: together with the bounded wait, `ReadyIsTrue` and
`UnreadyIsTrue` for any number of probes and any TTL.

**Export** (`RequestsProofs`; assumes `RowsOK`, `IdsOK`). The cursor splits the
range into what is written, before it, and what is left of the rows that were always
there, after it: `NeverRepeats`, `NeverSkips`, `StaysBounded`, for any page size and
any ties.

**Captures** (`RequestsProofs`). A request that is about to insert has looked at
every entry that was there when it began, and a stored link never changes:
`DuplicatesOverlap`.

**Rows of a tab** (`RequestsProofs`). `HandlersInv`: a call that the tab still
listens to was made by the page that it shows, so the row in its answer is stamped
with that page; and a poll that takes a row away has `missing` set, a history that
begins with the call. Without the first an answer could bring the link of another
page (`RowsLeadBack`); without the second a row could go while it fitted all along
(`RowsAreMissing`).

**Logins** (`RequestsProofs`; assumes `AccessOK`). `LoginsLast` is not inductive:
how much may still be lost depends on what is under way. `LossIsPaidFor` adds to the
losses so far a price of every answer that brings an old token and of every visit
that will be told to delete its cookie: an old login that arrives first costs itself
and every tab that is free to visit with the old cookie, the next one fewer. Each
loss is paid by the request that causes it and no step raises the total, which
begins at n (n + 1) / 2 with n tabs: `LosingEnds`.

**Dashboard** (`DashboardProofs`; assumes `RowsOK`, `PageOK`). `WalkInv`: a total is
off by no more than the two races explain (`CountIsOld`), and a row that the walk
has yet to show has at least page * PageSize newer ones (`WalkGoesOn`), which
inserts only make more. The next page is the one behind them, so it shows the row or
puts PageSize more in front of it, and a row that has so many in front of it is not
on the last page: `WalkIsComplete`. `PagesStayFull` is an action property of the
same invariant.

**Links** (`ComputationProofs`; assumes `LinksOK`: given links are URLs as parsed,
and `TextsOK`: texts are spelled with the four kinds of characters).
`KeysAreFaithful`: storing the link first changes no part of its normalised form, and
each part of that is a function of what a page is told by. `SamePage` says what that
is without regard to the code. The code departs from it in three ways, which
`KeyIsThePage` leaves out one by one: a bare question mark at the end makes another
key of one page (`ForceQuery` is kept); a slash written %2F is made one like the
others (`RawPath` is cleared), so that two pages have one key; and pairs that
`url.ParseQuery` cannot read are dropped, so that links that differ in those have one
key, and the second is announced as a duplicate of the first. `AllPlaces` is what the
other pairs rest on: to select all pairs of a query is to keep it as it is.
`OnlyIPv6IsRefused`: finding 4 is about IPv6 hosts with a port of their own and no
other link. `LinksSurvive`: of a link with balanced brackets and a tail of any
length, the longest beginning that does not end in punctuation or in a bracket too
many is the link.

**Pages** (`ComputationProofs`; assumes `PagesOK`: a podcast page is a sequence of
elements and its JSON a tree). `FetchInv` says at each element what the elements
read so far have to say, so that `GraphTagsWin`, `DurationsAreFound` and
`KeysAreOnSite` hold for pages of any length. `DurationsAreThere` is an induction
over a tree of JSON of any depth, from its last node to the root.

**Reports** (`ComputationProofs`; assumes `CalendarOK`, `RequestOK`, `ZonesOK`).
`MidnightIsFound`: for every zone of `ZonesOK` and every date the two look-ups of
`time.Date` and the loop of `startOfDay` end at the instant from which on the local
date is that date or later. A week, a type or a tag is then a partition of the rows
between two such instants, and sums over a partition add up (`SumIs`, `KeysAddUp`,
`PartsAddUp`): `SpanIsLocal`, `TotalsAgree`, `ChartDropsNothing` for any entries,
zones and lengths of day, week and chart. `ZonesOK` leaves out clocks that are set
back into an earlier day or forward over a midnight from the middle of a day, which
have no one instant at which a date begins, and zones east of Greenwich that repeat
a midnight, for which the code is known to do otherwise (see the observations
above).

The induction theorems of the library take an operator as a parameter, which the
provers cannot instantiate. Where a sum, a walk over a tree or a loop needs
induction, the proof takes the least counterexample (`Least`) or shows a function
that satisfies the recursion and is therefore the one that it defines (`SumIs`,
`FindExists`).

### Only model-checked

Liveness (`EnrichmentSettles`, `SummarySettles`): fairness and ENABLED are out of
the prover's reach. Every invariant and every action property of the passing runs is
a theorem. The four runs that expect a violation are counterexamples and have
nothing to prove, but for the part of the fourth that does hold
(`OnlyIPv6IsRefused`).

## Not modelled

- Parsing and formatting: HTML, duration strings, video IDs, prompts, CSV cells,
  dates of the presets, form fields, templates, headers, logs.
- Configuration, which is read once, and the Bearer token of API clients, which
  is compared without any state.
- The rollout of worker leases (`docs/worker-rollout.md`): what an operator does by
  hand between this build and one that is not in the source. `JobLease` starts from
  the rows that such a build may leave behind.
- The rows that `Create` repaints out of band beside the new one, and `ListTags`.
- Clocks of Go and PostgreSQL are taken to run at the same speed. The row version
  of `updated_at` is never read by the code. `Store` of the summary cache has no
  caller.

## What could come next

A refinement of `EntryHandlers` to the queries that two tabs share; a model of the
previous build for the rollout procedure; the filters of the dashboard as a function
of the query string.
