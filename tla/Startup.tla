------------------------------ MODULE Startup -------------------------------
(***************************************************************************)
(* run() in cmd/learnd/main.go on several replicas: connect, migrate under *)
(* PostgreSQL's session lock, start the worker, serve, stop.  A process may *)
(* fail, be told to stop or die at any point.  The lock belongs to the     *)
(* database session, which may outlive the process that opened it.         *)
(***************************************************************************)
EXTENDS Integers, Sequences

CONSTANTS
    Replicas,
    Versions,       \* the number of bundled migrations
    Connect,        \* deadline of pgxpool.New and Ping
    Total,          \* startupTimeouts.total
    LockWait,       \* startupTimeouts.lock
    Unlock,         \* startupTimeouts.unlock
    StartPeriod,    \* the healthcheck's start period
    MaxStarts       \* bound: how often processes are started in all

ASSUME BudgetOK ==
    /\ Versions \in Nat /\ MaxStarts \in Nat
    /\ Connect \in Nat /\ Total \in Nat /\ LockWait \in Nat /\ Unlock \in Nat
    /\ StartPeriod \in Nat
    /\ Connect + Total + Unlock < StartPeriod

VARIABLES
    stage,      \* stage[r]: where run() is
    time,       \* time[r], while booting: its age, the deadlines of Apply and of this stage
    next,       \* next[r], while applying: the version that goose applies next
    holds,      \* holds[r]: what is open or running
    lock,       \* the replica whose session has the advisory lock, Free or Orphan
    orphan,     \* a version that a dead session may still commit, or 0
    log,        \* goose_db_version: the versions in the order they were applied
    starts

bootVars == <<stage, time, next, holds, lock, orphan, log, starts>>
dbVars   == <<lock, orphan, log>>

Free   == "free"
Orphan == "orphan"

ASSUME NamesOK == Free \notin Replicas /\ Orphan \notin Replicas

Booting == {"connecting", "listing", "locking", "applying", "unlocking", "abandoning", "checking"}
Stages  == Booting \cup {"down", "starting", "serving", "draining", "leaving"}

Parts == {"pool", "worker", "listener", "requests", "metrics"}
NoClock == [age |-> 0, due |-> 0, limit |-> 0]

BootInit ==
    /\ stage = [r \in Replicas |-> "down"]
    /\ time = [r \in Replicas |-> NoClock]
    /\ next = [r \in Replicas |-> 0]
    /\ holds = [r \in Replicas |-> {}]
    /\ lock = Free /\ orphan = 0
    /\ log = <<>>
    /\ starts = 0

To(r, s)      == stage' = [stage EXCEPT ![r] = s]
Until(r, t)   == time' = [time EXCEPT ![r].limit = t]
Opens(r, what)  == holds' = [holds EXCEPT ![r] = @ \cup what]
Closes(r, what) == holds' = [holds EXCEPT ![r] = @ \ what]
Age(r) == time[r].age

\* run() leaves Apply behind: for the better or with an error.
Leave(r, s) == To(r, s) /\ time' = [time EXCEPT ![r] = NoClock]

StartProcess(r) ==
    /\ stage[r] = "down" /\ starts < MaxStarts
    /\ starts' = starts + 1
    /\ To(r, "connecting")
    /\ time' = [time EXCEPT ![r] = [age |-> 0, due |-> 0, limit |-> Connect]]
    /\ UNCHANGED <<next, holds, dbVars>>

\* Apply has one deadline for everything that it does under ctx.
Connected(r) ==
    /\ stage[r] = "connecting"
    /\ To(r, "listing")
    /\ Opens(r, {"pool"})
    /\ time' = [time EXCEPT ![r] = [age |-> Age(r), due |-> Age(r) + Total,
                                    limit |-> Age(r) + Total]]
    /\ UNCHANGED <<next, dbVars, starts>>

\* SessionLock: the smaller of what is left of the total and the lock's own budget.
LockLimit(r) ==
    IF Age(r) + LockWait < time[r].due THEN Age(r) + LockWait ELSE time[r].due

\* Up asks without the lock whether anything is pending.
FindsPending(r) ==
    /\ stage[r] = "listing"
    /\ IF Len(log) < Versions
       THEN To(r, "locking") /\ Until(r, LockLimit(r))
       ELSE To(r, "checking") /\ UNCHANGED time
    /\ UNCHANGED <<next, holds, dbVars, starts>>

\* Mutant of LockSession: it does not exclude anybody.
TakeSharedLock(r) ==
    /\ stage[r] = "locking"
    /\ lock' = r
    /\ next' = [next EXCEPT ![r] = Len(log) + 1]
    /\ To(r, "applying") /\ Until(r, time[r].due)
    /\ UNCHANGED <<holds, orphan, log, starts>>

\* Under the lock goose lists the versions again.
LockSession(r) ==
    /\ stage[r] = "locking"
    /\ lock = Free
    /\ lock' = r
    /\ next' = [next EXCEPT ![r] = Len(log) + 1]
    /\ To(r, "applying") /\ Until(r, time[r].due)
    /\ UNCHANGED <<holds, orphan, log, starts>>

\* A migration and its line in goose_db_version, in one transaction.
ApplyVersion(r) ==
    /\ stage[r] = "applying" /\ next[r] <= Versions
    /\ log' = Append(log, next[r])
    /\ next' = [next EXCEPT ![r] = @ + 1]
    /\ UNCHANGED <<stage, time, holds, lock, orphan, starts>>

\* Mutant of UnlockLimit: goose's own retries, for a minute.
UnlockLimitDefault(r) == Age(r) + Total

\* The unlock runs detached from ctx, under a deadline of its own.
UnlockLimit(r) == Age(r) + Unlock

UpSucceeds(r) ==
    /\ stage[r] = "applying" /\ next[r] > Versions
    /\ To(r, "unlocking") /\ Until(r, UnlockLimit(r))
    /\ next' = [next EXCEPT ![r] = 0]
    /\ UNCHANGED <<holds, dbVars, starts>>

\* A session that breaks keeps the lock until PostgreSQL notices; a COMMIT that was on
\* its way may yet be done, and a lock that was asked for may yet be granted.
SessionBreaks(r) ==
    /\ lock' \in IF lock = r THEN {Orphan}
                 ELSE IF lock = Free /\ stage[r] = "locking" THEN {Free, Orphan}
                 ELSE {lock}
    /\ orphan' \in IF stage[r] = "applying" /\ next[r] <= Versions
                   THEN {0, next[r]} ELSE {orphan}
    /\ UNCHANGED log

UpFails(r) ==
    /\ stage[r] = "applying"
    /\ To(r, "abandoning") /\ Until(r, UnlockLimit(r))
    /\ UNCHANGED dbVars \/ SessionBreaks(r)
    /\ next' = [next EXCEPT ![r] = 0]
    /\ UNCHANGED <<holds, starts>>

\* The deferred check of ctx.Err() fails an Apply that took too long, whatever it did.
Unlocked(r) ==
    /\ stage[r] \in {"unlocking", "abandoning"}
    /\ lock' = IF lock = r THEN Free ELSE lock
    /\ IF stage[r] = "unlocking" /\ Age(r) <= time[r].due
       THEN To(r, "checking") /\ Until(r, time[r].due)
       ELSE Leave(r, "leaving")
    /\ UNCHANGED <<next, holds, orphan, log, starts>>

UnlockFails(r) ==
    /\ stage[r] \in {"unlocking", "abandoning"}
    /\ Leave(r, "leaving")
    /\ SessionBreaks(r)
    /\ UNCHANGED <<next, holds, starts>>

\* Mutant of BootFails: the error is logged and start-up goes on.
BootFailsOpen(r) ==
    /\ stage[r] \in {"connecting", "listing", "locking", "checking"}
    /\ Leave(r, "starting")
    /\ Opens(r, {"worker"})
    /\ UNCHANGED <<next, dbVars, starts>>

\* A query fails, its deadline passes, or SIGTERM cancels ctx.
BootFails(r) ==
    /\ stage[r] \in {"connecting", "listing", "locking", "checking"}
    /\ Leave(r, "leaving")
    /\ UNCHANGED dbVars \/ SessionBreaks(r)
    /\ UNCHANGED <<next, holds, starts>>

\* GetVersions has answered, so Apply returns; the worker starts.
Migrated(r) ==
    /\ stage[r] = "checking"
    /\ Leave(r, "starting")
    /\ Opens(r, {"worker"})
    /\ UNCHANGED <<next, dbVars, starts>>

\* Without a metrics listener learnd serves all the same.
Listen(r) ==
    /\ stage[r] = "starting"
    /\ \E m \in {{}, {"metrics"}} : Opens(r, {"listener", "requests"} \cup m)
    /\ To(r, "serving")
    /\ UNCHANGED <<time, next, dbVars, starts>>

\* Mutant of ListenFails: the worker is not stopped.
ListenFailsHot(r) ==
    /\ stage[r] = "starting"
    /\ To(r, "leaving")
    /\ UNCHANGED <<time, next, holds, dbVars, starts>>

ListenFails(r) ==
    /\ stage[r] = "starting"
    /\ Closes(r, {"worker"})
    /\ To(r, "leaving")
    /\ UNCHANGED <<time, next, dbVars, starts>>

\* Serve has returned an error and has closed the listener; nobody waits for the
\* requests that are still being answered.
ServeFails(r) ==
    /\ stage[r] = "serving"
    /\ Closes(r, {"worker", "listener"})
    /\ To(r, "leaving")
    /\ UNCHANGED <<time, next, dbVars, starts>>

\* SIGTERM: the worker first, then the server.
StopWorker(r) ==
    /\ stage[r] = "serving"
    /\ Closes(r, {"worker"})
    /\ To(r, "draining")
    /\ UNCHANGED <<time, next, dbVars, starts>>

\* Shutdown closes the listener and waits for the requests, or gives up on them.
Drained(r) ==
    /\ stage[r] = "draining"
    /\ \E late \in {{}, {"requests"}} : Closes(r, {"listener", "requests"} \ late)
    /\ To(r, "leaving")
    /\ UNCHANGED <<time, next, dbVars, starts>>

\* The deferred calls, last one first.  Closing the pool waits for the connections in
\* use; then the process is gone, and its sessions with it.
CloseMetrics(r) ==
    /\ stage[r] = "leaving" /\ "metrics" \in holds[r]
    /\ Closes(r, {"metrics"})
    /\ UNCHANGED <<stage, time, next, dbVars, starts>>

ClosePool(r) ==
    /\ stage[r] = "leaving" /\ "metrics" \notin holds[r]
    /\ Closes(r, {"pool", "requests"})
    /\ To(r, "down")
    /\ UNCHANGED <<time, next, dbVars, starts>>

Crash(r) ==
    /\ stage[r] # "down"
    /\ Leave(r, "down")
    /\ next' = [next EXCEPT ![r] = 0]
    /\ holds' = [holds EXCEPT ![r] = {}]
    /\ SessionBreaks(r)
    /\ UNCHANGED starts

OrphanCommits ==
    /\ orphan # 0
    /\ log' = Append(log, orphan)
    /\ orphan' = 0
    /\ UNCHANGED <<stage, time, next, holds, lock, starts>>

\* PostgreSQL ends the session: it rolls back, and the lock is free.
OrphanEnds ==
    /\ lock = Orphan
    /\ lock' = Free /\ orphan' = 0
    /\ UNCHANGED <<stage, time, next, holds, log, starts>>

\* Time waits for whoever has reached a deadline.
BootTick ==
    /\ \A r \in Replicas : stage[r] \in Booting => Age(r) < time[r].limit
    /\ \E r \in Replicas : stage[r] \in Booting
    /\ time' = [r \in Replicas |->
                   IF stage[r] \in Booting THEN [time[r] EXCEPT !.age = @ + 1] ELSE time[r]]
    /\ UNCHANGED <<stage, next, holds, dbVars, starts>>

Boot(r) ==
    \/ StartProcess(r) \/ Connected(r) \/ FindsPending(r) \/ LockSession(r) \/ ApplyVersion(r)
    \/ UpSucceeds(r) \/ UpFails(r) \/ Unlocked(r) \/ UnlockFails(r) \/ BootFails(r) \/ Migrated(r)

Run(r) ==
    \/ Listen(r) \/ ListenFails(r) \/ ServeFails(r) \/ StopWorker(r) \/ Drained(r)
    \/ CloseMetrics(r) \/ ClosePool(r) \/ Crash(r)

BootNext ==
    \/ \E r \in Replicas : Boot(r) \/ Run(r)
    \/ OrphanCommits \/ OrphanEnds \/ BootTick

BootSpec == BootInit /\ [][BootNext]_bootVars

-----------------------------------------------------------------------------
(* Properties                                                              *)

\* Replicas that start at once, fail half-way and leave sessions behind apply each
\* migration once and in order.
MigratedOnceInOrder == \A i \in DOMAIN log : log[i] = i

\* Neither the worker nor the server meets a schema older than the binary.
SchemaBeforeWork ==
    \A r \in Replicas : holds[r] \cap {"worker", "listener"} # {} => Len(log) >= Versions

\* A process is up, or has given up, within the healthcheck's start period.
BootIsBounded ==
    \A r \in Replicas : stage[r] \in Booting => Age(r) < StartPeriod

\* However run() ends, the worker, the listener and the metrics collector are closed
\* before the pool that they use.
PoolOutlivesUsers ==
    \A r \in Replicas : "pool" \notin holds[r] => holds[r] = {}

(* The inductive invariant.  Whoever applies has the lock and knows what   *)
(* comes next; so does a dead session whose last COMMIT may yet be done.   *)
BootTypeOK ==
    /\ stage \in [Replicas -> Stages]
    /\ next \in [Replicas -> Nat]
    /\ holds \in [Replicas -> SUBSET Parts]
    /\ lock \in Replicas \cup {Free, Orphan}
    /\ orphan \in Nat
    /\ log \in Seq(Nat)
    /\ starts \in Nat

OneApplies ==
    /\ \A r \in Replicas : stage[r] = "applying" => lock = r /\ next[r] = Len(log) + 1
    /\ orphan # 0 => lock = Orphan /\ orphan = Len(log) + 1

UpToDate == {"unlocking", "checking", "starting", "serving", "draining"}

MigratedByThen == \A r \in Replicas : stage[r] \in UpToDate => Len(log) >= Versions

\* What a replica may hold at each stage.
MayHold(s) ==
    CASE s \in {"down", "connecting"}       -> {{}}
      [] s \in Booting \ {"connecting"}     -> {{"pool"}}
      [] s = "starting"                     -> {{"pool", "worker"}}
      [] s = "serving"                      -> {h \in SUBSET Parts : "pool" \in h}
      [] s = "draining"                     -> {h \in SUBSET Parts : "pool" \in h /\ "worker" \notin h}
      [] s = "leaving"                      -> {{}} \cup {h \in SUBSET {"pool", "requests", "metrics"} : "pool" \in h}

HoldsByStage == \A r \in Replicas : holds[r] \in MayHold(stage[r])

BootInv == BootTypeOK /\ OneApplies /\ MigratedByThen /\ HoldsByStage /\ MigratedOnceInOrder

\* Every deadline is set within the budget of its stage, and time respects it.
Budget(s) ==
    CASE s = "connecting" -> Connect
      [] s \in {"listing", "locking", "applying", "checking"} -> Connect + Total
      [] s \in {"unlocking", "abandoning"} -> Connect + Total + Unlock

Clock == [age : Nat, due : Nat, limit : Nat]

OnTime(c, s) ==
    /\ c.age <= c.limit /\ c.limit <= Budget(s)
    /\ s # "connecting" => c.due <= Connect + Total
    /\ s \in {"listing", "locking", "applying", "checking"} => c.limit <= c.due

WithinBudget ==
    /\ time \in [Replicas -> Clock]
    /\ \A r \in Replicas : stage[r] \in Booting => OnTime(time[r], stage[r])
=============================================================================
