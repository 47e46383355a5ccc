----------------------------- MODULE Readiness ------------------------------
(***************************************************************************)
(* GET /ready.  Probes from anywhere share one ping of the database: a     *)
(* mutex is held across the ping, and whoever gets it next reuses the      *)
(* result while it is younger than readyCacheTTL.                          *)
(***************************************************************************)
EXTENDS Integers

CONSTANTS
    Probes,     \* requests that may be under way at once
    Timeout,    \* readyTimeout
    TTL,        \* readyCacheTTL
    MaxTime     \* bound: the last moment looked at

ASSUME TimesOK == Timeout \in Nat /\ TTL \in Nat \ {0} /\ MaxTime \in Nat

VARIABLES
    now,        \* the time
    db,         \* the database: up, refusing, or hung
    checkedAt,  \* when the last ping ended, or Never
    dbOK,       \* its result, as the answer that a probe gets
    holder,     \* the probe that holds mu and pings, or Nobody
    started,    \* when that ping began
    probe,      \* probe[p]: idle, waiting, pinging, or the answer ready, unready
    since,      \* since[p]: when probe p came in, 0 once it is answered
    gone,       \* active probes whose client has hung up
    lastUp,     \* history: the last moment at which db was up, while it is not
    lastDown    \* history: the last moment at which it was not, while it is

vars == <<now, db, checkedAt, dbOK, holder, started, probe, since, gone, lastUp, lastDown>>

Nobody == "nobody"
Never  == -1

ASSUME NobodyOK == Nobody \notin Probes

Active == {"waiting", "pinging"}

Init ==
    /\ now = 0
    /\ db \in {"up", "refusing", "hung"}
    /\ checkedAt = Never
    /\ dbOK = "unready"
    /\ holder = Nobody
    /\ started = 0
    /\ probe = [p \in Probes |-> "idle"]
    /\ since = [p \in Probes |-> 0]
    /\ gone = {}
    /\ lastUp = Never /\ lastDown = Never

Verdicts == {"ready", "unready"}

Outcome == IF db = "up" THEN "ready" ELSE "unready"

Arrive(p) ==
    /\ probe[p] \notin Active
    /\ probe' = [probe EXCEPT ![p] = "waiting"]
    /\ since' = [since EXCEPT ![p] = now]
    /\ UNCHANGED <<now, db, checkedAt, dbOK, holder, started, gone, lastUp, lastDown>>

\* Mutant of Fresh: a result never gets old.
FreshForever == checkedAt # Never

Fresh == checkedAt # Never /\ now - checkedAt < TTL

\* mu.Lock() in dbReady, and what follows it up to the ping.
TakeLock(p) ==
    /\ probe[p] = "waiting" /\ holder = Nobody
    /\ IF Fresh
       THEN /\ probe' = [probe EXCEPT ![p] = dbOK]
            /\ since' = [since EXCEPT ![p] = 0]
            /\ gone' = gone \ {p}
            /\ UNCHANGED <<holder, started>>
       ELSE /\ probe' = [probe EXCEPT ![p] = "pinging"]
            /\ holder' = p
            /\ started' = now
            /\ UNCHANGED <<since, gone>>
    /\ UNCHANGED <<now, db, checkedAt, dbOK, lastUp, lastDown>>

\* The ping ends with a result that is shared by everyone who waits.
Result(p, verdict, at) ==
    /\ probe[p] = "pinging"
    /\ checkedAt' = at
    /\ dbOK' = verdict
    /\ holder' = Nobody
    /\ probe' = [probe EXCEPT ![p] = verdict]
    /\ since' = [since EXCEPT ![p] = 0]
    /\ gone' = gone \ {p}
    /\ UNCHANGED <<now, db, started, lastUp, lastDown>>

\* Mutant of PingEnds: the request's own context is used.
PingEndsCancelled(p) ==
    /\ db # "hung" \/ now = started + Timeout \/ p \in gone
    /\ Result(p, IF p \in gone THEN "unready" ELSE Outcome, now)

\* Ping answers, fails at once, or is cut off by its deadline.  A client that has
\* hung up does not cancel it (context.WithoutCancel).
PingEnds(p) ==
    /\ db # "hung" \/ now = started + Timeout
    /\ Result(p, Outcome, now)

HangUp(p) ==
    /\ probe[p] \in Active
    /\ gone' = gone \cup {p}
    /\ UNCHANGED <<now, db, checkedAt, dbOK, holder, started, probe, since, lastUp, lastDown>>

\* The database, or the way to it, changes.
DbBecomes(s) ==
    /\ s # db
    /\ db' = s
    /\ lastUp' = IF db = "up" THEN now ELSE lastUp
    /\ lastDown' = IF db # "up" THEN now ELSE lastDown
    /\ UNCHANGED <<now, checkedAt, dbOK, holder, started, probe, since, gone>>

\* Time passes, but not while the mutex is free and wanted, and not beyond the
\* deadline of a ping.
Tick ==
    /\ now < MaxTime
    /\ holder = Nobody => \A p \in Probes : probe[p] # "waiting"
    /\ holder # Nobody => now < started + Timeout
    /\ now' = now + 1
    /\ UNCHANGED <<db, checkedAt, dbOK, holder, started, probe, since, gone, lastUp, lastDown>>

Next ==
    \/ \E p \in Probes : Arrive(p) \/ TakeLock(p) \/ PingEnds(p) \/ HangUp(p)
    \/ \E s \in {"up", "refusing", "hung"} : DbBecomes(s)
    \/ Tick

Spec == Init /\ [][Next]_vars

-----------------------------------------------------------------------------
(* Properties                                                              *)

(* The types of the variables that the waiting times depend on.            *)
QueueTypes ==
    /\ now \in Nat /\ started \in Nat
    /\ checkedAt \in Nat \cup {Never}
    /\ dbOK \in Verdicts
    /\ holder \in Probes \cup {Nobody}
    /\ probe \in [Probes -> Active \cup Verdicts \cup {"idle"}]
    /\ since \in [Probes -> Nat]

\* The type of every variable.
TypeOK ==
    /\ QueueTypes
    /\ db \in {"up", "refusing", "hung"}
    /\ gone \subseteq Probes
    /\ lastUp \in Nat \cup {Never} /\ lastDown \in Nat \cup {Never}

\* A probe never waits longer than one ping may take, however many probes queue
\* for the mutex and however the database hangs: whoever waited reuses the result.
WaitsForOnePing ==
    \A p \in Probes : probe[p] \in Active => now - since[p] <= Timeout

LastMoment(up) == IF (db = "up") = up THEN now ELSE IF up THEN lastUp ELSE lastDown

Answers(p, verdict) == probe[p] \in Active /\ probe'[p] = verdict

\* "ready" means that the database was up at most a TTL ago.
ReadyIsRecent ==
    [][\A p \in Probes : Answers(p, "ready") =>
          LastMoment(TRUE) # Never /\ now - LastMoment(TRUE) < TTL]_vars

\* "unready" means that the database was refusing or hung at most a TTL ago: a
\* client that hangs up or a burst of probes does not make the replica unready.
NotReadyIsReal ==
    [][\A p \in Probes : Answers(p, "unready") =>
          LastMoment(FALSE) # Never /\ now - LastMoment(FALSE) < TTL]_vars

(* Exactly the holder pings, within its deadline.  A probe that waits for  *)
(* it came in after the ping began; one that waits for a free mutex came   *)
(* in this very moment, or finds a result of this very moment.             *)
QueueIsYoung ==
    /\ \A p \in Probes : probe[p] = "pinging" <=> holder = p
    /\ holder # Nobody => started <= now /\ now <= started + Timeout
    /\ \A p \in Probes : probe[p] \in Active =>
          /\ since[p] <= now /\ now <= since[p] + Timeout
          /\ IF holder = Nobody THEN since[p] = now \/ checkedAt = now ELSE started <= since[p]

IInv == QueueTypes /\ QueueIsYoung

(* The last result tells how the database was at its moment or later, and  *)
(* no moment that is remembered lies ahead.                                *)
ResultIsTrue ==
    /\ checkedAt <= now
    /\ checkedAt # Never /\ dbOK = "ready" => checkedAt <= LastMoment(TRUE)
    /\ checkedAt # Never /\ dbOK = "unready" => checkedAt <= LastMoment(FALSE)
=============================================================================
