---------------------------- MODULE LeaseTiming -----------------------------
(***************************************************************************)
(* The deadlines around one job.  The lease starts in the database when    *)
(* ClaimJob runs; the worker then has a deadline for the provider, one for *)
(* the save and one for the cleanup.  JobLease lets a lease end at any     *)
(* moment and stays safe; here every call returns by its deadline, and the *)
(* lease is shown to be long enough for nobody to do the work twice.       *)
(*                                                                         *)
(* No refresh: revoking a claim is meant to start the work again.          *)
(***************************************************************************)
EXTENDS Integers

CONSTANTS
    Loops,      \* loops that may claim the job
    Lease,      \* JobLease
    Latency,    \* how long ClaimJob's answer may take (the code sets no deadline)
    Provider,   \* jobTimeout
    Save,       \* the deadline of saveCtx
    Cleanup,    \* the deadline of finishError's context
    MaxTime     \* bound: the last moment looked at

ASSUME TimesOK == {Lease, Latency, Provider, Save, Cleanup, MaxTime} \subseteq Nat

\* 5 min > 2 min + 5 s + 5 s leaves nearly three minutes for the answer.
ASSUME LeaseOK == Latency + Provider + Save + Cleanup < Lease

VARIABLES
    now,        \* the time
    status,     \* the job: pending, processing or done
    expires,    \* lease_expires_at
    stage,      \* stage[w]: what loop w is doing
    deadline    \* deadline[w]: when the call that w is in is abandoned

leaseVars == <<now, status, expires, stage, deadline>>

Working == {"claiming", "running", "saving", "releasing"}

LeaseInit ==
    /\ now = 0
    /\ status \in {"pending", "processing"}
    /\ expires = 0
    /\ stage = [w \in Loops |-> "idle"]
    /\ deadline = [w \in Loops |-> 0]

Enter(w, s, d) == /\ stage' = [stage EXCEPT ![w] = s]
                  /\ deadline' = [deadline EXCEPT ![w] = d]

\* The statement of ClaimJob takes effect; its answer is on the way.
TakeLease(w) ==
    /\ stage[w] = "idle"
    /\ status = "pending" \/ (status = "processing" /\ expires <= now)
    /\ status' = "processing"
    /\ expires' = now + Lease
    /\ Enter(w, "claiming", now + Latency)
    /\ UNCHANGED now

\* Mutant of Run: the provider has as long as the lease.
RunForLease(w) ==
    /\ stage[w] = "claiming"
    /\ Enter(w, "running", now + Lease)
    /\ UNCHANGED <<now, status, expires>>

\* enrich() and summarize() start the two minutes.
Run(w) ==
    /\ stage[w] = "claiming"
    /\ Enter(w, "running", now + Provider)
    /\ UNCHANGED <<now, status, expires>>

\* The provider has answered, or failed: the result is saved under saveCtx, the
\* failure under the context of finishError.
Return(w) ==
    /\ stage[w] = "running"
    /\ Enter(w, "saving", now + Save) \/ Enter(w, "releasing", now + Cleanup)
    /\ UNCHANGED <<now, status, expires>>

\* Mutant of SaveFails: the cleanup waits for as long as the provider may take.
SaveFailsSlow(w) ==
    /\ stage[w] = "saving"
    /\ Enter(w, "releasing", now + Lease - Save) \/ Enter(w, "idle", 0)
    /\ UNCHANGED <<now, status, expires>>

\* saved() with an error: released at a shutdown, otherwise left to its lease.
SaveFails(w) ==
    /\ stage[w] = "saving"
    /\ Enter(w, "releasing", now + Cleanup) \/ Enter(w, "idle", 0)
    /\ UNCHANGED <<now, status, expires>>

\* The final write takes effect (a summary may be skipped straight from running),
\* or a release returns the job to pending.
Finish(w) ==
    /\ stage[w] \in {"running", "saving", "releasing"}
    /\ \/ status' = "done"
       \/ stage[w] = "releasing" /\ status' = "pending"
    /\ Enter(w, "idle", 0)
    /\ UNCHANGED <<now, expires>>

\* The process dies, or the call fails for good; the lease remains.
Drop(w) ==
    /\ stage[w] \in Working
    /\ Enter(w, "idle", 0)
    /\ UNCHANGED <<now, status, expires>>

\* Time passes, but not beyond the deadline of a call.
Tick ==
    /\ now < MaxTime
    /\ \A w \in Loops : stage[w] \in Working => now < deadline[w]
    /\ now' = now + 1
    /\ UNCHANGED <<status, expires, stage, deadline>>

Step(w) == TakeLease(w) \/ Run(w) \/ Return(w) \/ SaveFails(w) \/ Finish(w) \/ Drop(w)

LeaseNext == Tick \/ \E w \in Loops : Step(w)

LeaseSpec == LeaseInit /\ [][LeaseNext]_leaseVars

-----------------------------------------------------------------------------
(* Properties                                                              *)

\* The type of every variable.
LeaseTypeOK ==
    /\ now \in Nat
    /\ status \in {"pending", "processing", "done"}
    /\ expires \in Nat
    /\ stage \in [Loops -> Working \cup {"idle"}]
    /\ deadline \in [Loops -> Nat]

\* Without a refresh no two loops work on the same job at the same time: the
\* provider is not asked again while an answer may still come.
NoDoubleWork ==
    \A v, w \in Loops : stage[v] \in Working /\ stage[w] \in Working => v = w

\* A result or a failure that is reported by its deadline is never refused for an
\* expired lease, not even after a full provider timeout and a failed save.
ReportsInTime ==
    \A w \in Loops : stage[w] \in {"saving", "releasing"} =>
        status = "processing" /\ now < expires

\* What may still follow the call that a stage is in.
Remaining(s) ==
    CASE s = "claiming"  -> Provider + Save + Cleanup
      [] s = "running"   -> Save + Cleanup
      [] s = "saving"    -> Cleanup
      [] s = "releasing" -> 0

(* The lease covers everything that the holder may still have to do.       *)
LeaseCoversWork ==
    \A w \in Loops : stage[w] \in Working =>
        /\ status = "processing"
        /\ now <= deadline[w]
        /\ deadline[w] + Remaining(stage[w]) < expires

IInv == LeaseTypeOK /\ LeaseCoversWork /\ NoDoubleWork
=============================================================================
