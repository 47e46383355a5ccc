---------------------------- MODULE JobContract -----------------------------
(***************************************************************************)
(* What the job columns promise, without leases, loops, statements or      *)
(* processes: a queued job is held by at most one claim at a time, only    *)
(* its holder settles it, and a settled job stays settled until somebody   *)
(* asks for it again.  JobLease implements this.                           *)
(***************************************************************************)
EXTENDS Integers

CONSTANT Entries

Kinds    == {"enrichment", "summary"}
Jobs     == Kinds \X Entries
Outcomes == {"ok", "failed", "skipped"}

VARIABLES
    state,      \* state[j]: absent, queued, or one of Outcomes
    holder,     \* holder[j]: the claim that may settle the job, or Nobody
    drawn       \* claims 1..drawn have been handed out

vars == <<state, holder, drawn>>

Nobody == 0

Init ==
    /\ state \in [Jobs -> {"absent", "queued", "ok"}]
    /\ holder = [j \in Jobs |-> Nobody]
    /\ drawn = 0

\* A queued job that nobody holds is handed to a new claim; a summary only when
\* the enrichment of its entry is ok.
Grant(j) ==
    /\ state[j] = "queued" /\ holder[j] = Nobody
    /\ j[1] = "summary" => state[<<"enrichment", j[2]>>] = "ok"
    /\ drawn' = drawn + 1
    /\ holder' = [holder EXCEPT ![j] = drawn + 1]
    /\ UNCHANGED state

\* The job leaves its holder's hands, if it has one, and is then in state s.
Put(j, s) ==
    /\ state' = [state EXCEPT ![j] = s]
    /\ holder' = [holder EXCEPT ![j] = Nobody]
    /\ UNCHANGED drawn

Settle(j, s) == holder[j] # Nobody /\ state[j] = "queued" /\ Put(j, s)

\* The holder gives the job back or has it taken away, or the user asks for the
\* job to be done again.
Requeue(j) == state[j] # "absent" /\ Put(j, "queued")

\* The user writes the summary that was waited for.
Supersede(e) == state[<<"summary", e>>] = "queued" /\ Put(<<"summary", e>>, "ok")

PutEntry(e, s) ==
    /\ state' = [j \in Jobs |-> IF j[2] = e THEN s ELSE state[j]]
    /\ holder' = [j \in Jobs |-> IF j[2] = e THEN Nobody ELSE holder[j]]
    /\ UNCHANGED drawn

Insert(e) == (\A k \in Kinds : state[<<k, e>>] = "absent") /\ PutEntry(e, "queued")
Remove(e) == state[<<"enrichment", e>>] # "absent" /\ PutEntry(e, "absent")

Next == \/ \E j \in Jobs : \/ Grant(j) \/ Requeue(j)
                           \/ \E s \in Outcomes : Settle(j, s)
        \/ \E e \in Entries : Supersede(e) \/ Insert(e) \/ Remove(e)

Spec == Init /\ [][Next]_vars
=============================================================================
