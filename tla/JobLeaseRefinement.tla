------------------------- MODULE JobLeaseRefinement -------------------------
(* JobLease implements JobContract: every step on the rows is a step of    *)
(* the contract, and every other step is invisible to it.                  *)
EXTENDS JobLeaseProofs

(* A step that leaves the rows and the tokens alone is invisible.          *)
LEMMA SameRows ==
  ASSUME UNCHANGED <<job, lastToken>>
  PROVE  UNCHANGED Contract!vars
  BY DEF Contract!vars

(* Taking the columns of the lease from a row puts its job in the state    *)
(* that the new status stands for.                                         *)
LEMMA PutRow ==
  ASSUME TypeOK, NEW j \in Jobs, NEW s \in Statuses,
         job' = [job EXCEPT ![j] = Unleased(s)], UNCHANGED lastToken
  PROVE  Contract!Put(j, StateOf(s))
  <1>1. job'[j] = Unleased(s) /\ \A i \in Jobs : i # j => job'[i] = job[i]
    BY DEF TypeOK
  <1>2. ASSUME NEW i \in Jobs
        PROVE  /\ StateOf(job'[i].status) = IF i = j THEN StateOf(s) ELSE StateOf(job[i].status)
               /\ HolderOf(job'[i]) = IF i = j THEN 0 ELSE HolderOf(job[i])
    BY <1>1 DEF Unleased, HolderOf, NoToken
  <1>3. [i \in Jobs |-> StateOf(job'[i].status)]
          = [[i \in Jobs |-> StateOf(job[i].status)] EXCEPT ![j] = StateOf(s)]
    BY <1>2
  <1>4. [i \in Jobs |-> HolderOf(job'[i])]
          = [[i \in Jobs |-> HolderOf(job[i])] EXCEPT ![j] = 0]
    BY <1>2
  <1> QED
    BY <1>3, <1>4 DEF Contract!Put, Contract!Nobody

(* A guarded write that takes effect is made by the holder: it settles the *)
(* job or, at a shutdown, gives it back.                                   *)
LEMMA WriteByHolder ==
  ASSUME TypeOK, RowsAreConsistent, NEW j \in Jobs, NEW t \in Nat \ {NoToken},
         NEW s \in Statuses \ {"none"}, RecordStatus(j, t, s), UNCHANGED lastToken
  PROVE  [Contract!Next]_(Contract!vars)
  <1>1. CASE ~Current(j, t)
    BY <1>1, SameRows DEF RecordStatus
  <1>2. CASE Current(j, t)
    <2>1. Contract!Put(j, StateOf(s))
      BY <1>2, PutRow DEF RecordStatus
    <2>2. HolderOf(job[j]) # 0 /\ StateOf(job[j].status) = "queued"
      BY <1>2 DEF Current, HolderOf, StateOf, NoToken
    <2>3. CASE s \in Outcomes
      <3>1. StateOf(s) = s
        BY <2>3 DEF StateOf, Outcomes
      <3>2. Contract!Settle(j, s) /\ s \in Contract!Outcomes
        BY <2>1, <2>2, <2>3, <3>1 DEF Contract!Settle, Contract!Nobody, Contract!Outcomes, Outcomes
      <3> QED
        BY <3>2 DEF Contract!Next, Contract!Jobs, Contract!Kinds, Jobs, Kinds
    <2>4. CASE s \notin Outcomes
      <3>1. StateOf(s) = "queued"
        BY <2>4 DEF StateOf, Statuses
      <3>2. Contract!Requeue(j)
        BY <2>1, <2>2, <3>1 DEF Contract!Requeue
      <3> QED
        BY <3>2 DEF Contract!Next, Contract!Jobs, Contract!Kinds, Jobs, Kinds
    <2> QED
      BY <2>3, <2>4
  <1> QED
    BY <1>1, <1>2

(* The initial rows are absent, queued or ok, and nobody holds them.       *)
LEMMA InitMaps == Init => Contract!Init
  <1> SUFFICES ASSUME Init PROVE Contract!Init
    OBVIOUS
  <1>1. PICK start \in [Entries -> {"new", "enriching", "summarizing"}] :
          job = [i \in Jobs |-> FirstState(i[2], i[1], start[i[2]])]
    BY DEF Init
  <1>2. ASSUME NEW j \in Jobs
        PROVE  /\ StateOf(job[j].status) \in {"absent", "queued", "ok"}
               /\ HolderOf(job[j]) = 0
    <2>1. j[2] \in Entries /\ start[j[2]] \in {"new", "enriching", "summarizing"}
      BY <1>1 DEF Jobs
    <2> QED
      BY <1>1, <2>1 DEF FirstState, Unleased, StateOf, HolderOf, NoToken
  <1>3. lastToken = 0
    BY DEF Init
  <1> QED
    BY <1>2, <1>3 DEF Contract!Init, Contract!Nobody, Contract!Jobs, Contract!Kinds, Jobs, Kinds

(* A claim takes a job that is queued and that nobody holds.               *)
LEMMA ClaimMaps ==
  ASSUME IInv, NEW l \in Loops, ClaimJob(l)
  PROVE  Contract!Next
  <1>1. PICK skipped \in SUBSET RowLocked, e \in Entries :
          /\ e \in Oldest(Eligible(l[2]) \ skipped)
          /\ job' = [job EXCEPT ![<<l[2], e>>] = [status |-> "processing",
                        token |-> lastToken + 1, lease |-> "live"]]
          /\ lastToken' = lastToken + 1
    BY DEF ClaimJob
  <1> DEFINE j == <<l[2], e>>
  <1>2. j \in Jobs /\ j[1] = l[2] /\ j[2] = e
    BY DEF Loops, Jobs
  <1>3. /\ job[j].status \in {"pending", "processing"} /\ job[j].lease # "live"
        /\ l[2] = "summary" => job[<<"enrichment", e>>].status = "ok"
    BY <1>1, <1>2 DEF Oldest, Eligible, IInv, RowsAreConsistent
  <1>4. TypeOK
    BY DEF IInv
  <1>5. job'[j] = [status |-> "processing", token |-> lastToken + 1, lease |-> "live"]
        /\ \A i \in Jobs : i # j => job'[i] = job[i]
    BY <1>1, <1>2, <1>4 DEF TypeOK
  <1>6. [i \in Jobs |-> StateOf(job'[i].status)] = [i \in Jobs |-> StateOf(job[i].status)]
    BY <1>3, <1>5 DEF StateOf
  <1>7. [i \in Jobs |-> HolderOf(job'[i])]
          = [[i \in Jobs |-> HolderOf(job[i])] EXCEPT ![j] = lastToken + 1]
    <2>1. ASSUME NEW i \in Jobs
          PROVE  HolderOf(job'[i]) = IF i = j THEN lastToken + 1 ELSE HolderOf(job[i])
      BY <1>5 DEF HolderOf
    <2> QED
      BY <2>1
  <1>8. StateOf(job[j].status) = "queued" /\ HolderOf(job[j]) = 0
    BY <1>3 DEF StateOf, HolderOf, NoToken
  <1>9. j[1] = "summary" => StateOf(job[<<"enrichment", e>>].status) = "ok"
    BY <1>2, <1>3 DEF StateOf
  <1>10. <<"enrichment", e>> \in Jobs
    BY DEF Jobs, Kinds
  <1>11. Contract!Grant(j)
    BY <1>1, <1>2, <1>6, <1>7, <1>8, <1>9, <1>10 DEF Contract!Grant, Contract!Nobody
  <1> QED
    BY <1>2, <1>11 DEF Contract!Next, Contract!Jobs, Contract!Kinds, Jobs, Kinds

(* The end of a lease takes the job from its holder.                       *)
LEMMA LapseMaps ==
  ASSUME IInv, NEW j \in Jobs, LeaseLapses(j)
  PROVE  [Contract!Next]_(Contract!vars)
  <1>1. TypeOK
    BY DEF IInv
  <1>2. /\ job[j].lease = "live" /\ job[j].status = "processing" /\ lastToken' = lastToken
        /\ job'[j] = [job[j] EXCEPT !.lease = "expired"]
        /\ \A i \in Jobs : i # j => job'[i] = job[i]
    BY <1>1 DEF LeaseLapses, IInv, RowsAreConsistent, TypeOK
  <1>3. ASSUME NEW i \in Jobs
        PROVE  /\ job'[i].status = job[i].status
               /\ HolderOf(job'[i]) = IF i = j THEN 0 ELSE HolderOf(job[i])
    BY <1>1, <1>2 DEF HolderOf, NoToken, TypeOK
  <1>4. StateOf(job[j].status) = "queued"
    BY <1>2 DEF StateOf
  <1>5. [i \in Jobs |-> StateOf(job'[i].status)]
          = [[i \in Jobs |-> StateOf(job[i].status)] EXCEPT ![j] = "queued"]
    BY <1>3, <1>4
  <1>6. [i \in Jobs |-> HolderOf(job'[i])] = [[i \in Jobs |-> HolderOf(job[i])] EXCEPT ![j] = 0]
    BY <1>3
  <1>7. Contract!Put(j, "queued")
    BY <1>2, <1>5, <1>6 DEF Contract!Put, Contract!Nobody
  <1>8. Contract!Requeue(j)
    BY <1>4, <1>7 DEF Contract!Requeue
  <1> QED
    BY <1>8 DEF Contract!Next, Contract!Jobs, Contract!Kinds, Jobs, Kinds

(* Both jobs of an entry appear and disappear together.                    *)
LEMMA EntryMaps ==
  ASSUME TypeOK, NEW e \in Entries, NEW s \in {"none", "pending"}, UNCHANGED lastToken,
         job' = [j \in Jobs |-> IF j[2] = e THEN Unleased(s) ELSE job[j]]
  PROVE  Contract!PutEntry(e, StateOf(s))
  <1>1. ASSUME NEW i \in Jobs
        PROVE  /\ StateOf(job'[i].status) = IF i[2] = e THEN StateOf(s) ELSE StateOf(job[i].status)
               /\ HolderOf(job'[i]) = IF i[2] = e THEN 0 ELSE HolderOf(job[i])
    BY DEF Unleased, HolderOf, NoToken
  <1> QED
    BY <1>1 DEF Contract!PutEntry, Contract!Nobody, Contract!Jobs, Contract!Kinds, Jobs, Kinds

(* The handlers refresh, supersede, insert and remove.                     *)
LEMMA UserMaps == ASSUME IInv, UserStep PROVE Contract!Next
  <1>1. TypeOK
    BY DEF IInv
  <1>2. ASSUME NEW k \in Kinds, NEW e \in Entries PROVE <<k, e>> \in Jobs
    BY DEF Jobs
  <1>3. \A j \in Jobs : j[2] \in Entries /\ j \in Contract!Jobs
    BY DEF Jobs, Kinds, Contract!Jobs, Contract!Kinds
  <1>4. ASSUME NEW k \in Kinds, NEW e \in Entries, job[<<k, e>>].status # "none",
               Revoke(<<k, e>>, "pending")
        PROVE  Contract!Next
    <2>1. Contract!Put(<<k, e>>, "queued")
      BY <1>1, <1>2, <1>4, PutRow DEF Revoke, StateOf, Statuses
    <2>2. StateOf(job[<<k, e>>].status) # "absent"
      BY <1>1, <1>2, <1>4 DEF StateOf, TypeOK, Statuses, Outcomes
    <2>3. Contract!Requeue(<<k, e>>)
      BY <1>2, <2>1, <2>2 DEF Contract!Requeue
    <2> QED
      BY <1>2, <1>3, <2>3 DEF Contract!Next
  <1>5. ASSUME NEW e \in Entries, SupersedeSummary(e) PROVE Contract!Next
    <2>1. Contract!Put(<<"summary", e>>, "ok")
      BY <1>1, <1>2, <1>5, PutRow DEF SupersedeSummary, Revoke, StateOf, Statuses, Outcomes, Kinds
    <2>2. StateOf(job[<<"summary", e>>].status) = "queued"
      BY <1>5 DEF SupersedeSummary, StateOf
    <2>3. Contract!Supersede(e)
      BY <1>2, <2>1, <2>2 DEF Contract!Supersede, Kinds
    <2> QED
      BY <2>3 DEF Contract!Next
  <1>6. ASSUME CreateEntry PROVE Contract!Next
    <2>1. created + 1 \in Entries /\ created + 1 > created
      BY <1>1, <1>6, ConstantsOK DEF CreateEntry, TypeOK, Entries
    <2>2. \A k \in Kinds : job[<<k, created + 1>>].status = "none"
      BY <1>1, <1>2, <2>1 DEF IInv, RowsAreConsistent, TypeOK
    <2>3. Contract!PutEntry(created + 1, "queued")
      BY <1>1, <1>6, <2>1, EntryMaps DEF CreateEntry, StateOf
    <2>4. Contract!Insert(created + 1)
      BY <1>2, <2>1, <2>2, <2>3 DEF Contract!Insert, Contract!Kinds, Kinds, StateOf
    <2> QED
      BY <2>1, <2>4 DEF Contract!Next
  <1>7. ASSUME NEW e \in Entries, DeleteEntry(e) PROVE Contract!Next
    <2>1. Contract!PutEntry(e, "absent")
      BY <1>1, <1>7, EntryMaps DEF DeleteEntry, StateOf
    <2>2. StateOf(job[<<"enrichment", e>>].status) # "absent"
      BY <1>1, <1>2, <1>7 DEF DeleteEntry, Exists, StateOf, TypeOK, Statuses, Outcomes, Kinds
    <2>3. Contract!Remove(e)
      BY <1>2, <2>1, <2>2 DEF Contract!Remove, Kinds
    <2> QED
      BY <2>3 DEF Contract!Next
  <1>8. ASSUME NEW e \in Entries, ResetEnrichment(e) \/ ResetSummary(e) PROVE Contract!Next
    <2>1. job[<<"enrichment", e>>].status # "none" /\ job[<<"summary", e>>].status # "none"
      BY <1>8 DEF ResetEnrichment, ResetSummary, Exists, Kinds
    <2> QED
      BY <1>4, <1>8, <2>1 DEF ResetEnrichment, ResetSummary, Kinds
  <1> QED
    BY <1>5, <1>6, <1>7, <1>8 DEF UserStep

(* Every step of JobLease is a step of the contract or invisible to it.    *)
LEMMA StepMaps == IInv /\ [Next]_vars => [Contract!Next]_(Contract!vars)
  <1> SUFFICES ASSUME IInv, [Next]_vars PROVE [Contract!Next]_(Contract!vars)
    OBVIOUS
  <1>1. TypeOK /\ RowsAreConsistent
    BY DEF IInv
  <1>2. ASSUME NEW l \in Loops, LoopStep(l) PROVE [Contract!Next]_(Contract!vars)
    <2>1. CASE WriteAnswers(l)
      <3>1. /\ RecordStatus(JobOf(l), claim[l].token, claim[l].want)
            /\ pc[l] \in Writing /\ lastToken' = lastToken
        BY <2>1 DEF WriteAnswers
      <3>2. /\ JobOf(l) \in Jobs /\ claim[l].token \in Nat \ {NoToken}
            /\ claim[l].want \in Statuses \ {"none"}
        BY <1>1, <3>1 DEF IInv, LoopsHaveClaims, Writing, Busy, TypeOK, JobOf, Jobs, Loops
      <3> QED
        BY <1>1, <3>1, <3>2, WriteByHolder
    <2>2. CASE ~ClaimJob(l) /\ ~WriteAnswers(l)
      <3>1. UNCHANGED <<job, lastToken>>
        BY <1>2, <2>2 DEF LoopStep, ProviderReturns, SkipSummary, CacheLookupFails, FinishError,
                          WriteFails, LoopExits, RowsUnchanged
      <3> QED
        BY <3>1, SameRows
    <2> QED
      BY <2>1, <2>2, ClaimMaps
  <1>3. ASSUME NEW w \in Replicas, ProcessStep(w) PROVE [Contract!Next]_(Contract!vars)
    BY <1>3, SameRows DEF ProcessStep, Shutdown, Crash, Restart
  <1>4. ASSUME NEW x \in inflight, LateWrite(x) PROVE [Contract!Next]_(Contract!vars)
    <2>1. x.job \in Jobs /\ x.token \in Nat \ {NoToken} /\ x.want \in Statuses \ {"none"}
      BY <1>1 DEF IInv, StatementsHaveTokens, TypeOK
    <2>2. lastToken' = lastToken /\ (RecordStatus(x.job, x.token, x.want) \/ job' = job)
      BY <1>4 DEF LateWrite
    <2> QED
      BY <1>1, <2>1, <2>2, WriteByHolder, SameRows
  <1>5. CASE UNCHANGED vars
    BY <1>5, SameRows DEF vars
  <1> QED
    BY <1>2, <1>3, <1>4, <1>5, LapseMaps, UserMaps DEF Next

(* JobLease implements JobContract, for any replicas, entries and limits.  *)
THEOREM ImplementsContract == Spec => KeepsContract
  BY InitMaps, StepMaps, Inductive, PTL DEF Spec, KeepsContract, Contract!Spec
=============================================================================
