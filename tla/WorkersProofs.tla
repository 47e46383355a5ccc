--------------------------- MODULE WorkersProofs ----------------------------
(***************************************************************************)
(* Theorems about the worker's time budget (LeaseTiming), for any loops    *)
(* and any times that satisfy LeaseOK, and about how its results meet the  *)
(* edits of a user (EnrichmentMerge), for any loops and any number of      *)
(* edits, refreshes and lapsed leases.                                     *)
(***************************************************************************)
EXTENDS LeaseTiming, EnrichmentMerge, TLAPS

-----------------------------------------------------------------------------
(* The lease and the time-outs                                             *)

(* IInv holds as long as the loops and the database go on as they do: each *)
(* stage hands the next one a part of what its own lease still covers.     *)
LEMMA LeaseInvariant == IInv /\ [LeaseNext]_leaseVars => IInv'
  <1> SUFFICES ASSUME IInv, [LeaseNext]_leaseVars PROVE IInv'
    OBVIOUS
  <1> USE TimesOK, LeaseOK
  <1>1. LeaseTypeOK /\ LeaseCoversWork /\ NoDoubleWork
    BY DEF IInv
  <1>2. CASE Tick
    BY <1>1, <1>2 DEF Tick, IInv, LeaseTypeOK, LeaseCoversWork, NoDoubleWork, Remaining, Working
  <1>3. ASSUME NEW w \in Loops, NEW s \in Working, NEW d \in Nat, Enter(w, s, d),
               stage[w] \in Working, UNCHANGED <<now, status, expires>>,
               now <= d, d + Remaining(s) < expires
        PROVE  IInv'
    <2>1. LeaseTypeOK'
      BY <1>1, <1>3 DEF LeaseTypeOK, Enter
    <2>2. /\ stage'[w] = s /\ deadline'[w] = d
          /\ \A v \in Loops : v # w => stage'[v] = stage[v] /\ deadline'[v] = deadline[v]
      BY <1>1, <1>3 DEF LeaseTypeOK, Enter
    <2>3. LeaseCoversWork'
      BY <1>1, <1>3, <2>2 DEF LeaseCoversWork
    <2>4. NoDoubleWork'
      BY <1>1, <1>3, <2>2 DEF NoDoubleWork
    <2> QED
      BY <2>1, <2>3, <2>4 DEF IInv
  <1>4. ASSUME NEW w \in Loops, Enter(w, "idle", 0), stage[w] \in Working,
               UNCHANGED <<now, expires>>, status' \in {"pending", "processing", "done"}
        PROVE  IInv'
    <2>1. LeaseTypeOK'
      BY <1>1, <1>4 DEF LeaseTypeOK, Enter
    <2>2. \A v \in Loops : stage'[v] \notin Working
      BY <1>1, <1>4 DEF LeaseTypeOK, Enter, NoDoubleWork, Working
    <2> QED
      BY <2>1, <2>2 DEF IInv, LeaseCoversWork, NoDoubleWork
  <1>5. ASSUME NEW w \in Loops, TakeLease(w) PROVE IInv'
    <2>1. \A v \in Loops : stage[v] \notin Working
      <3>1. SUFFICES ASSUME NEW v \in Loops, stage[v] \in Working PROVE FALSE
        OBVIOUS
      <3>2. Remaining(stage[v]) \in Nat
        BY <3>1 DEF Remaining, Working
      <3> QED
        BY <1>1, <1>5, <3>1, <3>2 DEF TakeLease, LeaseCoversWork, LeaseTypeOK
    <2>2. /\ stage'[w] = "claiming" /\ deadline'[w] = now + Latency
          /\ \A v \in Loops : v # w => stage'[v] = stage[v]
          /\ now' = now /\ status' = "processing" /\ expires' = now + Lease
      BY <1>1, <1>5 DEF LeaseTypeOK, TakeLease, Enter
    <2>3. LeaseTypeOK'
      BY <1>1, <1>5 DEF LeaseTypeOK, TakeLease, Enter, Working
    <2>4. LeaseCoversWork'
      BY <1>1, <2>1, <2>2 DEF LeaseCoversWork, Remaining, LeaseTypeOK
    <2>5. NoDoubleWork'
      BY <2>1, <2>2 DEF NoDoubleWork
    <2> QED
      BY <2>3, <2>4, <2>5 DEF IInv
  <1>6. ASSUME NEW w \in Loops, Run(w) \/ Return(w) \/ SaveFails(w) \/ Finish(w) \/ Drop(w)
        PROVE  IInv'
    <2>1. /\ stage[w] \in Working
          /\ now <= deadline[w] /\ deadline[w] + Remaining(stage[w]) < expires
      BY <1>1, <1>6 DEF LeaseCoversWork, Run, Return, SaveFails, Finish, Drop, Working
    <2>2. CASE Run(w)
      BY <1>1, <1>3, <2>1, <2>2 DEF Run, Remaining, Working, LeaseTypeOK
    <2>3. CASE Return(w)
      BY <1>1, <1>3, <2>1, <2>3 DEF Return, Remaining, Working, LeaseTypeOK
    <2>4. CASE SaveFails(w)
      BY <1>1, <1>3, <1>4, <2>1, <2>4 DEF SaveFails, Remaining, Working, LeaseTypeOK
    <2>5. CASE Finish(w) \/ Drop(w)
      BY <1>1, <1>4, <2>1, <2>5 DEF Finish, Drop, LeaseTypeOK
    <2> QED
      BY <1>6, <2>2, <2>3, <2>4, <2>5
  <1>7. CASE UNCHANGED leaseVars
    BY <1>1, <1>7 DEF leaseVars, IInv, LeaseTypeOK, LeaseCoversWork, NoDoubleWork
  <1> QED
    BY <1>2, <1>5, <1>6, <1>7 DEF LeaseNext, Step

(* Types, coverage of the work by the lease, and exclusiveness hold        *)
(* together in every reachable state.                                      *)
THEOREM LeaseInductive == LeaseSpec => []IInv
  <1>1. LeaseInit => IInv
    BY TimesOK DEF LeaseInit, IInv, LeaseTypeOK, LeaseCoversWork, NoDoubleWork, Working
  <1> QED
    BY <1>1, LeaseInvariant, PTL DEF LeaseSpec

(* No two loops of any replica work on the same job at the same time when  *)
(* every call returns by its deadline and the lease exceeds their sum.     *)
THEOREM NobodyWorksTwice == LeaseSpec => []NoDoubleWork
  BY LeaseInductive, PTL DEF IInv

(* An outcome that is reported by its deadline finds the lease still live. *)
THEOREM LeaseLongEnough == LeaseSpec => []ReportsInTime
  <1>1. IInv => ReportsInTime
    BY TimesOK DEF IInv, LeaseTypeOK, LeaseCoversWork, ReportsInTime, Remaining, Working
  <1> QED
    BY <1>1, LeaseInductive, PTL

-----------------------------------------------------------------------------
(* Results and edits.  The values of the fields play no part: what counts  *)

(* is that tokens tell claims apart, and that a field which differs from  *)
(* what the current claim captured has been edited.                        *)

\* A loop that has claimed the job.
Busy(w) == work[w] # Idle

\* The rows and the loops, as far as the merge depends on them.
Shapes ==
    /\ work = [w \in Workers |-> work[w]]
    /\ job \in [status : {"pending", "processing", "ok", "failed"}, token : Nat,
                live : BOOLEAN]
    /\ lastToken \in Nat
    /\ edits \in [Workers -> [Fields -> Nat]]

\* No two claims share a token, and none has a token that is still to be drawn.
TokensTellClaimsApart ==
    /\ job.token <= lastToken
    /\ \A w \in Workers : Busy(w) =>
          /\ work[w].token \in Nat /\ work[w].token # 0 /\ work[w].token <= lastToken
          /\ \A v \in Workers : Busy(v) /\ work[v].token = work[w].token => v = w

\* Under the current claim a field that was not edited is as it was captured, and one
\* that was edited once is not.
ChangesAreEdits ==
    \A w \in Workers : Busy(w) /\ job.token = work[w].token =>
       \A f \in Fields : /\ edits[w][f] = 0 => field[f] = work[w].claimed[f]
                         /\ edits[w][f] = 1 => field[f] # work[w].claimed[f]

\* The inductive invariant: a field that differs from what the current claim captured was
\* edited since.
MergeInv == Shapes /\ TokensTellClaimsApart /\ ChangesAreEdits

-----------------------------------------------------------------------------

\* It holds at first, as no loop is busy.
LEMMA MergeInit == Init => MergeInv
  BY DEF Init, MergeInv, Shapes, TokensTellClaimsApart, ChangesAreEdits, Busy

\* A loop moves on or ends, under the same claim, and changes nothing else.
LEMMA SameClaim ==
    ASSUME MergeInv, NEW w \in Workers, NEW x, work' = [work EXCEPT ![w] = x],
           \/ x = Idle
           \/ Busy(w) /\ x # Idle /\ x.token = work[w].token /\ x.claimed = work[w].claimed,
           job' \in [status : {"pending", "processing", "ok", "failed"}, token : Nat,
                     live : BOOLEAN],
           job'.token = job.token \/ job'.token = 0,
           lastToken' = lastToken, edits' = edits,
           field' = field \/ job'.token = 0
    PROVE  MergeInv'
  <1>1. work'[w] = x /\ \A v \in Workers \ {w} : work'[v] = work[v]
    BY DEF MergeInv, Shapes
  <1>2. Shapes'
    BY DEF MergeInv, Shapes
  <1>3. \A v \in Workers : Busy(v)' =>
           Busy(v) /\ work'[v].token = work[v].token /\ work'[v].claimed = work[v].claimed
    BY <1>1 DEF Busy
  <1>4. TokensTellClaimsApart'
    <2>1. job'.token <= lastToken
      BY DEF MergeInv, Shapes, TokensTellClaimsApart
    <2> QED BY <1>3, <2>1 DEF MergeInv, TokensTellClaimsApart
  <1>5. ChangesAreEdits'
    BY <1>3 DEF MergeInv, TokensTellClaimsApart, ChangesAreEdits
  <1> QED BY <1>2, <1>4, <1>5 DEF MergeInv

\* A claim draws a token of its own and captures the fields as they stand.
LEMMA ClaimKeeps ==
    ASSUME MergeInv, NEW w \in Workers, ClaimJob(w)
    PROVE  MergeInv'
  <1> DEFINE t == lastToken + 1
             x == [stage |-> "fetching", token |-> t, claimed |-> field]
  <1>1. /\ lastToken' = t /\ work' = [work EXCEPT ![w] = x]
        /\ job' = [status |-> "processing", token |-> t, live |-> TRUE]
        /\ edits' = [edits EXCEPT ![w] = [f \in Fields |-> 0]]
        /\ field' = field
    BY DEF ClaimJob
  <1>2. x.token = t /\ x.claimed = field /\ x # Idle
    <2>1. x.stage # Idle.stage
      BY DEF Idle
    <2> QED BY <2>1
  <1>3. t \in Nat /\ t # 0 /\ lastToken <= t /\ lastToken # t /\ lastToken \in Nat
    BY DEF MergeInv, Shapes
  <1> HIDE DEF x
  <1>4. work'[w] = x /\ \A v \in Workers \ {w} : work'[v] = work[v]
    BY <1>1 DEF MergeInv, Shapes
  <1>5. job'.token = t /\ job' \in [status : {"pending", "processing", "ok", "failed"},
                                    token : Nat, live : BOOLEAN]
    BY <1>1, <1>3
  <1>6. /\ edits' \in [Workers -> [Fields -> Nat]]
        /\ \A f \in Fields : edits'[w][f] = 0
    BY <1>1 DEF MergeInv, Shapes
  <1>7. Shapes'
    <2>1. work' = [v \in Workers |-> work'[v]]
      BY <1>1 DEF MergeInv, Shapes
    <2> QED BY <1>1, <1>3, <1>5, <1>6, <2>1 DEF Shapes
  <1>8. \A v \in Workers \ {w} : Busy(v)' =>
           /\ Busy(v) /\ work'[v] = work[v]
           /\ work[v].token \in Nat /\ work[v].token # 0
           /\ work[v].token <= lastToken /\ work[v].token # t
    <2> TAKE v \in Workers \ {w}
    <2>1. work'[v] = work[v]
      BY <1>4
    <2>2. Busy(v) => work[v].token \in Nat /\ work[v].token # 0 /\ work[v].token <= lastToken
      BY DEF MergeInv, TokensTellClaimsApart
    <2> QED BY <1>3, <2>1, <2>2 DEF Busy
  <1>9. TokensTellClaimsApart'
    BY <1>1, <1>2, <1>3, <1>4, <1>5, <1>8 DEF MergeInv, TokensTellClaimsApart
  <1>10. ChangesAreEdits'
    BY <1>1, <1>2, <1>4, <1>5, <1>6, <1>8 DEF ChangesAreEdits
  <1> QED BY <1>7, <1>9, <1>10 DEF MergeInv

\* A loop that fetches, saves or gives up stays within its claim.
LEMMA LoopKeeps ==
    ASSUME MergeInv, NEW w \in Workers, Fetch(w) \/ CompleteEnrichment(w) \/ Fail(w)
    PROVE  MergeInv'
  <1>1. job \in [status : {"pending", "processing", "ok", "failed"}, token : Nat,
                 live : BOOLEAN]
    BY DEF MergeInv, Shapes
  <1>2. Busy(w)
    BY DEF Fetch, CompleteEnrichment, Fail, Busy, Idle
  <1>3. CASE Fetch(w)
    <2>1. PICK result :
             work' = [work EXCEPT ![w] = [stage |-> "saving", token |-> work[w].token,
                                          claimed |-> work[w].claimed, result |-> result]]
      BY <1>3 DEF Fetch
    <2> DEFINE x == [stage |-> "saving", token |-> work[w].token,
                     claimed |-> work[w].claimed, result |-> result]
    <2>2. x # Idle /\ x.token = work[w].token /\ x.claimed = work[w].claimed
      <3>1. x.stage # Idle.stage
        BY DEF Idle
      <3> QED BY <3>1
    <2>3. work' = [work EXCEPT ![w] = x]
      BY <2>1
    <2>4. job' = job /\ lastToken' = lastToken /\ edits' = edits /\ field' = field
      BY <1>3 DEF Fetch
    <2> HIDE DEF x
    <2> QED BY <1>1, <1>2, <2>2, <2>3, <2>4, SameClaim
  <1>4. CASE CompleteEnrichment(w)
    <2>1. work' = [work EXCEPT ![w] = Idle] /\ lastToken' = lastToken /\ edits' = edits
      BY <1>4 DEF CompleteEnrichment
    <2>2. \/ job' = [status |-> "ok", token |-> 0, live |-> FALSE]
          \/ job' = job /\ field' = field
      BY <1>4 DEF CompleteEnrichment
    <2>3. CASE job' = [status |-> "ok", token |-> 0, live |-> FALSE]
      BY <2>1, <2>3, SameClaim
    <2>4. CASE job' = job /\ field' = field
      BY <1>1, <2>1, <2>4, SameClaim
    <2> QED BY <2>2, <2>3, <2>4
  <1>5. CASE Fail(w)
    <2>1. /\ work' = [work EXCEPT ![w] = Idle] /\ lastToken' = lastToken
          /\ edits' = edits /\ field' = field
          /\ job' = [status |-> "failed", token |-> 0, live |-> FALSE] \/ job' = job
      BY <1>5 DEF Fail
    <2>2. CASE job' = [status |-> "failed", token |-> 0, live |-> FALSE]
      BY <2>1, <2>2, SameClaim
    <2>3. CASE job' = job
      BY <1>1, <2>1, <2>3, SameClaim
    <2> QED BY <2>1, <2>2, <2>3
  <1> QED BY <1>3, <1>4, <1>5

\* An edit is counted for every claim, and changes each field that it touches.
LEMMA EditKeeps ==
    ASSUME MergeInv, Edit
    PROVE  MergeInv'
  <1>1. PICK changed \in SUBSET Fields \ {{}}, new \in Choices(Edits) :
           /\ \A f \in changed : new[f] # field[f]
           /\ field' = [f \in Fields |-> IF f \in changed THEN new[f] ELSE field[f]]
           /\ edits' = [w \in Workers |-> [f \in Fields |->
                         edits[w][f] + (IF f \in changed THEN 1 ELSE 0)]]
    BY DEF Edit
  <1>2. work' = work /\ job' = job /\ lastToken' = lastToken
    BY DEF Edit
  <1>3. \A w \in Workers, f \in Fields : edits[w][f] \in Nat
    BY DEF MergeInv, Shapes
  <1>4. edits' \in [Workers -> [Fields -> Nat]]
    BY <1>1, <1>3
  <1>5. Shapes'
    BY <1>2, <1>4 DEF MergeInv, Shapes
  <1>6. TokensTellClaimsApart'
    BY <1>2 DEF MergeInv, TokensTellClaimsApart, Busy
  <1>7. ASSUME NEW w \in Workers, Busy(w), job.token = work[w].token, NEW f \in Fields
        PROVE  /\ edits'[w][f] = 0 => field'[f] = work[w].claimed[f]
               /\ edits'[w][f] = 1 => field'[f] # work[w].claimed[f]
    <2>1. /\ edits[w][f] = 0 => field[f] = work[w].claimed[f]
          /\ edits[w][f] = 1 => field[f] # work[w].claimed[f]
      BY <1>7 DEF MergeInv, ChangesAreEdits
    <2>2. CASE f \in changed
      <3>1. edits'[w][f] = edits[w][f] + 1 /\ field'[f] = new[f] /\ new[f] # field[f]
        BY <1>1, <2>2
      <3>2. edits'[w][f] # 0 /\ (edits'[w][f] = 1 => edits[w][f] = 0)
        BY <1>3, <3>1
      <3> QED BY <2>1, <3>1, <3>2
    <2>3. CASE f \notin changed
      <3>1. edits'[w][f] = edits[w][f] + 0 /\ field'[f] = field[f]
        BY <1>1, <2>3
      <3>2. edits'[w][f] = edits[w][f]
        BY <1>3, <3>1
      <3> QED BY <2>1, <3>1, <3>2
    <2> QED BY <2>2, <2>3
  <1>8. ChangesAreEdits'
    BY <1>2, <1>7 DEF ChangesAreEdits, Busy
  <1> QED BY <1>5, <1>6, <1>8 DEF MergeInv

\* A lease that lapses, a refresh or a summary takes the job from its claim or leaves it.
LEMMA OthersKeep ==
    ASSUME MergeInv, LeaseLapses \/ ResetEnrichment \/ Summarize \/ UNCHANGED vars
    PROVE  MergeInv'
  <1>1. work' = work /\ lastToken' = lastToken /\ edits' = edits /\ field' = field
    BY DEF LeaseLapses, ResetEnrichment, Summarize, vars
  <1>2. job \in [status : {"pending", "processing", "ok", "failed"}, token : Nat,
                 live : BOOLEAN]
    BY DEF MergeInv, Shapes
  <1>3. /\ job' \in [status : {"pending", "processing", "ok", "failed"}, token : Nat,
                     live : BOOLEAN]
        /\ job'.token = job.token \/ job'.token = 0
    <2>1. CASE LeaseLapses
      BY <1>2, <2>1 DEF LeaseLapses
    <2>2. CASE ResetEnrichment
      BY <2>2 DEF ResetEnrichment
    <2>3. CASE Summarize \/ UNCHANGED vars
      BY <1>2, <2>3 DEF Summarize, vars
    <2> QED BY <2>1, <2>2, <2>3
  <1>4. Shapes'
    BY <1>1, <1>3 DEF MergeInv, Shapes
  <1>5. TokensTellClaimsApart'
    <2>1. job'.token <= lastToken
      BY <1>3 DEF MergeInv, Shapes, TokensTellClaimsApart
    <2> QED BY <1>1, <2>1 DEF MergeInv, TokensTellClaimsApart, Busy
  <1>6. ChangesAreEdits'
    <2>1. \A w \in Workers : Busy(w) => work[w].token # 0
      BY DEF MergeInv, TokensTellClaimsApart
    <2> QED BY <1>1, <1>3, <2>1 DEF MergeInv, ChangesAreEdits, Busy
  <1> QED BY <1>4, <1>5, <1>6 DEF MergeInv

\* Tokens tell claims apart, and edits are the only changes under the current claim.
THEOREM MergeInductive == Spec => []MergeInv
  <1>1. MergeInv /\ [Next]_vars => MergeInv'
    BY ClaimKeeps, LoopKeeps, EditKeeps, OthersKeep DEF Next
  <1> QED BY MergeInit, <1>1, PTL DEF Spec

\* The step that saves a result is CompleteEnrichment under the current claim.
LEMMA SavingStep ==
    ASSUME MergeInv, [Next]_vars, NEW w \in Workers, Saves(w)
    PROVE  /\ Busy(w) /\ job.token = work[w].token
           /\ field' = Merged(w)
  <1>1. work[w].stage = "saving" /\ source' # source /\ source' = work[w].token
    BY DEF Saves
  <1>2. PICK v \in Workers : CompleteEnrichment(v)
    BY <1>1 DEF Next, ClaimJob, Fetch, Fail, Edit, LeaseLapses, ResetEnrichment, Summarize, vars
  <1>3. Current(v) /\ field' = Merged(v) /\ source' = work[v].token /\ work[v].stage = "saving"
    BY <1>1, <1>2 DEF CompleteEnrichment
  <1>4. Busy(v) /\ Busy(w)
    BY <1>1, <1>3 DEF Busy, Idle
  <1>5. v = w
    BY <1>1, <1>3, <1>4 DEF MergeInv, TokensTellClaimsApart
  <1> QED BY <1>3, <1>4, <1>5 DEF Current

\* A field that was edited once while the job ran is as the user left it when
\* CompleteEnrichment has saved, whatever the page said and however often it was claimed.
THEOREM EditKept == Spec => SingleEditIsKept
  <1>1. ASSUME MergeInv, [Next]_vars, NEW w \in Workers, NEW f \in Fields,
               Saves(w), edits[w][f] = 1
        PROVE  field'[f] = field[f]
    <2>1. /\ Busy(w) /\ job.token = work[w].token
          /\ field' = Merged(w)
      BY <1>1, SavingStep
    <2>2. field[f] # work[w].claimed[f]
      BY <1>1, <2>1 DEF MergeInv, ChangesAreEdits
    <2> QED BY <2>1, <2>2 DEF Merged, Merge
  <1>2. MergeInv /\ [Next]_vars =>
           \A w \in Workers, f \in Fields :
              Saves(w) /\ edits[w][f] = 1 => field'[f] = field[f]
    BY <1>1
  <1> QED BY MergeInductive, <1>2, PTL DEF Spec, SingleEditIsKept

\* A field that was blank at the claim and is untouched gets the answer of that claim.
THEOREM BlankFilled == Spec => BlankFieldsAreFilled
  <1>1. ASSUME MergeInv, [Next]_vars, NEW w \in Workers, NEW f \in Fields,
               Saves(w), edits[w][f] = 0, field[f] \in Blank(f)
        PROVE  field'[f] = work[w].result[f]
    <2>1. /\ Busy(w) /\ job.token = work[w].token
          /\ field' = Merged(w)
      BY <1>1, SavingStep
    <2>2. field[f] = work[w].claimed[f]
      BY <1>1, <2>1 DEF MergeInv, ChangesAreEdits
    <2> QED BY <1>1, <2>1, <2>2 DEF Merged, Merge
  <1>2. MergeInv /\ [Next]_vars =>
           \A w \in Workers, f \in Fields :
              Saves(w) /\ edits[w][f] = 0 /\ field[f] \in Blank(f)
                 => field'[f] = work[w].result[f]
    BY <1>1
  <1> QED BY MergeInductive, <1>2, PTL DEF Spec, BlankFieldsAreFilled

-----------------------------------------------------------------------------
(* The types.  Only here do the values of the fields count.                *)

\* The types, and what a loop that is about to save holds.
TypeInv ==
    /\ TypeOK /\ lastToken \in Nat /\ work = [w \in Workers |-> work[w]]
    /\ \A w \in Workers : work[w].stage = "saving" =>
          \A f \in Fields : work[w].result[f] \in Values(f)

\* Answers and edits are values that the fields may have.
LEMMA ChoiceOfValues ==
    ASSUME NEW g
    PROVE  /\ g \in Choices(Values) <=>
                 g = [f \in Fields |-> g[f]] /\ \A f \in Fields : g[f] \in Values(f)
           /\ g \in Choices(Answers) => \A f \in Fields : g[f] \in Values(f)
           /\ g \in Choices(Edits) => \A f \in Fields : g[f] \in Values(f)
  <1>1. \A f \in Fields : Answers(f) \subseteq Values(f) /\ Edits(f) \subseteq Values(f)
    BY DEF Answers, Edits, Values
  <1>2. g \in Choices(Answers) => \A f \in Fields : g[f] \in Answers(f)
    BY DEF Choices
  <1>3. g \in Choices(Edits) => \A f \in Fields : g[f] \in Edits(f)
    BY DEF Choices
  <1>4. ASSUME g \in Choices(Values)
        PROVE  g = [f \in Fields |-> g[f]] /\ \A f \in Fields : g[f] \in Values(f)
    BY <1>4 DEF Choices
  <1>5. ASSUME g = [f \in Fields |-> g[f]], \A f \in Fields : g[f] \in Values(f)
        PROVE  g \in Choices(Values)
    <2>1. g \in [Fields -> UNION {Values(f) : f \in Fields}]
      BY <1>5
    <2> QED BY <1>5, <2>1 DEF Choices
  <1> QED BY <1>1, <1>2, <1>3, <1>4, <1>5

\* The columns of the job.
JobRows == [status : {"pending", "processing", "ok", "failed"}, token : 0..lastToken,
            live : BOOLEAN]

\* What TypeInv says, conjunct by conjunct.
LEMMA TypeFacts ==
    ASSUME TypeInv
    PROVE  /\ \A f \in Fields : field[f] \in Values(f)
           /\ field \in Choices(Values) /\ source \in 0..lastToken /\ job \in JobRows
           /\ lastToken \in Nat /\ work = [w \in Workers |-> work[w]]
           /\ \A w \in Workers : work[w].stage # "idle" =>
                 work[w].token \in 1..lastToken /\ work[w].claimed \in Choices(Values)
           /\ \A w \in Workers : work[w].stage = "saving" =>
                 \A f \in Fields : work[w].result[f] \in Values(f)
  BY ChoiceOfValues DEF TypeInv, TypeOK, JobRows

\* The types hold at first.
LEMMA TypesInit == Init => TypeInv
  <1> SUFFICES ASSUME Init PROVE TypeInv
    OBVIOUS
  <1>1. field \in Choices(Values)
    <2>1. field = [f \in Fields |-> field[f]] /\ \A f \in Fields : field[f] \in Values(f)
      BY DEF Init, Values
    <2> QED BY <2>1, ChoiceOfValues
  <1>2. \A w \in Workers : work[w].stage = "idle"
    BY DEF Init, Idle
  <1>3. source \in 0..lastToken /\ lastToken \in Nat /\ work = [w \in Workers |-> work[w]]
    BY DEF Init
  <1>4. job \in [status : {"pending", "processing", "ok", "failed"}, token : 0..lastToken,
                 live : BOOLEAN]
    BY DEF Init
  <1> QED BY <1>1, <1>2, <1>3, <1>4 DEF TypeInv, TypeOK

\* The job is released without a token.
LEMMA SettledRow ==
    ASSUME lastToken \in Nat, NEW s \in {"pending", "processing", "ok", "failed"}
    PROVE  [status |-> s, token |-> 0, live |-> FALSE] \in JobRows
  BY DEF JobRows

\* A lease that lapses leaves status and token as they are.
LEMMA LapsedRow ==
    ASSUME job \in JobRows
    PROVE  [job EXCEPT !.live = FALSE] \in JobRows
  BY DEF JobRows

\* A loop moves: its next stage has what that stage is to know.
LEMMA LoopTypes ==
    ASSUME TypeInv, NEW w \in Workers, NEW x, work' = [work EXCEPT ![w] = x],
           lastToken' \in Nat, lastToken <= lastToken',
           x.stage # "idle" => x.token \in 1..lastToken' /\ x.claimed \in Choices(Values),
           x.stage = "saving" => \A f \in Fields : x.result[f] \in Values(f),
           field' \in Choices(Values), source' \in 0..lastToken', job' \in JobRows'
    PROVE  TypeInv'
  <1>1. work'[w] = x /\ \A v \in Workers \ {w} : work'[v] = work[v]
    BY DEF TypeInv
  <1>2. work' = [v \in Workers |-> work'[v]]
    BY DEF TypeInv
  <1>3. 1..lastToken \subseteq 1..lastToken'
    BY DEF TypeInv
  <1>4. \A v \in Workers : work'[v].stage # "idle" =>
           work'[v].token \in 1..lastToken' /\ work'[v].claimed \in Choices(Values)
    <2> TAKE v \in Workers
    <2>1. CASE v = w
      BY <1>1, <2>1
    <2>2. CASE v # w
      BY <1>1, <1>3, <2>2, TypeFacts
    <2> QED BY <2>1, <2>2
  <1>5. \A v \in Workers : work'[v].stage = "saving" =>
           \A f \in Fields : work'[v].result[f] \in Values(f)
    <2> TAKE v \in Workers
    <2>1. CASE v = w
      BY <1>1, <2>1
    <2>2. CASE v # w
      BY <1>1, <2>2, TypeFacts
    <2> QED BY <2>1, <2>2
  <1> QED BY <1>2, <1>4, <1>5 DEF TypeInv, TypeOK, JobRows

\* No loop moves.
LEMMA EndTypes ==
    ASSUME TypeInv, NEW w \in Workers, work' = [work EXCEPT ![w] = Idle],
           lastToken' = lastToken,
           field' \in Choices(Values), source' \in 0..lastToken, job' \in JobRows
    PROVE  TypeInv'
  <1>1. lastToken' \in Nat /\ lastToken <= lastToken'
    BY TypeFacts
  <1>2. Idle.stage = "idle"
    BY DEF Idle
  <1>3. job' \in JobRows' /\ source' \in 0..lastToken'
    BY DEF JobRows
  <1>4. Idle.stage # "saving"
    BY <1>2
  <1> QED BY <1>1, <1>2, <1>3, <1>4, LoopTypes

\* What changes the fields and the job, and no loop.
LEMMA FieldTypes ==
    ASSUME TypeInv, work' = work, lastToken' = lastToken, source' = source,
           field' \in Choices(Values), job' \in JobRows
    PROVE  TypeInv'
  BY DEF TypeInv, TypeOK, JobRows

\* Every step of the loops, the user and the clock keeps the types.
LEMMA TypesStep == TypeInv /\ [Next]_vars => TypeInv'
  <1> SUFFICES ASSUME TypeInv, [Next]_vars PROVE TypeInv'
    OBVIOUS
  <1>1. /\ \A f \in Fields : field[f] \in Values(f)
        /\ field \in Choices(Values) /\ source \in 0..lastToken /\ job \in JobRows
        /\ lastToken \in Nat
    BY TypeFacts
  <1>3. /\ [status |-> "pending", token |-> 0, live |-> FALSE] \in JobRows
        /\ [status |-> "ok", token |-> 0, live |-> FALSE] \in JobRows
        /\ [status |-> "failed", token |-> 0, live |-> FALSE] \in JobRows
        /\ [job EXCEPT !.live = FALSE] \in JobRows
    BY <1>1, SettledRow, LapsedRow
  <1>4. ASSUME NEW w \in Workers, ClaimJob(w) PROVE TypeInv'
    <2> DEFINE t == lastToken + 1
               x == [stage |-> "fetching", token |-> t, claimed |-> field]
    <2>1. /\ lastToken' = t /\ work' = [work EXCEPT ![w] = x]
          /\ job' = [status |-> "processing", token |-> t, live |-> TRUE]
          /\ field' = field /\ source' = source
      BY <1>4 DEF ClaimJob
    <2>2. /\ t \in Nat /\ lastToken <= t /\ t \in 1..t /\ t \in 0..t
          /\ 0..lastToken \subseteq 0..t
      BY <1>1
    <2>3. x.stage = "fetching" /\ x.token = t /\ x.claimed = field
      OBVIOUS
    <2> HIDE DEF x
    <2>4. job' \in JobRows'
      BY <2>1, <2>2 DEF JobRows
    <2> HIDE DEF t
    <2>5. /\ lastToken' \in Nat /\ lastToken <= lastToken'
          /\ field' \in Choices(Values) /\ source' \in 0..lastToken'
          /\ x.token \in 1..lastToken' /\ x.claimed \in Choices(Values) /\ x.stage # "saving"
      BY <1>1, <2>1, <2>2, <2>3
    <2> QED BY <2>1, <2>4, <2>5, LoopTypes
  <1>5. ASSUME NEW w \in Workers, Fetch(w) PROVE TypeInv'
    <2>1. PICK result \in Choices(Answers) :
             work' = [work EXCEPT ![w] = [stage |-> "saving", token |-> work[w].token,
                                          claimed |-> work[w].claimed, result |-> result]]
      BY <1>5 DEF Fetch
    <2> DEFINE x == [stage |-> "saving", token |-> work[w].token,
                     claimed |-> work[w].claimed, result |-> result]
    <2>2. /\ work[w].stage = "fetching" /\ field' = field /\ source' = source /\ job' = job
          /\ lastToken' = lastToken
      BY <1>5 DEF Fetch
    <2>3. work[w].token \in 1..lastToken /\ work[w].claimed \in Choices(Values)
      BY <2>2, TypeFacts
    <2>4. \A f \in Fields : result[f] \in Values(f)
      BY ChoiceOfValues
    <2>5. /\ x.token \in 1..lastToken /\ x.claimed \in Choices(Values)
          /\ \A f \in Fields : x.result[f] \in Values(f)
      BY <2>3, <2>4
    <2>6. work' = [work EXCEPT ![w] = x]
      BY <2>1
    <2> HIDE DEF x
    <2>7. job' \in JobRows'
      BY <1>1, <2>2 DEF JobRows
    <2>8. /\ lastToken' \in Nat /\ lastToken <= lastToken'
          /\ field' \in Choices(Values) /\ source' \in 0..lastToken'
          /\ x.token \in 1..lastToken'
      BY <1>1, <2>2, <2>5
    <2> QED BY <2>5, <2>6, <2>7, <2>8, LoopTypes
  <1>6. ASSUME NEW w \in Workers, CompleteEnrichment(w) PROVE TypeInv'
    <2>1. /\ work' = [work EXCEPT ![w] = Idle] /\ lastToken' = lastToken
          /\ work[w].stage = "saving"
      BY <1>6 DEF CompleteEnrichment
    <2>2. Merged(w) \in Choices(Values)
      <3>1. \A f \in Fields : Merged(w)[f] \in Values(f)
        BY <1>1, <2>1, TypeFacts DEF Merged, Merge
      <3>2. Merged(w) = [f \in Fields |-> Merged(w)[f]]
        BY DEF Merged
      <3> QED BY <3>1, <3>2, ChoiceOfValues
    <2>3. work[w].token \in 0..lastToken
      <3>1. work[w].token \in 1..lastToken
        BY <2>1, TypeFacts
      <3> QED BY <1>1, <3>1
    <2>4. field' \in Choices(Values) /\ source' \in 0..lastToken /\ job' \in JobRows
      BY <1>1, <1>3, <1>6, <2>2, <2>3 DEF CompleteEnrichment
    <2> QED BY <2>1, <2>4, EndTypes
  <1>7. ASSUME NEW w \in Workers, Fail(w) PROVE TypeInv'
    <2>1. /\ work' = [work EXCEPT ![w] = Idle] /\ lastToken' = lastToken
          /\ field' = field /\ source' = source /\ job' \in JobRows
      BY <1>1, <1>3, <1>7 DEF Fail
    <2>2. field' \in Choices(Values) /\ source' \in 0..lastToken
      BY <1>1, <2>1
    <2> QED BY <2>1, <2>2, EndTypes
  <1>8. CASE Edit
    <2>1. PICK changed \in SUBSET Fields \ {{}}, new \in Choices(Edits) :
             field' = [f \in Fields |-> IF f \in changed THEN new[f] ELSE field[f]]
      BY <1>8 DEF Edit
    <2>2. \A f \in Fields : new[f] \in Values(f)
      BY ChoiceOfValues
    <2>3. field' \in Choices(Values)
      <3>1. field' = [f \in Fields |-> field'[f]] /\ \A f \in Fields : field'[f] \in Values(f)
        BY <1>1, <2>1, <2>2
      <3> QED BY <3>1, ChoiceOfValues
    <2>4. work' = work /\ lastToken' = lastToken /\ source' = source /\ job' = job
      BY <1>8 DEF Edit
    <2> QED BY <1>1, <2>3, <2>4, FieldTypes
  <1>9. CASE LeaseLapses \/ ResetEnrichment \/ Summarize \/ UNCHANGED vars
    <2>1. /\ work' = work /\ lastToken' = lastToken /\ source' = source /\ field' = field
          /\ job' \in JobRows
      BY <1>1, <1>3, <1>9 DEF LeaseLapses, ResetEnrichment, Summarize, vars
    <2> QED BY <1>1, <2>1, FieldTypes
  <1> QED BY <1>4, <1>5, <1>6, <1>7, <1>8, <1>9 DEF Next

\* The columns hold values that an enricher, a form or the migration can leave, and
\* every claim captured such values.
THEOREM TypeCorrect == Spec => []TypeOK
  <1>1. TypeInv => TypeOK
    BY DEF TypeInv
  <1> QED BY TypesInit, TypesStep, <1>1, PTL DEF Spec
=============================================================================
