--------------------------- MODULE JobLeaseProofs ---------------------------
(* Theorems about JobLease, for any replicas, entries and event limits.    *)
EXTENDS JobLease, TLAPS

(* The types hold because every row, claim and abandoned statement is      *)
(* built from tokens already drawn and from the statuses of the code.      *)
LEMMA TypeInit == Init => TypeOK
  <1> SUFFICES ASSUME Init PROVE TypeOK
    OBVIOUS
  <1> USE ConstantsOK DEF Jobs, Loops
  <1>1. job \in [Jobs -> [status : Statuses, token : Nat, lease : Leases]]
    <2>1. \A e \in Entries, k \in Kinds, start \in {"new", "enriching", "summarizing"} :
             FirstState(e, k, start) \in [status : Statuses, token : Nat, lease : Leases]
      BY DEF FirstState, Unleased, Statuses, Outcomes, Leases, NoToken, Entries
    <2>2. PICK start \in [Entries -> {"new", "enriching", "summarizing"}] :
             job = [j \in Jobs |-> FirstState(j[2], j[1], start[j[2]])]
      BY DEF Init
    <2>3. ASSUME NEW j \in Jobs
          PROVE  /\ j[1] \in Kinds /\ j[2] \in Entries
                 /\ start[j[2]] \in {"new", "enriching", "summarizing"}
      OBVIOUS
    <2> QED
      BY <2>1, <2>2, <2>3
  <1>2. claim \in [Loops -> [entry : Entries \cup {0}, token : Nat, want : Statuses]]
    BY DEF Init, NoClaim, NoToken, Statuses
  <1> QED
    BY <1>1, <1>2 DEF Init, TypeOK, Statuses, Outcomes, Entries, NoToken, Events, Kinds

(* A loop that takes up a write holds a statement of the right type.       *)
LEMMA CarryType ==
  ASSUME TypeOK, NEW l \in Loops, NEW stage \in Busy, NEW s \in Statuses, Carry(l, stage, s)
  PROVE  /\ pc' \in [Loops -> Busy \cup {"idle", "done"}]
         /\ claim' \in [Loops -> [entry : Entries \cup {0}, token : Nat, want : Statuses]]
  BY DEF TypeOK, Carry

(* A loop that drops its claim holds no token and goes back to its ticker. *)
LEMMA LeaveType ==
  ASSUME TypeOK, NEW l \in Loops, NEW stage \in {"idle", "done"}, LeaveClaim(l, stage)
  PROVE  /\ pc' \in [Loops -> Busy \cup {"idle", "done"}]
         /\ claim' \in [Loops -> [entry : Entries \cup {0}, token : Nat, want : Statuses]]
  BY DEF TypeOK, LeaveClaim, NoClaim, NoToken, Statuses

(* Spending an event keeps the counts of events within their bounds.       *)
LEMMA SpendType ==
  ASSUME used \in [Events -> Nat], NEW ev \in Events, Spend(ev)
  PROVE  used' \in [Events -> Nat]
  BY DEF Spend

(* A row without its lease is a row.                                       *)
LEMMA UnleasedType ==
  ASSUME NEW s \in Statuses
  PROVE  Unleased(s) \in [status : Statuses, token : Nat, lease : Leases]
  BY DEF Unleased, Leases, NoToken

(* A guarded UPDATE, and below a revocation, leaves a row and a history of *)
(* the right types.                                                        *)
LEMMA RecordType ==
  ASSUME TypeOK, NEW j \in Jobs, NEW t \in Nat, NEW s \in Statuses, RecordStatus(j, t, s)
  PROVE  /\ job' \in [Jobs -> [status : Statuses, token : Nat, lease : Leases]]
         /\ lastWrite' \in [Jobs -> Nat]
  BY UnleasedType DEF TypeOK, RecordStatus

(* A revocation keeps the type of every variable.                          *)
LEMMA RevokeType ==
  ASSUME TypeOK, NEW j \in Jobs, NEW s \in Statuses, Revoke(j, s), used' \in [Events -> Nat]
  PROVE  TypeOK'
  BY UnleasedType DEF TypeOK, Revoke

(* A statement on its way names a job, a token and a status.               *)
LEMMA StatementType ==
  ASSUME TypeOK, NEW l \in Loops, claim[l].entry \in Entries
  PROVE  StatementOf(l) \in [job : Jobs, token : Nat, want : Statuses]
  BY DEF TypeOK, StatementOf, JobOf, Jobs, Loops

-----------------------------------------------------------------------------
(* One lemma for each way in which a step changes a loop or a row follows. *)

(* Taking up a write changes the stage of one loop and nothing else of     *)
(* what the invariant speaks of: its claim and token stay with the loop.   *)
LEMMA CarryStep ==
  ASSUME IInv, NEW l \in Loops, pc[l] \in Busy,
         NEW stage \in Busy, NEW s \in Statuses, stage \in Writing => s # "none",
         Carry(l, stage, s), RowsUnchanged, used' \in [Events -> Nat],
         \/ inflight' = inflight
         \/ pc[l] \in Writing /\ inflight' = inflight \cup {StatementOf(l)}
  PROVE  IInv'
  <1> USE DEF IInv
  <1>1. StatementOf(l).token # NoToken /\ StatementOf(l).token <= lastToken
        /\ (pc[l] \in Writing => StatementOf(l).want # "none")
        /\ StatementOf(l) \in [job : Jobs, token : Nat, want : Statuses]
    BY StatementType DEF LoopsHaveClaims, StatementOf
  <1>2. TypeOK'
    BY <1>1, CarryType DEF TypeOK, RowsUnchanged
  <1>3. LoopsHaveClaims'
    <2>1. \A m \in Loops : /\ claim'[m].token = claim[m].token
                           /\ claim'[m].entry = claim[m].entry
                           /\ m # l => claim'[m] = claim[m] /\ pc'[m] = pc[m]
      BY DEF TypeOK, Carry
    <2>2. pc'[l] = stage /\ claim'[l].want = s
      BY DEF TypeOK, Carry
    <2> QED
      BY <2>1, <2>2 DEF LoopsHaveClaims, RowsUnchanged
  <1>4. StatementsHaveTokens'
    BY <1>1 DEF StatementsHaveTokens, RowsUnchanged
  <1>5. RowsHaveYoungTokens' /\ RowsAreConsistent'
    BY DEF RowsHaveYoungTokens, RowsAreConsistent, RowsUnchanged
  <1> QED
    BY <1>2, <1>3, <1>4, <1>5

\* LeaveClaim only takes a claim away from the loop.
LEMMA LeaveLoops ==
  ASSUME TypeOK, LoopsHaveClaims, NEW l \in Loops, NEW stage \in {"idle", "done"},
         LeaveClaim(l, stage), lastToken' = lastToken
  PROVE  LoopsHaveClaims'
  <1>1. \A m \in Loops \ {l} : claim'[m] = claim[m] /\ pc'[m] = pc[m]
    BY DEF TypeOK, LeaveClaim
  <1>2. claim'[l] = NoClaim /\ pc'[l] \in {"idle", "done"}
    BY DEF TypeOK, LeaveClaim
  <1>3. NoClaim.token = NoToken /\ 0 <= lastToken
    BY DEF NoClaim, TypeOK
  <1>4. pc'[l] \notin Busy /\ pc'[l] \notin Writing
    BY <1>2 DEF Busy, Writing
  <1>5. \A m \in Loops :
          /\ claim'[m].token <= lastToken'
          /\ pc'[m] \in Busy => claim'[m].token # NoToken /\ claim'[m].entry \in Entries
          /\ pc'[m] \in Writing => claim'[m].want # "none"
    BY <1>1, <1>2, <1>3, <1>4 DEF LoopsHaveClaims, NoToken
  <1>6. \A m, n \in Loops :
          claim'[m].token = claim'[n].token /\ claim'[m].token # NoToken => m = n
    BY <1>1, <1>2, <1>3 DEF LoopsHaveClaims
  <1> QED
    BY <1>5, <1>6 DEF LoopsHaveClaims

(* A loop that leaves forgets its token; the tokens still held stay        *)
(* distinct.                                                               *)
LEMMA LeaveStep ==
  ASSUME IInv, NEW l \in Loops, NEW stage \in {"idle", "done"},
         LeaveClaim(l, stage), RowsUnchanged, used' \in [Events -> Nat],
         \/ inflight' = inflight
         \/ pc[l] \in Writing /\ inflight' = inflight \cup {StatementOf(l)}
  PROVE  IInv'
  <1> USE DEF IInv
  <1>1. pc[l] \in Writing => /\ StatementOf(l).token # NoToken
                             /\ StatementOf(l).token <= lastToken
                             /\ StatementOf(l).want # "none"
                             /\ StatementOf(l) \in [job : Jobs, token : Nat, want : Statuses]
    BY StatementType DEF LoopsHaveClaims, StatementOf, Busy, Writing
  <1>2. TypeOK'
    BY <1>1, LeaveType DEF TypeOK, RowsUnchanged
  <1>3. LoopsHaveClaims'
    BY LeaveLoops DEF RowsUnchanged
  <1>4. StatementsHaveTokens'
    BY <1>1 DEF StatementsHaveTokens, RowsUnchanged
  <1>5. RowsHaveYoungTokens' /\ RowsAreConsistent'
    BY DEF RowsHaveYoungTokens, RowsAreConsistent, RowsUnchanged
  <1> QED
    BY <1>2, <1>3, <1>4, <1>5

(* A save that fails carries an error status or leaves the claim to its    *)
(* lease.                                                                  *)
LEMMA SaveErrorStep ==
  ASSUME IInv, NEW l \in Loops, pc[l] \in Busy,
         SaveError(l), RowsUnchanged, used' \in [Events -> Nat],
         \/ inflight' = inflight
         \/ pc[l] \in Writing /\ inflight' = inflight \cup {StatementOf(l)}
  PROVE  IInv'
  <1>1. CASE stopping[l[1]]
    BY <1>1, CarryStep DEF SaveError, Busy, Writing, Statuses
  <1>2. CASE ~stopping[l[1]]
    BY <1>2, LeaveStep DEF SaveError
  <1> QED
    BY <1>1, <1>2

(* A guarded UPDATE writes the row only under the row's own token, which   *)
(* is younger than anything that wrote to it or revoked it before.         *)
LEMMA RecordRows ==
  ASSUME IInv, NEW j \in Jobs, NEW t \in Nat, t # NoToken, NEW s \in Statuses,
         s # "none", RecordStatus(j, t, s),
         UNCHANGED <<created, lastToken, revoked>>
  PROVE  RowsHaveYoungTokens' /\ RowsAreConsistent'
  <1> USE DEF IInv
  <1>1. CASE Current(j, t)
    <2>1. \A i \in Jobs \ {j} : job'[i] = job[i] /\ lastWrite'[i] = lastWrite[i]
      BY <1>1 DEF RecordStatus, TypeOK
    <2>2. job'[j] = Unleased(s) /\ lastWrite'[j] = t
      BY <1>1 DEF RecordStatus, TypeOK
    <2>3. t = job[j].token /\ job[j].status = "processing"
      BY <1>1 DEF Current
    <2>4. ~(j[2] > created)
      BY <2>3 DEF RowsAreConsistent
    <2>5. RowsHaveYoungTokens'
      BY <2>1, <2>2, <2>3 DEF RowsHaveYoungTokens, Unleased, NoToken, TypeOK
    <2>6. RowsAreConsistent'
      BY <2>1, <2>2, <2>4 DEF RowsAreConsistent, Unleased
    <2> QED
      BY <2>5, <2>6
  <1>2. CASE ~Current(j, t)
    BY <1>2 DEF RecordStatus, RowsHaveYoungTokens, RowsAreConsistent
  <1> QED
    BY <1>1, <1>2

(* A claim draws the next token, which nobody else has drawn, and puts it  *)
(* on the row and into one loop.                                           *)
LEMMA ClaimStep ==
  ASSUME IInv, NEW l \in Loops, ClaimJob(l)
  PROVE  IInv'
  <1> USE DEF IInv
  <1>1. PICK skipped \in SUBSET RowLocked, e \in Entries :
          /\ e \in Oldest(Eligible(l[2]) \ skipped)
          /\ job' = [job EXCEPT ![<<l[2], e>>] =
                        [status |-> "processing", token |-> lastToken + 1, lease |-> "live"]]
          /\ revoked' = [revoked EXCEPT ![<<l[2], e>>] = lastToken]
          /\ lastToken' = lastToken + 1
          /\ \/ /\ pc' = [pc EXCEPT ![l] = "running"]
                /\ claim' = [claim EXCEPT ![l] =
                                [entry |-> e, token |-> lastToken + 1, want |-> "none"]]
                /\ UNCHANGED used
             \/ /\ Spend("fault")
                /\ UNCHANGED <<pc, claim>>
    BY DEF ClaimJob
  <1> DEFINE j == <<l[2], e>>
  <1>2. UNCHANGED <<created, stopping, inflight, uncounted, lastWrite>>
    BY DEF ClaimJob
  <1>3. j \in Jobs /\ lastToken \in Nat
    BY DEF Jobs, Loops, TypeOK
  <1>4. job[j].status \in {"pending", "processing"}
    BY <1>1 DEF Oldest, Eligible
  <1>5. /\ job'[j] = [status |-> "processing", token |-> lastToken + 1, lease |-> "live"]
        /\ revoked'[j] = lastToken
        /\ \A i \in Jobs \ {j} : job'[i] = job[i] /\ revoked'[i] = revoked[i]
    BY <1>1, <1>3 DEF TypeOK
  <1>6. TypeOK'
    <2>1. job' \in [Jobs -> [status : Statuses, token : Nat, lease : Leases]]
          /\ revoked' \in [Jobs -> Nat]
      <3>1. [status |-> "processing", token |-> lastToken + 1, lease |-> "live"]
               \in [status : Statuses, token : Nat, lease : Leases]
        BY <1>3 DEF Statuses, Leases
      <3> QED
        BY <1>1, <1>3, <3>1 DEF TypeOK
    <2>2. /\ pc' \in [Loops -> Busy \cup {"idle", "done"}]
          /\ claim' \in [Loops -> [entry : Entries \cup {0}, token : Nat, want : Statuses]]
      <3>1. [entry |-> e, token |-> lastToken + 1, want |-> "none"]
               \in [entry : Entries \cup {0}, token : Nat, want : Statuses]
        BY <1>3 DEF Statuses
      <3>2. "running" \in Busy
        BY DEF Busy
      <3>3. /\ pc \in [Loops -> Busy \cup {"idle", "done"}]
            /\ claim \in [Loops -> [entry : Entries \cup {0}, token : Nat, want : Statuses]]
        BY DEF TypeOK
      <3>4. CASE /\ pc' = [pc EXCEPT ![l] = "running"]
                 /\ claim' = [claim EXCEPT ![l] =
                                 [entry |-> e, token |-> lastToken + 1, want |-> "none"]]
        BY <3>1, <3>2, <3>3, <3>4
      <3>5. CASE UNCHANGED <<pc, claim>>
        BY <3>3, <3>5
      <3> QED
        BY <1>1, <3>4, <3>5
    <2>3. used' \in [Events -> Nat]
      BY <1>1, SpendType DEF TypeOK, Events
    <2> QED
      BY <1>1, <1>2, <1>3, <2>1, <2>2, <2>3 DEF TypeOK
  <1>7. LoopsHaveClaims'
    <2>1. \A m \in Loops \ {l} : claim'[m] = claim[m] /\ pc'[m] = pc[m]
      BY <1>1 DEF TypeOK
    <2>2. \/ /\ pc'[l] = "running" /\ claim'[l].token = lastToken + 1
             /\ claim'[l].entry \in Entries
          \/ pc'[l] = pc[l] /\ claim'[l] = claim[l]
      BY <1>1 DEF TypeOK
    <2>3. "running" \notin Writing /\ lastToken + 1 # NoToken
      BY <1>3 DEF Writing, NoToken
    <2>4. \A m \in Loops : claim[m].token <= lastToken /\ claim[m].token \in Nat
      BY DEF LoopsHaveClaims, TypeOK
    <2>5. \A m \in Loops :
            /\ claim'[m].token <= lastToken'
            /\ pc'[m] \in Busy => claim'[m].token # NoToken /\ claim'[m].entry \in Entries
            /\ pc'[m] \in Writing => claim'[m].want # "none"
      BY <1>1, <1>3, <2>1, <2>2, <2>3, <2>4 DEF LoopsHaveClaims
    <2>6. \A m, n \in Loops :
            claim'[m].token = claim'[n].token /\ claim'[m].token # NoToken => m = n
      BY <1>3, <2>1, <2>2, <2>3, <2>4 DEF LoopsHaveClaims
    <2> QED
      BY <2>5, <2>6 DEF LoopsHaveClaims
  <1>8. StatementsHaveTokens'
    BY <1>1, <1>2, <1>3 DEF StatementsHaveTokens, TypeOK
  <1>9. RowsHaveYoungTokens'
    BY <1>1, <1>2, <1>3, <1>5 DEF RowsHaveYoungTokens, TypeOK, NoToken
  <1>10. RowsAreConsistent'
    BY <1>2, <1>4, <1>5 DEF RowsAreConsistent
  <1> QED
    BY <1>6, <1>7, <1>8, <1>9, <1>10

(* A write that answers changes the row only under the row's own token, and*)
(* the loop leaves the claim.                                              *)
LEMMA WriteAnswersStep ==
  ASSUME IInv, NEW l \in Loops, WriteAnswers(l)
  PROVE  IInv'
  <1> USE DEF IInv
  <1>1. /\ JobOf(l) \in Jobs /\ claim[l].token \in Nat /\ claim[l].token # NoToken
        /\ claim[l].want \in Statuses /\ claim[l].want # "none"
    BY DEF WriteAnswers, Writing, Busy, LoopsHaveClaims, TypeOK, JobOf, Jobs, Loops
  <1>2. /\ RecordStatus(JobOf(l), claim[l].token, claim[l].want)
        /\ LeaveClaim(l, "idle")
        /\ UNCHANGED <<created, lastToken, stopping, inflight, revoked, used>>
    BY DEF WriteAnswers
  <1>3. uncounted' \in [Kinds \X Outcomes -> Int]
    <2>1. \A x \in Kinds \X Outcomes :
            /\ Recorded(JobOf(l), claim[l].token, claim[l].want, x) \in Int
            /\ Counted(l, x) \in Int
            /\ uncounted[x] \in Int
      BY DEF Recorded, Counted, One, TypeOK
    <2> QED
      BY <2>1 DEF WriteAnswers
  <1>4. TypeOK'
    BY <1>1, <1>2, <1>3, RecordType, LeaveType DEF TypeOK
  <1>5. LoopsHaveClaims'
    BY <1>2, LeaveLoops
  <1>6. StatementsHaveTokens'
    BY <1>2 DEF StatementsHaveTokens
  <1>7. RowsHaveYoungTokens' /\ RowsAreConsistent'
    BY <1>1, <1>2, RecordRows
  <1> QED
    BY <1>4, <1>5, <1>6, <1>7

(* A statement that runs after its caller has gone obeys the same guard.   *)
LEMMA LateWriteStep ==
  ASSUME IInv, NEW x \in inflight, LateWrite(x)
  PROVE  IInv'
  <1> USE DEF IInv
  <1>1. /\ x.job \in Jobs /\ x.token \in Nat /\ x.token # NoToken
        /\ x.want \in Statuses /\ x.want # "none"
    BY DEF TypeOK, StatementsHaveTokens
  <1>2. /\ inflight' \subseteq inflight
        /\ UNCHANGED <<created, lastToken, pc, claim, stopping, revoked, used>>
    BY DEF LateWrite
  <1>3. \/ RecordStatus(x.job, x.token, x.want)
        \/ UNCHANGED <<job, lastWrite>>
    BY DEF LateWrite
  <1>4. uncounted' \in [Kinds \X Outcomes -> Int]
    <2>1. \A o \in Kinds \X Outcomes :
            Recorded(x.job, x.token, x.want, o) \in Int /\ uncounted[o] \in Int
      BY DEF Recorded, One, TypeOK
    <2> QED
      BY <2>1 DEF LateWrite, TypeOK
  <1>5. TypeOK'
    BY <1>1, <1>2, <1>3, <1>4, RecordType DEF TypeOK
  <1>6. LoopsHaveClaims' /\ StatementsHaveTokens'
    BY <1>2 DEF LoopsHaveClaims, StatementsHaveTokens
  <1>7. RowsHaveYoungTokens' /\ RowsAreConsistent'
    BY <1>1, <1>2, <1>3, RecordRows DEF RowsHaveYoungTokens, RowsAreConsistent
  <1> QED
    BY <1>5, <1>6, <1>7

(* A lease that lapses changes no token: its row only becomes claimable.   *)
LEMMA LeaseLapsesStep ==
  ASSUME IInv, NEW j \in Jobs, LeaseLapses(j)
  PROVE  IInv'
  <1> USE DEF IInv
  <1>1. /\ UNCHANGED <<created, lastToken, pc, claim, stopping, inflight, uncounted,
                      lastWrite, revoked>>
        /\ used' \in [Events -> Nat]
    BY SpendType DEF LeaseLapses, TypeOK, Events
  <1>2. /\ job'[j] = [job[j] EXCEPT !.lease = "expired"]
        /\ \A i \in Jobs \ {j} : job'[i] = job[i]
        /\ job' \in [Jobs -> [status : Statuses, token : Nat, lease : Leases]]
    BY DEF LeaseLapses, TypeOK, Leases
  <1>3. job[j].status = "processing" /\ job'[j].status = job[j].status
        /\ job'[j].token = job[j].token
    BY <1>2 DEF LeaseLapses, RowsAreConsistent, TypeOK
  <1>4. TypeOK'
    BY <1>1, <1>2 DEF TypeOK
  <1>5. RowsHaveYoungTokens' /\ RowsAreConsistent'
    BY <1>1, <1>2, <1>3 DEF RowsHaveYoungTokens, RowsAreConsistent
  <1>6. LoopsHaveClaims' /\ StatementsHaveTokens'
    BY <1>1 DEF LoopsHaveClaims, StatementsHaveTokens
  <1> QED
    BY <1>4, <1>5, <1>6

(* Telling a replica to stop touches neither rows nor claims.              *)
LEMMA ShutdownStep ==
  ASSUME IInv, NEW w \in Replicas, Shutdown(w)
  PROVE  IInv'
  <1>1. used' \in [Events -> Nat] /\ stopping' \in [Replicas -> BOOLEAN]
    BY SpendType DEF IInv, Shutdown, TypeOK, Events
  <1> QED
    BY <1>1 DEF IInv, Shutdown, TypeOK, LoopsHaveClaims, StatementsHaveTokens,
                RowsHaveYoungTokens, RowsAreConsistent

(* A crash drops the claims of one replica; what it had sent may be left   *)
(* as a late statement under its old token.                                *)
LEMMA CrashStep ==
  ASSUME IInv, NEW w \in Replicas, Crash(w)
  PROVE  IInv'
  <1> USE DEF IInv
  <1>1. UNCHANGED <<created, job, lastToken, uncounted, lastWrite, revoked>>
        /\ used' \in [Events -> Nat] /\ stopping' \in [Replicas -> BOOLEAN]
    BY SpendType DEF Crash, TypeOK, Events
  <1>2. \A l \in Loops : \/ pc'[l] = "done" /\ claim'[l] = NoClaim
                         \/ pc'[l] = pc[l] /\ claim'[l] = claim[l]
    BY DEF Crash
  <1>3. PICK sent \in SUBSET {l \in LoopsOf(w) : pc[l] \in Writing} :
          inflight' = inflight \cup {StatementOf(l) : l \in sent}
    BY DEF Crash
  <1>4. \A l \in sent : /\ StatementOf(l).token # NoToken
                        /\ StatementOf(l).token <= lastToken
                        /\ StatementOf(l).want # "none"
                        /\ StatementOf(l) \in [job : Jobs, token : Nat, want : Statuses]
    <2> SUFFICES ASSUME NEW l \in sent
                 PROVE  /\ StatementOf(l).token # NoToken
                        /\ StatementOf(l).token <= lastToken
                        /\ StatementOf(l).want # "none"
                        /\ StatementOf(l) \in [job : Jobs, token : Nat, want : Statuses]
      OBVIOUS
    <2>1. l \in Loops /\ pc[l] \in Writing
      BY DEF LoopsOf, Loops
    <2>2. /\ claim[l].token # NoToken /\ claim[l].token <= lastToken
          /\ claim[l].want # "none" /\ claim[l].entry \in Entries
      BY <2>1 DEF LoopsHaveClaims, Busy, Writing
    <2> QED
      BY <2>1, <2>2, StatementType DEF StatementOf
  <1>5. TypeOK'
    <2>1. NoClaim \in [entry : Entries \cup {0}, token : Nat, want : Statuses]
      BY DEF NoClaim, NoToken, Statuses
    <2>2. pc' \in [Loops -> Busy \cup {"idle", "done"}]
          /\ claim' \in [Loops -> [entry : Entries \cup {0}, token : Nat, want : Statuses]]
      BY <2>1 DEF Crash, TypeOK
    <2>3. inflight' \subseteq [job : Jobs, token : Nat, want : Statuses]
      BY <1>3, <1>4 DEF TypeOK
    <2> QED
      BY <1>1, <2>2, <2>3 DEF TypeOK
  <1>6. LoopsHaveClaims'
    <2>1. NoClaim.token = NoToken /\ NoToken <= lastToken
      BY DEF NoClaim, NoToken, TypeOK
    <2>2. "done" \notin Busy /\ "done" \notin Writing
      BY DEF Busy, Writing
    <2>3. \A m \in Loops :
            /\ claim'[m].token <= lastToken'
            /\ pc'[m] \in Busy => claim'[m].token # NoToken /\ claim'[m].entry \in Entries
            /\ pc'[m] \in Writing => claim'[m].want # "none"
      BY <1>1, <1>2, <2>1, <2>2 DEF LoopsHaveClaims
    <2>4. \A m, n \in Loops :
            claim'[m].token = claim'[n].token /\ claim'[m].token # NoToken => m = n
      BY <1>2, <2>1 DEF LoopsHaveClaims
    <2> QED
      BY <2>3, <2>4 DEF LoopsHaveClaims
  <1>7. StatementsHaveTokens'
    BY <1>1, <1>3, <1>4 DEF StatementsHaveTokens
  <1>8. RowsHaveYoungTokens' /\ RowsAreConsistent'
    BY <1>1 DEF RowsHaveYoungTokens, RowsAreConsistent
  <1> QED
    BY <1>5, <1>6, <1>7, <1>8

(* A replica comes back with loops that hold no claim.                     *)
LEMMA RestartStep ==
  ASSUME IInv, NEW w \in Replicas, Restart(w)
  PROVE  IInv'
  <1> USE DEF IInv
  <1>1. UNCHANGED <<created, job, lastToken, claim, inflight, uncounted, lastWrite,
                    revoked, used>>
    BY DEF Restart
  <1>2. \A l \in Loops : pc'[l] = "idle" \/ pc'[l] = pc[l]
    BY DEF Restart
  <1>3. TypeOK'
    BY <1>1 DEF Restart, TypeOK
  <1>4. LoopsHaveClaims'
    BY <1>1, <1>2 DEF LoopsHaveClaims, Busy, Writing
  <1>5. StatementsHaveTokens' /\ RowsHaveYoungTokens' /\ RowsAreConsistent'
    BY <1>1 DEF StatementsHaveTokens, RowsHaveYoungTokens, RowsAreConsistent
  <1> QED
    BY <1>3, <1>4, <1>5

(* A refresh takes the lease from the row, so its token is nobody's        *)
(* business: later tokens are younger.                                     *)
LEMMA RevokeStep ==
  ASSUME IInv, NEW j \in Jobs, NEW s \in {"pending", "ok"},
         ~(j[2] > created), Revoke(j, s), used' \in [Events -> Nat]
  PROVE  IInv'
  <1> USE DEF IInv
  <1>1. TypeOK'
    BY RevokeType DEF Statuses, Outcomes
  <1>2. UNCHANGED <<created, lastToken, pc, claim, inflight, lastWrite>>
    BY DEF Revoke
  <1>3. /\ job'[j] = Unleased(s) /\ revoked'[j] = lastToken
        /\ \A i \in Jobs \ {j} : job'[i] = job[i] /\ revoked'[i] = revoked[i]
    BY DEF Revoke, TypeOK
  <1>4. LoopsHaveClaims' /\ StatementsHaveTokens'
    BY <1>2 DEF LoopsHaveClaims, StatementsHaveTokens
  <1>5. RowsHaveYoungTokens'
    BY <1>2, <1>3 DEF RowsHaveYoungTokens, Unleased, NoToken, TypeOK
  <1>6. RowsAreConsistent'
    BY <1>2, <1>3 DEF RowsAreConsistent, Unleased
  <1> QED
    BY <1>1, <1>4, <1>5, <1>6

(* New rows carry no token and no claim.                                   *)
LEMMA CreateStep ==
  ASSUME IInv, CreateEntry
  PROVE  IInv'
  <1> USE DEF IInv
  <1>1. UNCHANGED <<lastToken, pc, claim, stopping, inflight, uncounted, lastWrite,
                    revoked, used>>
        /\ created' = created + 1 /\ created' \in 0..MaxEntries
    BY ConstantsOK DEF CreateEntry, TypeOK
  <1>2. \A j \in Jobs : job'[j] = IF j[2] = created + 1 THEN Unleased("pending") ELSE job[j]
    BY DEF CreateEntry
  <1>3. Unleased("pending") \in [status : Statuses, token : Nat, lease : Leases]
    BY UnleasedType DEF Statuses
  <1>4. TypeOK'
    BY <1>1, <1>3 DEF CreateEntry, TypeOK
  <1>5. LoopsHaveClaims' /\ StatementsHaveTokens'
    BY <1>1 DEF LoopsHaveClaims, StatementsHaveTokens
  <1>6. RowsHaveYoungTokens'
    BY <1>1, <1>2 DEF RowsHaveYoungTokens, Unleased, NoToken, TypeOK
  <1>7. RowsAreConsistent'
    <2>1. \A j \in Jobs : j[2] \in Int
      BY DEF Jobs, Entries
    <2> QED
      BY <1>1, <1>2, <2>1 DEF RowsAreConsistent, Unleased, TypeOK
  <1> QED
    BY <1>4, <1>5, <1>6, <1>7

(* Deleted rows take their tokens along; claims on them become harmless.   *)
LEMMA DeleteStep ==
  ASSUME IInv, NEW e \in Entries, DeleteEntry(e)
  PROVE  IInv'
  <1> USE DEF IInv
  <1>1. UNCHANGED <<created, lastToken, pc, claim, stopping, inflight, uncounted,
                    lastWrite>>
        /\ used' \in [Events -> Nat]
    BY SpendType DEF DeleteEntry, TypeOK, Events
  <1>2. \A j \in Jobs : /\ job'[j] = IF j[2] = e THEN Unleased("none") ELSE job[j]
                        /\ revoked'[j] = IF j[2] = e THEN lastToken ELSE revoked[j]
    BY DEF DeleteEntry
  <1>3. Unleased("none") \in [status : Statuses, token : Nat, lease : Leases]
    BY UnleasedType DEF Statuses
  <1>4. TypeOK'
    BY <1>1, <1>3 DEF DeleteEntry, TypeOK
  <1>5. LoopsHaveClaims' /\ StatementsHaveTokens'
    BY <1>1 DEF LoopsHaveClaims, StatementsHaveTokens
  <1>6. RowsHaveYoungTokens'
    BY <1>1, <1>2 DEF RowsHaveYoungTokens, Unleased, NoToken, TypeOK
  <1>7. RowsAreConsistent'
    BY <1>1, <1>2 DEF RowsAreConsistent, Unleased
  <1> QED
    BY <1>4, <1>5, <1>6, <1>7

(* Each user operation is one of the ways of writing a row above.          *)
LEMMA UserSteps ==
  ASSUME IInv, UserStep
  PROVE  IInv'
  <1> USE DEF IInv
  <1>1. ASSUME NEW e \in Entries, NEW k \in Kinds, job[<<k, e>>].status # "none"
        PROVE  <<k, e>> \in Jobs /\ ~(<<k, e>>[2] > created)
    BY <1>1 DEF RowsAreConsistent, Jobs
  <1>2. "enrichment" \in Kinds /\ "summary" \in Kinds
    BY DEF Kinds
  <1>3. \A ev \in {"reset", "edit"} : Spend(ev) => used' \in [Events -> Nat]
    BY SpendType DEF TypeOK, Events
  <1>4. CASE CreateEntry
    BY <1>4, CreateStep
  <1>5. ASSUME NEW e \in Entries, ResetEnrichment(e) PROVE IInv'
    BY <1>1, <1>2, <1>3, <1>5, RevokeStep DEF ResetEnrichment, Exists
  <1>6. ASSUME NEW e \in Entries, ResetSummary(e) PROVE IInv'
    <2>1. <<"summary", e>> \in Jobs /\ ~(<<"summary", e>>[2] > created)
      BY <1>1, <1>2, <1>6 DEF ResetSummary, Exists, Jobs
    <2> QED
      BY <2>1, <1>3, <1>6, RevokeStep DEF ResetSummary
  <1>7. ASSUME NEW e \in Entries, SupersedeSummary(e) PROVE IInv'
    <2>1. <<"summary", e>> \in Jobs /\ ~(<<"summary", e>>[2] > created)
      BY <1>1, <1>2, <1>7 DEF SupersedeSummary
    <2> QED
      BY <2>1, <1>3, <1>7, RevokeStep DEF SupersedeSummary
  <1>8. ASSUME NEW e \in Entries, DeleteEntry(e) PROVE IInv'
    BY <1>8, DeleteStep
  <1> QED
    BY <1>4, <1>5, <1>6, <1>7, <1>8 DEF UserStep

(* Each step of a loop is a claim, a change of stage, an answered write or *)
(* an exit.                                                                *)
LEMMA LoopSteps ==
  ASSUME IInv, NEW l \in Loops, LoopStep(l)
  PROVE  IInv'
  <1> USE DEF IInv
  <1>1. \A ev \in Events : Spend(ev) => used' \in [Events -> Nat]
    BY SpendType DEF TypeOK
  <1>2. used \in [Events -> Nat] /\ "fault" \in Events
    BY DEF TypeOK, Events
  <1>3. \A s \in Writing : s \in Busy
    BY DEF Writing, Busy
  <1>4. {"running", "saving", "erred", "releasing"} = Busy
    BY DEF Busy
  <1>5. Outcomes \cup {"none", "pending"} \subseteq Statuses /\ "ok" \in Outcomes
        /\ "skipped" \in Outcomes /\ "failed" \in Outcomes
    BY DEF Statuses, Outcomes
  <1>6. CASE ClaimJob(l)
    BY <1>6, ClaimStep
  <1>7. CASE ProviderReturns(l)
    BY <1>2, <1>4, <1>5, <1>7, CarryStep DEF ProviderReturns, Writing
  <1>8. CASE SkipSummary(l)
    BY <1>2, <1>4, <1>5, <1>8, CarryStep DEF SkipSummary
  <1>9. CASE CacheLookupFails(l)
    BY <1>1, <1>2, <1>4, <1>9, SaveErrorStep DEF CacheLookupFails
  <1>10. CASE FinishError(l)
    BY <1>2, <1>4, <1>5, <1>10, CarryStep DEF FinishError
  <1>11. CASE WriteAnswers(l)
    BY <1>11, WriteAnswersStep
  <1>12. CASE WriteFails(l)
    <2>1. used' \in [Events -> Nat] /\ RowsUnchanged /\ pc[l] \in Writing
          /\ inflight' = inflight \cup {StatementOf(l)}
      BY <1>1, <1>2, <1>12 DEF WriteFails
    <2>2. CASE SaveError(l)
      BY <1>3, <2>1, <2>2, SaveErrorStep
    <2>3. CASE LeaveClaim(l, "idle")
      BY <2>1, <2>3, LeaveStep
    <2> QED
      BY <1>12, <2>2, <2>3 DEF WriteFails
  <1>13. CASE LoopExits(l)
    BY <1>2, <1>13, LeaveStep DEF LoopExits
  <1> QED
    BY <1>6, <1>7, <1>8, <1>9, <1>10, <1>11, <1>12, <1>13 DEF LoopStep

(* No token has been drawn at first.                                       *)
LEMMA IInvInit == Init => IInv
  <1> SUFFICES ASSUME Init PROVE IInv
    OBVIOUS
  <1>1. TypeOK
    BY TypeInit
  <1>2. LoopsHaveClaims /\ StatementsHaveTokens
    BY DEF Init, LoopsHaveClaims, StatementsHaveTokens, NoClaim, NoToken, Busy, Writing
  <1>3. PICK start \in [Entries -> {"new", "enriching", "summarizing"}] :
          job = [j \in Jobs |-> FirstState(j[2], j[1], start[j[2]])]
    BY DEF Init
  <1>4. \A e \in Entries, k \in Kinds, s \in {"new", "enriching", "summarizing"} :
           /\ FirstState(e, k, s).token = NoToken
           /\ FirstState(e, k, s).lease = "null"
           /\ e > Preloaded => FirstState(e, k, s).status = "none"
    BY DEF FirstState, Unleased
  <1>5. \A j \in Jobs : /\ job[j].token = NoToken /\ job[j].lease = "null"
                        /\ j[2] > created => job[j].status = "none"
    <2> SUFFICES ASSUME NEW j \in Jobs
                 PROVE  /\ job[j].token = NoToken /\ job[j].lease = "null"
                        /\ j[2] > created => job[j].status = "none"
      OBVIOUS
    <2>1. j[1] \in Kinds /\ j[2] \in Entries
      BY DEF Jobs
    <2>2. job[j] = FirstState(j[2], j[1], start[j[2]])
          /\ start[j[2]] \in {"new", "enriching", "summarizing"}
      BY <1>3, <2>1
    <2> QED
      BY <1>4, <2>1, <2>2 DEF Init
  <1>6. RowsHaveYoungTokens /\ RowsAreConsistent
    BY <1>5 DEF Init, RowsHaveYoungTokens, RowsAreConsistent, NoToken
  <1> QED
    BY <1>1, <1>2, <1>6 DEF IInv

(* Every step keeps the strengthened invariant: one lemma for each action. *)
LEMMA IInvNext == IInv /\ [Next]_vars => IInv'
  <1> SUFFICES ASSUME IInv, [Next]_vars PROVE IInv'
    OBVIOUS
  <1>1. ASSUME NEW l \in Loops, LoopStep(l) PROVE IInv'
    BY <1>1, LoopSteps
  <1>2. ASSUME NEW w \in Replicas, ProcessStep(w) PROVE IInv'
    BY <1>2, ShutdownStep, CrashStep, RestartStep DEF ProcessStep
  <1>3. ASSUME NEW x \in inflight, LateWrite(x) PROVE IInv'
    BY <1>3, LateWriteStep
  <1>4. ASSUME NEW j \in Jobs, LeaseLapses(j) PROVE IInv'
    BY <1>4, LeaseLapsesStep
  <1>5. CASE UserStep
    BY <1>5, UserSteps
  <1>6. CASE UNCHANGED vars
    BY <1>6 DEF vars, IInv, TypeOK, LoopsHaveClaims, StatementsHaveTokens,
                RowsHaveYoungTokens, RowsAreConsistent
  <1> QED
    BY <1>1, <1>2, <1>3, <1>4, <1>5, <1>6 DEF Next

(* The inductive invariant holds in every reachable state, for any number  *)
(* of replicas and entries and any bound on the events.                    *)
THEOREM Inductive == Spec => []IInv
  BY IInvInit, IInvNext, PTL DEF Spec

(* Every variable keeps its type: the statuses of the code, tokens that    *)
(* were drawn, and no claim outside the entries.                           *)
THEOREM TypeCorrect == Spec => []TypeOK
  <1>1. IInv => TypeOK
    BY DEF IInv
  <1> QED
    BY <1>1, Inductive, PTL

-----------------------------------------------------------------------------
(* Ownership.  Two current claims on one job carry the token of its row,   *)
(* and no two loops carry the same token.                                  *)
THEOREM ExclusiveOwnership == Spec => []AtMostOneOwner
  <1>1. IInv => AtMostOneOwner
    BY DEF IInv, LoopsHaveClaims, AtMostOneOwner, Current
  <1> QED
    BY <1>1, Inductive, PTL

(* Only an answered write and a late one write a row.                      *)
LEMMA WhoWrites ==
  ASSUME Next
  PROVE  \/ \E l \in Loops : WriteAnswers(l)
         \/ \E x \in inflight : LateWrite(x)
         \/ UNCHANGED lastWrite
  <1>1. ASSUME NEW l \in Loops, LoopStep(l)
        PROVE  WriteAnswers(l) \/ UNCHANGED lastWrite
    BY <1>1 DEF LoopStep, ClaimJob, ProviderReturns, SkipSummary, CacheLookupFails,
                FinishError, WriteFails, LoopExits, RowsUnchanged
  <1>2. ASSUME NEW w \in Replicas, ProcessStep(w) PROVE UNCHANGED lastWrite
    BY <1>2 DEF ProcessStep, Shutdown, Crash, Restart
  <1>3. ASSUME NEW j \in Jobs, LeaseLapses(j) PROVE UNCHANGED lastWrite
    BY <1>3 DEF LeaseLapses
  <1>4. CASE UserStep
    BY <1>4 DEF UserStep, ResetEnrichment, ResetSummary, SupersedeSummary, Revoke,
                CreateEntry, DeleteEntry
  <1> QED
    BY <1>1, <1>2, <1>3, <1>4 DEF Next

\* A write happens under the token on the row.
LEMMA WritesAreCurrent ==
  ASSUME IInv, Next, NEW j \in Jobs, lastWrite'[j] # lastWrite[j]
  PROVE  Current(j, lastWrite'[j]) /\ lastWrite'[j] # NoToken
  <1>1. ASSUME NEW i \in Jobs, NEW t \in Nat, t # NoToken, NEW s, RecordStatus(i, t, s)
        PROVE  Current(j, lastWrite'[j]) /\ lastWrite'[j] # NoToken
    BY <1>1 DEF RecordStatus, IInv, TypeOK
  <1>2. ASSUME NEW l \in Loops, WriteAnswers(l)
        PROVE  Current(j, lastWrite'[j]) /\ lastWrite'[j] # NoToken
    <2>1. /\ JobOf(l) \in Jobs /\ claim[l].token \in Nat /\ claim[l].token # NoToken
          /\ RecordStatus(JobOf(l), claim[l].token, claim[l].want)
      BY <1>2 DEF WriteAnswers, Writing, Busy, IInv, LoopsHaveClaims, TypeOK, JobOf, Jobs, Loops
    <2> QED
      BY <1>1, <2>1
  <1>3. ASSUME NEW x \in inflight, LateWrite(x)
        PROVE  Current(j, lastWrite'[j]) /\ lastWrite'[j] # NoToken
    <2>1. /\ x.job \in Jobs /\ x.token \in Nat /\ x.token # NoToken
          /\ RecordStatus(x.job, x.token, x.want)
      BY <1>3 DEF LateWrite, IInv, StatementsHaveTokens, TypeOK
    <2> QED
      BY <1>1, <2>1
  <1> QED
    BY <1>2, <1>3, WhoWrites

(* A result of a revoked or displaced claim never reaches the row, even if *)
(* the statement that carries it runs after its caller has given up.       *)
THEOREM NoStaleWrite == Spec => StaleClaimNeverWrites
  <1>1. IInv /\ [Next]_vars =>
          [\A j \in Jobs : lastWrite'[j] # lastWrite[j] => lastWrite'[j] > revoked[j]]_vars
    <2> SUFFICES ASSUME IInv, Next, NEW j \in Jobs, lastWrite'[j] # lastWrite[j]
                 PROVE  lastWrite'[j] > revoked[j]
      OBVIOUS
    <2>1. job[j].token = lastWrite'[j] /\ lastWrite'[j] # NoToken
      BY WritesAreCurrent DEF Current
    <2> QED
      BY <2>1 DEF IInv, RowsHaveYoungTokens
  <1> QED
    BY <1>1, Inductive, PTL DEF Spec, StaleClaimNeverWrites

-----------------------------------------------------------------------------
(* The counter.  An answered write adds the same outcome to the rows and   *)
(* to the counter; a late one adds to the rows only.                       *)
THEOREM CounterNeverAhead == Spec => []MetricNeverOvercounts
  <1>1. Init => MetricNeverOvercounts
    BY DEF Init, MetricNeverOvercounts
  <1>2. IInv /\ MetricNeverOvercounts /\ [Next]_vars => MetricNeverOvercounts'
    <2> SUFFICES ASSUME IInv, MetricNeverOvercounts, [Next]_vars
                 PROVE  MetricNeverOvercounts'
      OBVIOUS
    <2>1. \A x \in Kinds \X Outcomes : uncounted[x] \in Int /\ uncounted[x] >= 0
      BY DEF IInv, TypeOK, MetricNeverOvercounts
    <2>2. ASSUME NEW l \in Loops, WriteAnswers(l) PROVE MetricNeverOvercounts'
      <3>1. \A x : Recorded(JobOf(l), claim[l].token, claim[l].want, x) = Counted(l, x)
                   /\ Counted(l, x) \in Int
        BY DEF Recorded, Counted, JobOf, One
      <3>2. \A x \in Kinds \X Outcomes : uncounted'[x] = uncounted[x]
        <4>1. \A x \in Kinds \X Outcomes :
                uncounted'[x] = uncounted[x] + Recorded(JobOf(l), claim[l].token, claim[l].want, x)
                                             - Counted(l, x)
          BY <2>2 DEF WriteAnswers
        <4> QED
          BY <2>1, <3>1, <4>1
      <3> QED
        BY <2>1, <3>2 DEF MetricNeverOvercounts
    <2>3. ASSUME NEW x \in inflight, LateWrite(x) PROVE MetricNeverOvercounts'
      <3>1. \A o : Recorded(x.job, x.token, x.want, o) \in Nat
        BY DEF Recorded, One
      <3>2. \/ uncounted' = [o \in Kinds \X Outcomes |->
                  uncounted[o] + Recorded(x.job, x.token, x.want, o)]
            \/ uncounted' = uncounted
        BY <2>3 DEF LateWrite
      <3> QED
        BY <2>1, <3>1, <3>2 DEF MetricNeverOvercounts
    <2>4. CASE UNCHANGED uncounted
      BY <2>4 DEF MetricNeverOvercounts
    <2>5. ASSUME NEW l \in Loops, LoopStep(l) PROVE WriteAnswers(l) \/ UNCHANGED uncounted
      BY <2>5 DEF LoopStep, ClaimJob, ProviderReturns, SkipSummary, CacheLookupFails,
                  FinishError, WriteFails, LoopExits, RowsUnchanged
    <2>6. ASSUME NEW w \in Replicas, ProcessStep(w) PROVE UNCHANGED uncounted
      BY <2>6 DEF ProcessStep, Shutdown, Crash, Restart
    <2>7. ASSUME NEW j \in Jobs, LeaseLapses(j) PROVE UNCHANGED uncounted
      BY <2>7 DEF LeaseLapses
    <2>8. CASE UserStep
      BY <2>4, <2>8 DEF UserStep, ResetEnrichment, ResetSummary, SupersedeSummary, Revoke,
                  CreateEntry, DeleteEntry
    <2>9. CASE UNCHANGED vars
      BY <2>4, <2>9 DEF vars
    <2> QED
      BY <2>2, <2>3, <2>4, <2>5, <2>6, <2>7, <2>8, <2>9 DEF Next
  <1> QED
    BY <1>1, <1>2, Inductive, PTL DEF Spec

-----------------------------------------------------------------------------
(* Results land in claim order, each claim's at most once.                 *)
LEMMA WhoSettles ==
  ASSUME IInv, Next, NEW j \in Jobs, job'[j] # job[j], job'[j].status \in Outcomes
  PROVE  \/ lastWrite'[j] # lastWrite[j]
         \/ used'["edit"] # used["edit"]
  <1>1. ASSUME NEW i \in Jobs, NEW t \in Nat, t # NoToken, NEW s, RecordStatus(i, t, s)
        PROVE  lastWrite'[j] # lastWrite[j]
    <2>1. Current(i, t) /\ i = j
      BY <1>1 DEF RecordStatus, IInv, TypeOK
    <2> QED
      BY <1>1, <2>1 DEF RecordStatus, Current, IInv, TypeOK, RowsHaveYoungTokens
  <1>2. ASSUME NEW l \in Loops, WriteAnswers(l) PROVE lastWrite'[j] # lastWrite[j]
    <2>1. /\ JobOf(l) \in Jobs /\ claim[l].token \in Nat /\ claim[l].token # NoToken
          /\ RecordStatus(JobOf(l), claim[l].token, claim[l].want)
      BY <1>2 DEF WriteAnswers, Writing, Busy, IInv, LoopsHaveClaims, TypeOK, JobOf, Jobs, Loops
    <2> QED
      BY <1>1, <2>1
  <1>3. ASSUME NEW x \in inflight, LateWrite(x) PROVE lastWrite'[j] # lastWrite[j]
    <2>1. /\ x.job \in Jobs /\ x.token \in Nat /\ x.token # NoToken
          /\ RecordStatus(x.job, x.token, x.want)
      BY <1>3 DEF LateWrite, IInv, StatementsHaveTokens, TypeOK
    <2> QED
      BY <1>1, <2>1
  <1>4. "pending" \notin Outcomes /\ "processing" \notin Outcomes /\ "none" \notin Outcomes
    BY DEF Outcomes
  <1>5. ASSUME NEW l \in Loops, ClaimJob(l) PROVE FALSE
    <2>1. PICK e \in Entries :
            job' = [job EXCEPT ![<<l[2], e>>] =
                      [status |-> "processing", token |-> lastToken + 1, lease |-> "live"]]
      BY <1>5 DEF ClaimJob
    <2>2. job'[j] = job[j] \/ job'[j].status = "processing"
      BY <2>1 DEF IInv, TypeOK
    <2> QED
      BY <1>4, <2>2
  <1>6. ASSUME NEW l \in Loops, LoopStep(l) PROVE WriteAnswers(l)
    BY <1>5, <1>6 DEF LoopStep, ProviderReturns, SkipSummary, CacheLookupFails,
                FinishError, WriteFails, LoopExits, RowsUnchanged
  <1>7. ASSUME NEW w \in Replicas, ProcessStep(w) PROVE FALSE
    BY <1>7 DEF ProcessStep, Shutdown, Crash, Restart
  <1>8. ASSUME NEW i \in Jobs, LeaseLapses(i) PROVE FALSE
    <2>1. job[i].status = "processing" /\ job'[i].status = job[i].status
      BY <1>8 DEF LeaseLapses, IInv, TypeOK, RowsAreConsistent
    <2> QED
      BY <1>4, <1>8, <2>1 DEF LeaseLapses, IInv, TypeOK
  <1>9. ASSUME NEW i \in Jobs, NEW s \in {"pending", "ok"}, Revoke(i, s)
        PROVE  s = "ok"
    BY <1>4, <1>9 DEF Revoke, Unleased, IInv, TypeOK
  <1>10. CASE UserStep
    <2>1. ~CreateEntry /\ \A e \in Entries : ~DeleteEntry(e)
      BY <1>4 DEF CreateEntry, DeleteEntry, Unleased
    <2>2. ASSUME NEW e \in Entries PROVE ~ResetEnrichment(e) /\ ~ResetSummary(e)
      BY <1>9 DEF ResetEnrichment, ResetSummary, Jobs, Kinds
    <2>3. ASSUME NEW e \in Entries, SupersedeSummary(e) PROVE used'["edit"] # used["edit"]
      BY <2>3 DEF SupersedeSummary, Spend, IInv, TypeOK, Events
    <2> QED
      BY <1>10, <2>1, <2>2, <2>3 DEF UserStep
  <1> QED
    BY <1>2, <1>3, <1>6, <1>7, <1>8, <1>10 DEF Next

(* Results of one job land in the order in which it was claimed, and no    *)
(* claim lands twice: the token on the row only grows, and settling takes  *)
(* it off.                                                                 *)
THEOREM ClaimOrder == Spec => ResultsLandInClaimOrder
  <1>1. IInv /\ [Next]_vars =>
          [\A j \in Jobs : job'[j] # job[j] /\ job'[j].status \in Outcomes
                           /\ used'["edit"] = used["edit"]
                           => lastWrite'[j] > lastWrite[j]]_vars
    <2> SUFFICES ASSUME IInv, Next, NEW j \in Jobs, job'[j] # job[j],
                        job'[j].status \in Outcomes, used'["edit"] = used["edit"]
                 PROVE  lastWrite'[j] > lastWrite[j]
      OBVIOUS
    <2>1. job[j].token = lastWrite'[j] /\ lastWrite'[j] # NoToken
      BY WhoSettles, WritesAreCurrent DEF Current
    <2> QED
      BY <2>1 DEF IInv, RowsHaveYoungTokens
  <1> QED
    BY <1>1, Inductive, PTL DEF Spec, ResultsLandInClaimOrder

-----------------------------------------------------------------------------
(* Settled work waits for the user.  Every step of a loop changes only a   *)
(* row that is pending or processing.                                      *)
LEMMA WhoUnsettles ==
  ASSUME IInv, Next, NEW j \in Jobs, job[j].status \in Outcomes, job'[j] # job[j]
  PROVE  used'["reset"] > used["reset"] \/ used'["delete"] > used["delete"]
  <1>1. /\ "pending" \notin Outcomes /\ "processing" \notin Outcomes /\ "none" \notin Outcomes
        /\ \A ev \in Events : used[ev] \in Nat
    BY DEF Outcomes, IInv, TypeOK
  <1>2. ASSUME NEW i, NEW t, NEW s, RecordStatus(i, t, s)
        PROVE  FALSE
    BY <1>1, <1>2 DEF RecordStatus, Current, IInv, TypeOK
  <1>3. ASSUME NEW l \in Loops, ClaimJob(l) PROVE FALSE
    <2>1. PICK e \in Entries :
            /\ job' = [job EXCEPT ![<<l[2], e>>] =
                         [status |-> "processing", token |-> lastToken + 1, lease |-> "live"]]
            /\ e \in Eligible(l[2])
      BY <1>3 DEF ClaimJob, Oldest
    <2>2. <<l[2], e>> = j
      BY <2>1 DEF IInv, TypeOK
    <2> QED
      BY <1>1, <2>1, <2>2 DEF Eligible
  <1>4. ASSUME NEW l \in Loops, LoopStep(l) PROVE FALSE
    BY <1>2, <1>3, <1>4 DEF LoopStep, ProviderReturns, SkipSummary, CacheLookupFails,
                FinishError, WriteAnswers, WriteFails, LoopExits, RowsUnchanged
  <1>5. ASSUME NEW w \in Replicas, ProcessStep(w) PROVE FALSE
    BY <1>5 DEF ProcessStep, Shutdown, Crash, Restart
  <1>6. ASSUME NEW x \in inflight, LateWrite(x) PROVE FALSE
    BY <1>2, <1>6 DEF LateWrite
  <1>7. ASSUME NEW i \in Jobs, LeaseLapses(i) PROVE FALSE
    BY <1>1, <1>7 DEF LeaseLapses, IInv, TypeOK, RowsAreConsistent
  <1>8. CASE UserStep
    <2>1. ~CreateEntry
      <3>1. j[2] # created + 1
        BY <1>1 DEF IInv, RowsAreConsistent, TypeOK
      <3> QED
        BY <3>1 DEF CreateEntry
    <2>2. ASSUME NEW e \in Entries, SupersedeSummary(e) PROVE FALSE
      BY <1>1, <2>2 DEF SupersedeSummary, Revoke, IInv, TypeOK
    <2>3. ASSUME NEW e \in Entries, ResetEnrichment(e) \/ ResetSummary(e)
          PROVE  used'["reset"] > used["reset"]
      BY <1>1, <2>3 DEF ResetEnrichment, ResetSummary, Spend, IInv, TypeOK, Events
    <2>4. ASSUME NEW e \in Entries, DeleteEntry(e) PROVE used'["delete"] > used["delete"]
      BY <1>1, <2>4 DEF DeleteEntry, Spend, IInv, TypeOK, Events
    <2> QED
      BY <1>8, <2>1, <2>2, <2>3, <2>4 DEF UserStep
  <1> QED
    BY <1>4, <1>5, <1>6, <1>7, <1>8 DEF Next

(* A settled job changes only when a user refreshes, supersedes or deletes *)
(* it: no retry, release, lapse or late statement reopens it.              *)
THEOREM SettledStays == Spec => SettledWaitsForUser
  <1>1. IInv /\ [Next]_vars =>
          [\A j \in Jobs : job[j].status \in Outcomes /\ job'[j] # job[j]
             => used'["reset"] > used["reset"] \/ used'["delete"] > used["delete"]]_vars
    BY WhoUnsettles
  <1> QED
    BY <1>1, Inductive, PTL DEF Spec, SettledWaitsForUser

-----------------------------------------------------------------------------
(* What has not happened by the end of a step did not happen in it.        *)
LEMMA EventsAreCounted ==
  ASSUME IInv, [Next]_vars, NEW ev \in Events, used'[ev] = 0
  PROVE  used[ev] = 0 /\ ~Spend(ev)
  <1>1. \A other \in Events : used[other] \in Nat
    BY DEF IInv, TypeOK
  <1>2. \A other \in Events : Spend(other) => /\ used'[other] # 0
                                              /\ other # ev => used'[ev] = used[ev]
    BY <1>1 DEF Spend, IInv, TypeOK
  <1>3. UNCHANGED used \/ \E other \in Events : Spend(other)
    BY DEF Next, LoopStep, ClaimJob, ProviderReturns, SkipSummary, CacheLookupFails,
           FinishError, WriteAnswers, WriteFails, LoopExits, RowsUnchanged, ProcessStep,
           Shutdown, Crash, Restart, LateWrite, LeaseLapses, UserStep, CreateEntry,
           ResetEnrichment, ResetSummary, SupersedeSummary, DeleteEntry, Events, vars
  <1> QED
    BY <1>2, <1>3

(* No claim is dropped.  While no answer and no process is lost, each way  *)
(* out of a loop's work clears the lease it works under.                   *)
LEMMA HeldStep ==
  ASSUME IInv, LeasedJobIsHeld, Next
  PROVE  LeasedJobIsHeld'
  <1> USE DEF IInv
  <1> DEFINE Keeps(m) == /\ pc'[m] \in Busy
                         /\ claim'[m].entry = claim[m].entry
                         /\ claim'[m].token = claim[m].token
  <1> SUFFICES ASSUME used'["fault"] = 0, used'["crash"] = 0,
                      NEW j \in Jobs, job'[j].lease = "live"
               PROVE  Held(j)'
    BY DEF LeasedJobIsHeld
  <1>1. "fault" \in Events /\ "crash" \in Events
    BY DEF Events
  <1>2. ~Spend("fault") /\ ~Spend("crash")
    BY <1>1, EventsAreCounted
  <1>3. used["fault"] = 0 /\ used["crash"] = 0
    BY <1>1, EventsAreCounted
  <1>4. ASSUME job[j].lease = "live", job'[j].token = job[j].token,
               \A m \in Loops : pc[m] \in Busy => Keeps(m)
        PROVE  Held(j)'
    <2>1. PICK m \in Loops : pc[m] \in Busy /\ JobOf(m) = j /\ claim[m].token = job[j].token
      BY <1>3, <1>4 DEF LeasedJobIsHeld, Held
    <2> QED
      BY <1>4, <2>1 DEF Held, JobOf
  <1>5. ASSUME job' = job, \A m \in Loops : pc[m] \in Busy => Keeps(m)
        PROVE  Held(j)'
    BY <1>4, <1>5
  <1>6. ASSUME UNCHANGED <<pc, claim>>,
               \/ job'[j] = job[j]
               \/ job'[j].lease # "live"
        PROVE  Held(j)'
    BY <1>4, <1>6
  <1>7. ASSUME NEW l \in Loops, ClaimJob(l) PROVE Held(j)'
    <2>1. PICK e \in Entries :
            /\ job' = [job EXCEPT ![<<l[2], e>>] =
                         [status |-> "processing", token |-> lastToken + 1, lease |-> "live"]]
            /\ pc' = [pc EXCEPT ![l] = "running"]
            /\ claim' = [claim EXCEPT ![l] =
                            [entry |-> e, token |-> lastToken + 1, want |-> "none"]]
      BY <1>2, <1>7 DEF ClaimJob
    <2>2. pc[l] \notin Busy
      BY <1>7 DEF ClaimJob, Busy
    <2>3. CASE j = <<l[2], e>>
      BY <2>1, <2>3 DEF Held, JobOf, Busy, TypeOK
    <2>4. CASE j # <<l[2], e>>
      <3>1. job'[j] = job[j]
        BY <2>1, <2>4 DEF TypeOK
      <3>2. \A m \in Loops : pc[m] \in Busy => Keeps(m)
        BY <2>1, <2>2 DEF TypeOK
      <3> QED
        BY <1>4, <3>1, <3>2
    <2> QED
      BY <2>3, <2>4
  <1>8. ASSUME NEW l \in Loops, NEW stage \in Busy, NEW s, Carry(l, stage, s), job' = job
        PROVE  Held(j)'
    BY <1>5, <1>8 DEF Carry, TypeOK
  <1>9. ASSUME NEW l \in Loops, pc[l] \in {"idle", "done"}, LeaveClaim(l, "done"), job' = job
        PROVE  Held(j)'
    <2>1. pc[l] \notin Busy
      BY <1>9 DEF Busy
    <2> QED
      BY <1>5, <1>9, <2>1 DEF LeaveClaim, TypeOK
  <1>10. ASSUME NEW l \in Loops, WriteAnswers(l) PROVE Held(j)'
    <2>1. RecordStatus(JobOf(l), claim[l].token, claim[l].want) /\ LeaveClaim(l, "idle")
          /\ JobOf(l) \in Jobs
      BY <1>10 DEF WriteAnswers, Writing, Busy, LoopsHaveClaims, TypeOK, JobOf, Jobs, Loops
    <2>2. job'[j] = job[j]
      BY <2>1 DEF RecordStatus, Unleased, TypeOK
    <2>3. PICK m \in Loops : pc[m] \in Busy /\ JobOf(m) = j /\ claim[m].token = job[j].token
      BY <1>3, <2>2 DEF LeasedJobIsHeld, Held
    <2>4. m # l
      <3>1. SUFFICES ASSUME m = l PROVE FALSE
        OBVIOUS
      <3>2. Current(j, claim[l].token)
        BY <2>2, <2>3, <3>1 DEF Current, RowsAreConsistent
      <3> QED
        BY <2>1, <2>2, <2>3, <3>1, <3>2 DEF RecordStatus, Unleased, TypeOK
    <2>5. Keeps(m)
      BY <2>1, <2>3, <2>4 DEF LeaveClaim, TypeOK
    <2> QED
      BY <2>2, <2>3, <2>5 DEF Held, JobOf
  <1>11. ASSUME NEW l \in Loops, LoopStep(l) PROVE Held(j)'
    <2>1. {"running", "saving", "erred", "releasing"} = Busy
      BY DEF Busy
    <2>2. CASE CacheLookupFails(l)
      BY <1>2, <1>8, <2>1, <2>2 DEF CacheLookupFails, SaveError, RowsUnchanged
    <2>3. CASE WriteFails(l)
      BY <1>2, <1>8, <2>1, <2>3 DEF WriteFails, SaveError, RowsUnchanged
    <2>4. CASE ProviderReturns(l) \/ SkipSummary(l) \/ FinishError(l)
      BY <1>8, <2>1, <2>4 DEF ProviderReturns, SkipSummary, FinishError, RowsUnchanged
    <2>5. CASE LoopExits(l)
      BY <1>9, <2>5 DEF LoopExits, RowsUnchanged
    <2> QED
      BY <1>7, <1>10, <1>11, <2>2, <2>3, <2>4, <2>5 DEF LoopStep
  <1>12. ASSUME NEW w \in Replicas, ProcessStep(w) PROVE Held(j)'
    <2>1. CASE Shutdown(w)
      BY <1>6, <2>1 DEF Shutdown
    <2>2. CASE Restart(w)
      <3>1. \A m \in Loops : pc[m] \in Busy => pc'[m] = pc[m]
        BY <2>2 DEF Restart, LoopsOf, Loops, Busy
      <3> QED
        BY <1>5, <2>2, <3>1 DEF Restart
    <2> QED
      BY <1>2, <1>12, <2>1, <2>2 DEF ProcessStep, Crash
  <1>13. ASSUME NEW x \in inflight, LateWrite(x) PROVE Held(j)'
    <2>1. job'[j] = job[j] \/ job'[j].lease # "live"
      BY <1>13 DEF LateWrite, RecordStatus, Unleased, TypeOK
    <2> QED
      BY <1>6, <1>13, <2>1 DEF LateWrite
  <1>14. ASSUME NEW i \in Jobs, LeaseLapses(i) PROVE Held(j)'
    <2>1. job'[j] = job[j] \/ job'[j].lease # "live"
      BY <1>14 DEF LeaseLapses, TypeOK
    <2> QED
      BY <1>6, <1>14, <2>1 DEF LeaseLapses
  <1>15. CASE UserStep
    <2>1. job'[j] = job[j] \/ job'[j].lease # "live"
      <3>1. ASSUME NEW i, NEW s, Revoke(i, s)
            PROVE  job'[j] = job[j] \/ job'[j].lease # "live"
        BY <3>1 DEF Revoke, Unleased, TypeOK
      <3>2. ASSUME CreateEntry \/ \E e \in Entries : DeleteEntry(e)
            PROVE  job'[j] = job[j] \/ job'[j].lease # "live"
        BY <3>2 DEF CreateEntry, DeleteEntry, Unleased
      <3> QED
        BY <1>15, <3>1, <3>2 DEF UserStep, ResetEnrichment, ResetSummary, SupersedeSummary
    <2>2. UNCHANGED <<pc, claim>>
      BY <1>15 DEF UserStep, CreateEntry, ResetEnrichment, ResetSummary, SupersedeSummary,
                   DeleteEntry, Revoke
    <2> QED
      BY <1>6, <2>1, <2>2
  <1> QED
    BY <1>11, <1>12, <1>13, <1>14, <1>15 DEF Next

(* Without a lost answer or a lost process, every live lease has a loop at *)
(* work under it: no way out of a loop forgets to hand its claim back.     *)
THEOREM NoClaimDropped == Spec => []LeasedJobIsHeld
  <1>1. Init => LeasedJobIsHeld
    <2> SUFFICES ASSUME Init, NEW j \in Jobs PROVE job[j].lease # "live"
      BY DEF LeasedJobIsHeld
    <2>1. PICK start \in [Entries -> {"new", "enriching", "summarizing"}] :
            job = [i \in Jobs |-> FirstState(i[2], i[1], start[i[2]])]
      BY DEF Init
    <2>2. j[2] \in Entries /\ start[j[2]] \in {"new", "enriching", "summarizing"}
      BY <2>1 DEF Jobs
    <2> QED
      BY <2>1, <2>2 DEF FirstState, Unleased
  <1>2. LeasedJobIsHeld /\ UNCHANGED vars => LeasedJobIsHeld'
    BY DEF LeasedJobIsHeld, vars, Held, JobOf
  <1>3. IInv /\ LeasedJobIsHeld /\ [Next]_vars => LeasedJobIsHeld'
    BY <1>2, HeldStep
  <1> QED
    BY <1>1, <1>3, Inductive, PTL DEF Spec
-----------------------------------------------------------------------------
(* The counter is complete: only an event that can be counted leaves an    *)
(* outcome that is not.                                                    *)
LEMMA NothingLeftStep ==
  ASSUME IInv, NothingIsLeftToCount, [Next]_vars
  PROVE  NothingIsLeftToCount'
  <1> SUFFICES ASSUME used'["fault"] = 0, used'["crash"] = 0, used'["stop"] = 0
               PROVE  /\ \A w \in Replicas : ~stopping'[w]
                      /\ inflight' = {}
                      /\ \A x \in Kinds \X Outcomes : uncounted'[x] = 0
    BY DEF NothingIsLeftToCount
  <1>1. /\ used["fault"] = 0 /\ used["crash"] = 0 /\ used["stop"] = 0
        /\ ~Spend("fault") /\ ~Spend("crash") /\ ~Spend("stop")
    <2>1. "fault" \in Events /\ "crash" \in Events /\ "stop" \in Events
      BY DEF Events
    <2> QED
      BY <2>1, EventsAreCounted
  <1>2. /\ \A w \in Replicas : ~stopping[w]
        /\ inflight = {}
        /\ \A x \in Kinds \X Outcomes : uncounted[x] = 0
    BY <1>1 DEF NothingIsLeftToCount
  <1>3. ASSUME NEW l \in Loops, WriteAnswers(l)
        PROVE  \A x \in Kinds \X Outcomes : uncounted'[x] = 0
    <2>1. \A x : Recorded(JobOf(l), claim[l].token, claim[l].want, x) = Counted(l, x)
                 /\ Counted(l, x) \in Int
      BY DEF Recorded, Counted, JobOf, One
    <2>2. \A x \in Kinds \X Outcomes :
            uncounted'[x] = uncounted[x] + Recorded(JobOf(l), claim[l].token, claim[l].want, x)
                                         - Counted(l, x)
      BY <1>3 DEF WriteAnswers
    <2> QED
      BY <1>2, <2>1, <2>2
  <1>4. ASSUME NEW l \in Loops PROVE ~stopping[l[1]]
    BY <1>2 DEF Loops
  <1>5. ASSUME NEW l \in Loops, LoopStep(l)
        PROVE  /\ UNCHANGED <<stopping, inflight>>
               /\ UNCHANGED uncounted \/ WriteAnswers(l)
    <2>1. ~WriteFails(l)
      BY <1>1, <1>4 DEF WriteFails
    <2> QED
      BY <1>5, <2>1 DEF LoopStep, ClaimJob, ProviderReturns, SkipSummary, CacheLookupFails,
                        FinishError, WriteAnswers, LoopExits, RowsUnchanged
  <1>6. ASSUME NEW w \in Replicas, ProcessStep(w)
        PROVE  UNCHANGED <<inflight, uncounted>> /\ \A v \in Replicas : ~stopping'[v]
    <2>1. Restart(w)
      BY <1>1, <1>6 DEF ProcessStep, Shutdown, Crash
    <2> QED
      BY <1>2, <2>1 DEF Restart, IInv, TypeOK
  <1>7. CASE \/ \E j \in Jobs : LeaseLapses(j)
             \/ UserStep
             \/ UNCHANGED vars
    BY <1>2, <1>7 DEF LeaseLapses, UserStep, CreateEntry, ResetEnrichment, ResetSummary,
                      SupersedeSummary, DeleteEntry, Revoke, vars
  <1>8. ~\E x \in inflight : LateWrite(x)
    BY <1>2
  <1> QED
    BY <1>2, <1>3, <1>5, <1>6, <1>7, <1>8 DEF Next

(* learnd_jobs_total misses an outcome only after a lost answer, a crash   *)
(* or a shutdown, however many replicas claim, fail and lose their leases. *)
THEOREM CounterIsComplete == Spec => []MetricIsComplete
  <1>1. Init => NothingIsLeftToCount
    BY DEF Init, NothingIsLeftToCount
  <1>2. IInv /\ NothingIsLeftToCount /\ [Next]_vars => NothingIsLeftToCount'
    BY NothingLeftStep
  <1>3. NothingIsLeftToCount => MetricIsComplete
    BY DEF NothingIsLeftToCount, MetricIsComplete
  <1> QED
    BY <1>1, <1>2, <1>3, Inductive, PTL DEF Spec

(* MetricAgrees of the runs: the counter is never ahead of the rows, and   *)
(* is exact until an answer, a process or a replica is lost.               *)
THEOREM CounterAgrees == Spec => []MetricAgrees
  <1>1. MetricNeverOvercounts /\ MetricIsComplete => MetricAgrees
    BY DEF MetricAgrees
  <1> QED
    BY <1>1, CounterNeverAhead, CounterIsComplete, PTL
=============================================================================
