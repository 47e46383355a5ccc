--------------------------- MODULE ReplicaProofs ----------------------------
(***************************************************************************)
(* Theorems about a replica as it starts, for any replicas, migrations and *)
(* budgets (Startup), and as it is probed, for any probes and any positive *)
(* TTL (Readiness).                                                        *)
(***************************************************************************)
EXTENDS Startup, Readiness, TLAPS

-----------------------------------------------------------------------------
(* Readiness                                                               *)

(* Whatever a ping reports, the probe is answered.                         *)
LEMMA OutcomeType == Outcome \in Verdicts
  BY DEF Outcome, Verdicts

(* Every step keeps the types that the waiting times depend on.            *)
LEMMA TypesStep == QueueTypes /\ [Next]_vars => QueueTypes'
  <1> SUFFICES ASSUME QueueTypes, [Next]_vars PROVE QueueTypes'
    OBVIOUS
  <1> USE OutcomeType DEF QueueTypes, Active
  <1>1. ASSUME NEW p \in Probes, Arrive(p) PROVE QueueTypes'
    BY <1>1 DEF Arrive
  <1>2. ASSUME NEW p \in Probes, TakeLock(p) PROVE QueueTypes'
    BY <1>2 DEF TakeLock
  <1>3. ASSUME NEW p \in Probes, PingEnds(p) PROVE QueueTypes'
    BY <1>3 DEF PingEnds, Result
  <1>4. ASSUME NEW p \in Probes, HangUp(p) PROVE QueueTypes'
    BY <1>4 DEF HangUp
  <1>5. ASSUME NEW s \in {"up", "refusing", "hung"}, DbBecomes(s) PROVE QueueTypes'
    BY <1>5 DEF DbBecomes
  <1>6. CASE Tick
    BY <1>6 DEF Tick
  <1>7. CASE UNCHANGED vars
    BY <1>7 DEF vars
  <1> QED
    BY <1>1, <1>2, <1>3, <1>4, <1>5, <1>6, <1>7 DEF Next

(* The queue for the mutex stays young: when a ping ends, its result is of *)
(* this moment, so nobody who waited for it starts another one.            *)
LEMMA QueueStep == IInv /\ [Next]_vars => QueueIsYoung'
  <1> SUFFICES ASSUME QueueTypes, QueueIsYoung, [Next]_vars PROVE QueueIsYoung'
    BY DEF IInv
  <1> USE TimesOK, NobodyOK, OutcomeType
  <1>1. ASSUME NEW p \in Probes, Arrive(p) PROVE QueueIsYoung'
    BY <1>1 DEF QueueTypes, QueueIsYoung, Arrive, Active
  <1>2. ASSUME NEW p \in Probes, TakeLock(p) PROVE QueueIsYoung'
    <2>1. CASE Fresh
      BY <1>2, <2>1 DEF QueueTypes, QueueIsYoung, TakeLock, Active, Verdicts
    <2>2. CASE ~Fresh
      <3>1. checkedAt # now
        BY <2>2 DEF Fresh, QueueTypes, Never
      <3>2. \A q \in Probes : probe[q] \in Active => since[q] = now
        BY <1>2, <3>1 DEF QueueIsYoung, TakeLock
      <3> QED
        BY <1>2, <2>2, <3>2 DEF QueueTypes, QueueIsYoung, TakeLock, Active, Verdicts
    <2> QED
      BY <2>1, <2>2
  <1>3. ASSUME NEW p \in Probes, PingEnds(p) PROVE QueueIsYoung'
    <2>1. holder = p /\ checkedAt' = now /\ holder' = Nobody /\ now' = now
      BY <1>3 DEF PingEnds, Result, QueueIsYoung
    <2> QED
      BY <1>3, <2>1 DEF QueueTypes, QueueIsYoung, PingEnds, Result, Active, Verdicts
  <1>4. ASSUME NEW p \in Probes, HangUp(p) PROVE QueueIsYoung'
    BY <1>4 DEF QueueIsYoung, HangUp
  <1>5. ASSUME NEW s \in {"up", "refusing", "hung"}, DbBecomes(s) PROVE QueueIsYoung'
    BY <1>5 DEF QueueIsYoung, DbBecomes
  <1>6. CASE Tick
    BY <1>6 DEF QueueTypes, QueueIsYoung, Tick, Active
  <1>7. CASE UNCHANGED vars
    BY <1>7 DEF vars, QueueIsYoung
  <1> QED
    BY <1>1, <1>2, <1>3, <1>4, <1>5, <1>6, <1>7 DEF Next

(* The types and the young queue hold in every reachable state.            *)
THEOREM QueueInductive == Spec => []IInv
  <1>1. Init => IInv
    <2> SUFFICES ASSUME Init PROVE QueueTypes /\ QueueIsYoung
      BY DEF IInv
    <2>1. QueueTypes
      BY DEF Init, QueueTypes, Active, Verdicts, Never, Nobody
    <2>2. \A p \in Probes : probe[p] = "idle" /\ p # holder
      BY NobodyOK DEF Init
    <2> QED
      BY <2>1, <2>2 DEF Init, QueueIsYoung, Active
  <1>2. IInv /\ [Next]_vars => IInv'
    BY TypesStep, QueueStep DEF IInv
  <1> QED
    BY <1>1, <1>2, PTL DEF Spec

(* Every variable of the model keeps its type.                             *)
THEOREM TypeCorrect == Spec => []TypeOK
  <1>1. Init => TypeOK
    BY NobodyOK DEF Init, TypeOK, QueueTypes, Active, Verdicts, Never, Nobody
  <1>2. TypeOK /\ IInv /\ [Next]_vars => TypeOK'
    <2> SUFFICES ASSUME TypeOK, QueueTypes', [Next]_vars PROVE TypeOK'
      BY TypesStep DEF TypeOK
    <2>1. /\ db' = db \/ \E s \in {"up", "refusing", "hung"} : db' = s
          /\ gone' \subseteq Probes
      BY DEF Next, Arrive, TakeLock, PingEnds, Result, HangUp, DbBecomes, Tick, vars, TypeOK
    <2>2. /\ lastUp' = lastUp \/ lastUp' = now
          /\ lastDown' = lastDown \/ lastDown' = now
      BY DEF Next, Arrive, TakeLock, PingEnds, Result, HangUp, DbBecomes, Tick, vars
    <2> QED
      BY <2>1, <2>2 DEF TypeOK, QueueTypes
  <1> QED
    BY <1>1, <1>2, QueueInductive, PTL DEF Spec

(* No probe of /ready waits longer than one ping, however many there are.  *)
THEOREM ProbesAreBounded == Spec => []WaitsForOnePing
  <1>1. IInv => WaitsForOnePing
    BY TimesOK DEF IInv, QueueTypes, QueueIsYoung, WaitsForOnePing
  <1> QED
    BY <1>1, QueueInductive, PTL

-----------------------------------------------------------------------------
(* What an answer says of the database.                                    *)

\* The last answer of a ping was true when it was given, whatever happens next.
LEMMA ResultStep ==
  ASSUME TypeOK, ResultIsTrue, [Next]_vars
  PROVE  ResultIsTrue'
  <1> USE DEF TypeOK, QueueTypes, ResultIsTrue, Never, LastMoment
  <1>1. ASSUME UNCHANGED <<now, db, checkedAt, dbOK, lastUp, lastDown>>
        PROVE  ResultIsTrue'
    BY <1>1
  <1>2. ASSUME NEW p \in Probes, PingEnds(p) PROVE ResultIsTrue'
    BY <1>2 DEF PingEnds, Result, Outcome
  <1>3. ASSUME NEW s \in {"up", "refusing", "hung"}, DbBecomes(s) PROVE ResultIsTrue'
    BY <1>3 DEF DbBecomes
  <1>4. CASE Tick
    BY <1>4 DEF Tick
  <1> QED
    BY <1>1, <1>2, <1>3, <1>4 DEF Next, Arrive, TakeLock, HangUp, vars

(* The last result tells how the database was when it came in.             *)
LEMMA ResultInductive == Spec => [](TypeOK /\ ResultIsTrue)
  <1>1. Init => ResultIsTrue
    BY DEF Init, ResultIsTrue, Never
  <1>2. TypeOK /\ ResultIsTrue /\ [Next]_vars => ResultIsTrue'
    BY ResultStep
  <1> QED
    BY <1>1, <1>2, TypeCorrect, PTL DEF Spec

(* An answer is a fresh result, cached or new.                             *)
LEMMA AnswersAreFresh ==
  ASSUME TypeOK, [Next]_vars, NEW p \in Probes, NEW verdict \in Verdicts, Answers(p, verdict)
  PROVE  Outcome = verdict \/ (Fresh /\ dbOK = verdict)
  <1> USE DEF TypeOK, QueueTypes, Answers, Active, Verdicts
  <1>1. ASSUME NEW q \in Probes, TakeLock(q)
        PROVE  Fresh /\ dbOK = verdict
    BY <1>1 DEF TakeLock
  <1>2. ASSUME NEW q \in Probes, PingEnds(q)
        PROVE  Outcome = verdict
    BY <1>2 DEF PingEnds, Result
  <1> QED
    BY <1>1, <1>2 DEF Next, Arrive, HangUp, DbBecomes, Tick, vars

(* "ready" is never older than the cache allows, however many probes share *)
(* a ping and whenever the database goes down.                             *)
THEOREM ReadyIsTrue == Spec => ReadyIsRecent
  <1>1. TypeOK /\ ResultIsTrue /\ [Next]_vars =>
          [\A p \in Probes : Answers(p, "ready") =>
              LastMoment(TRUE) # Never /\ now - LastMoment(TRUE) < TTL]_vars
    BY AnswersAreFresh, TimesOK
       DEF Verdicts, Outcome, Fresh, LastMoment, ResultIsTrue, TypeOK, QueueTypes, Never
  <1> QED
    BY <1>1, ResultInductive, PTL DEF Spec, ReadyIsRecent

(* "unready" is never made up: neither a client that hangs up nor a      *)
(* queue of probes makes a replica unready whose database answers.         *)
THEOREM UnreadyIsTrue == Spec => NotReadyIsReal
  <1>1. TypeOK /\ ResultIsTrue /\ [Next]_vars =>
          [\A p \in Probes : Answers(p, "unready") =>
              LastMoment(FALSE) # Never /\ now - LastMoment(FALSE) < TTL]_vars
    BY AnswersAreFresh, TimesOK
       DEF Verdicts, Outcome, Fresh, LastMoment, ResultIsTrue, TypeOK, QueueTypes, Never
  <1> QED
    BY <1>1, ResultInductive, PTL DEF Spec, NotReadyIsReal

-----------------------------------------------------------------------------
(* Startup                                                                 *)

(* Every step keeps the types.                                             *)
LEMMA TypeStep ==
  ASSUME BootTypeOK, [BootNext]_bootVars
  PROVE  BootTypeOK'
  <1> USE DEF BootTypeOK, Stages, Booting, Parts, dbVars, To, Opens, Closes
  <1>1. ASSUME NEW r \in Replicas, Boot(r)
        PROVE  BootTypeOK'
    <2>1. CASE StartProcess(r)
      BY <2>1 DEF StartProcess
    <2>2. CASE Connected(r)
      BY <2>2 DEF Connected
    <2>3. CASE FindsPending(r)
      BY <2>3 DEF FindsPending
    <2>4. CASE LockSession(r)
      BY <2>4 DEF LockSession
    <2>5. CASE ApplyVersion(r)
      BY <2>5 DEF ApplyVersion
    <2>6. CASE UpSucceeds(r)
      BY <2>6 DEF UpSucceeds
    <2>7. CASE UpFails(r)
      BY <2>7 DEF UpFails, SessionBreaks
    <2>8. CASE Unlocked(r)
      BY <2>8 DEF Unlocked, Leave
    <2>9. CASE UnlockFails(r)
      BY <2>9 DEF UnlockFails, Leave, SessionBreaks
    <2>10. CASE BootFails(r)
      BY <2>10 DEF BootFails, Leave, SessionBreaks
    <2>11. CASE Migrated(r)
      BY <2>11 DEF Migrated, Leave
    <2> QED
      BY <1>1, <2>1, <2>2, <2>3, <2>4, <2>5, <2>6, <2>7, <2>8, <2>9, <2>10, <2>11 DEF Boot
  <1>2. ASSUME NEW r \in Replicas, Run(r)
        PROVE  BootTypeOK'
    <2>1. CASE Listen(r)
      BY <2>1 DEF Listen
    <2>2. CASE ListenFails(r)
      BY <2>2 DEF ListenFails
    <2>3. CASE ServeFails(r)
      BY <2>3 DEF ServeFails
    <2>4. CASE StopWorker(r)
      BY <2>4 DEF StopWorker
    <2>5. CASE Drained(r)
      BY <2>5 DEF Drained
    <2>6. CASE CloseMetrics(r)
      BY <2>6 DEF CloseMetrics
    <2>7. CASE ClosePool(r)
      BY <2>7 DEF ClosePool
    <2>8. CASE Crash(r)
      BY <2>8 DEF Crash, Leave, SessionBreaks
    <2> QED
      BY <1>2, <2>1, <2>2, <2>3, <2>4, <2>5, <2>6, <2>7, <2>8 DEF Run
  <1>3. CASE OrphanCommits
    BY <1>3 DEF OrphanCommits
  <1>4. CASE OrphanEnds
    BY <1>4 DEF OrphanEnds
  <1>5. CASE BootTick
    BY <1>5 DEF BootTick
  <1>6. CASE UNCHANGED bootVars
    BY <1>6 DEF bootVars
  <1> QED
    BY <1>1, <1>2, <1>3, <1>4, <1>5, <1>6 DEF BootNext

(* A replica goes from one stage to the next and leaves the database alone. *)
LEMMA MoveStep ==
  ASSUME BootInv, NEW r \in Replicas, NEW s \in Stages, To(r, s),
         s # "applying", s \in UpToDate => stage[r] \in UpToDate \/ Len(log) >= Versions,
         \A q \in Replicas : q # r => next'[q] = next[q], UNCHANGED dbVars
  PROVE  OneApplies' /\ MigratedByThen' /\ MigratedOnceInOrder'
  <1>1. stage'[r] = s /\ \A q \in Replicas : q # r => stage'[q] = stage[q]
    BY DEF To, BootInv, BootTypeOK
  <1>2. OneApplies'
    BY <1>1 DEF BootInv, OneApplies, dbVars
  <1>3. MigratedByThen'
    BY <1>1 DEF BootInv, MigratedByThen, dbVars
  <1>4. MigratedOnceInOrder'
    BY DEF BootInv, MigratedOnceInOrder, dbVars
  <1> QED
    BY <1>2, <1>3, <1>4

(* Its session breaks, and it is not among those that apply or are up to   *)
(* date any more.                                                          *)
LEMMA BreakStep ==
  ASSUME BootInv, NEW r \in Replicas, NEW s \in Stages, To(r, s),
         s \notin UpToDate \cup {"applying"},
         \A q \in Replicas : q # r => next'[q] = next[q], SessionBreaks(r)
  PROVE  OneApplies' /\ MigratedByThen' /\ MigratedOnceInOrder'
  <1>1. stage'[r] = s /\ \A q \in Replicas : q # r => stage'[q] = stage[q]
    BY DEF To, BootInv, BootTypeOK
  <1>2. \A q \in Replicas : q # r /\ stage[q] = "applying" => lock' = q
    BY NamesOK DEF SessionBreaks, BootInv, OneApplies
  <1>3. orphan' # 0 => lock' = Orphan /\ orphan' = Len(log) + 1
    <2>1. CASE orphan' = orphan
      BY <2>1, NamesOK DEF SessionBreaks, BootInv, OneApplies, Free, Orphan
    <2>2. CASE stage[r] = "applying" /\ orphan' = next[r]
      BY <2>2 DEF SessionBreaks, BootInv, OneApplies
    <2> QED
      BY <2>1, <2>2 DEF SessionBreaks
  <1>4. OneApplies'
    BY <1>1, <1>2, <1>3 DEF BootInv, OneApplies, SessionBreaks
  <1>5. MigratedByThen' /\ MigratedOnceInOrder'
    BY <1>1 DEF BootInv, MigratedByThen, MigratedOnceInOrder, SessionBreaks
  <1> QED
    BY <1>4, <1>5

(* One more version is applied, by the one who may.                        *)
LEMMA AppendStep ==
  ASSUME BootInv, log' = Append(log, Len(log) + 1), UNCHANGED stage
  PROVE  /\ MigratedByThen' /\ MigratedOnceInOrder'
         /\ Len(log') = Len(log) + 1
  <1>1. log \in Seq(Nat) /\ Len(log) \in Nat
    BY DEF BootInv, BootTypeOK
  <1>2. /\ Len(log') = Len(log) + 1
        /\ DOMAIN log' = 1..(Len(log) + 1)
        /\ \A i \in 1..Len(log) : log'[i] = log[i]
        /\ log'[Len(log) + 1] = Len(log) + 1
    BY <1>1
  <1>3. MigratedByThen'
    BY <1>1, <1>2, BudgetOK DEF BootInv, MigratedByThen
  <1>4. MigratedOnceInOrder'
    BY <1>1, <1>2 DEF BootInv, MigratedOnceInOrder
  <1> QED
    BY <1>2, <1>3, <1>4

(* Who holds what changes for one replica at a time.                       *)
LEMMA HoldStep ==
  ASSUME BootInv, BootTypeOK', NEW r \in Replicas,
         \A q \in Replicas : q # r => stage'[q] = stage[q] /\ holds'[q] = holds[q],
         holds'[r] \in MayHold(stage'[r])
  PROVE  HoldsByStage'
  BY DEF BootInv, HoldsByStage, MayHold

(* The steps of start-up.                                                  *)
LEMMA BootStep ==
  ASSUME BootInv, NEW r \in Replicas, Boot(r)
  PROVE  BootInv'
  <1> USE DEF Leave, dbVars
  <1>1. BootTypeOK'
    BY TypeStep DEF BootInv, BootNext
  <1>2. stage[r] \in Stages /\ holds[r] \in MayHold(stage[r])
    BY DEF BootInv, BootTypeOK, HoldsByStage
  <1>3. \A q \in Replicas : q # r => stage'[q] = stage[q] /\ holds'[q] = holds[q]
    BY DEF Boot, StartProcess, Connected, FindsPending, LockSession, ApplyVersion, UpSucceeds, UpFails,
           Unlocked, UnlockFails, BootFails, Migrated, To, Opens, BootInv, BootTypeOK
  <1>4. ASSUME holds'[r] \in MayHold(stage'[r]), OneApplies', MigratedByThen', MigratedOnceInOrder'
        PROVE  BootInv'
    BY <1>1, <1>3, <1>4, HoldStep DEF BootInv
  <1>5. CASE StartProcess(r)
    <2>1. OneApplies' /\ MigratedByThen' /\ MigratedOnceInOrder'
      BY <1>5, MoveStep DEF StartProcess, Stages, Booting, UpToDate
    <2>2. holds'[r] \in MayHold(stage'[r])
      <3>1. holds[r] = {}
        BY <1>2, <1>5 DEF StartProcess, MayHold, Booting
      <3>2. holds'[r] = {} /\ stage'[r] = "connecting"
        BY <1>5, <3>1 DEF StartProcess, To, BootInv, BootTypeOK
      <3> QED
        BY <3>2 DEF MayHold
    <2> QED
      BY <1>4, <2>1, <2>2
  <1>6. CASE Connected(r)
    <2>1. OneApplies' /\ MigratedByThen' /\ MigratedOnceInOrder'
      BY <1>6, MoveStep DEF Connected, Stages, Booting, UpToDate
    <2>2. holds'[r] \in MayHold(stage'[r])
      <3>1. holds[r] = {}
        BY <1>2, <1>6 DEF Connected, MayHold
      <3>2. holds'[r] = {"pool"} /\ stage'[r] = "listing"
        BY <1>6, <3>1 DEF Connected, To, Opens, BootInv, BootTypeOK
      <3> QED
        BY <3>2 DEF MayHold, Booting
    <2> QED
      BY <1>4, <2>1, <2>2
  <1>7. CASE FindsPending(r)
    <2>1. OneApplies' /\ MigratedByThen' /\ MigratedOnceInOrder'
      <3>1. CASE To(r, "locking")
        BY <1>7, <3>1, MoveStep DEF FindsPending, Stages, Booting, UpToDate
      <3>2. CASE Len(log) >= Versions /\ To(r, "checking")
        BY <1>7, <3>2, MoveStep DEF FindsPending, Stages, Booting, UpToDate
      <3>3. Len(log) \in Nat
        BY DEF BootInv, BootTypeOK
      <3> QED
        BY <1>7, <3>1, <3>2, <3>3, BudgetOK DEF FindsPending
    <2>2. holds'[r] \in MayHold(stage'[r])
      BY <1>2, <1>7 DEF FindsPending, MayHold, Booting, To, BootInv, BootTypeOK
    <2> QED
      BY <1>4, <2>1, <2>2
  <1>8. CASE LockSession(r)
    <2>1. OneApplies' /\ MigratedByThen' /\ MigratedOnceInOrder'
      BY <1>8, NamesOK DEF LockSession, To, BootInv, BootTypeOK, OneApplies, MigratedByThen,
                           MigratedOnceInOrder, UpToDate, Free, Orphan
    <2>2. holds'[r] \in MayHold(stage'[r])
      BY <1>2, <1>8 DEF LockSession, MayHold, Booting, To, BootInv, BootTypeOK
    <2> QED
      BY <1>4, <2>1, <2>2
  <1>9. CASE ApplyVersion(r)
    <2>1. log' = Append(log, Len(log) + 1) /\ UNCHANGED <<stage, lock, orphan>>
      BY <1>9 DEF ApplyVersion, BootInv, OneApplies
    <2>2. MigratedByThen' /\ MigratedOnceInOrder' /\ Len(log') = Len(log) + 1
      BY <2>1, AppendStep
    <2>3. OneApplies'
      BY <1>9, <2>1, <2>2, NamesOK DEF ApplyVersion, BootInv, BootTypeOK, OneApplies
    <2>4. holds'[r] \in MayHold(stage'[r])
      BY <1>2, <1>9 DEF ApplyVersion
    <2> QED
      BY <1>4, <2>2, <2>3, <2>4
  <1>10. CASE UpSucceeds(r)
    <2>1. Len(log) >= Versions
      BY <1>10, BudgetOK DEF UpSucceeds, BootInv, BootTypeOK, OneApplies
    <2>2. OneApplies' /\ MigratedByThen' /\ MigratedOnceInOrder'
      BY <1>10, <2>1, MoveStep DEF UpSucceeds, Stages, Booting, UpToDate
    <2>3. holds'[r] \in MayHold(stage'[r])
      BY <1>2, <1>10 DEF UpSucceeds, MayHold, Booting, To, BootInv, BootTypeOK
    <2> QED
      BY <1>4, <2>2, <2>3
  <1>11. CASE UpFails(r)
    <2>1. OneApplies' /\ MigratedByThen' /\ MigratedOnceInOrder'
      <3>1. CASE UNCHANGED dbVars
        BY <1>11, <3>1, MoveStep DEF UpFails, Stages, Booting, UpToDate
      <3>2. CASE SessionBreaks(r)
        BY <1>11, <3>2, BreakStep DEF UpFails, Stages, Booting, UpToDate
      <3> QED
        BY <1>11, <3>1, <3>2 DEF UpFails
    <2>2. holds'[r] \in MayHold(stage'[r])
      BY <1>2, <1>11 DEF UpFails, MayHold, Booting, To, BootInv, BootTypeOK
    <2> QED
      BY <1>4, <2>1, <2>2
  <1>12. CASE Unlocked(r)
    <2> DEFINE s == stage'[r]
    <2>1. /\ s \in {"checking", "leaving"}
          /\ s \in UpToDate => stage[r] \in UpToDate
          /\ lock' = IF lock = r THEN Free ELSE lock
          /\ UNCHANGED <<next, holds, orphan, log>>
      BY <1>12 DEF Unlocked, To, UpToDate, BootInv, BootTypeOK
    <2>2. OneApplies'
      BY <1>3, <1>12, <2>1, NamesOK DEF Unlocked, BootInv, OneApplies
    <2>3. MigratedByThen' /\ MigratedOnceInOrder'
      BY <1>3, <2>1 DEF BootInv, MigratedByThen, MigratedOnceInOrder
    <2>4. holds'[r] \in MayHold(s)
      BY <1>2, <1>12, <2>1 DEF Unlocked, MayHold, Booting, Parts
    <2> QED
      BY <1>4, <2>2, <2>3, <2>4
  <1>13. CASE UnlockFails(r)
    <2>1. OneApplies' /\ MigratedByThen' /\ MigratedOnceInOrder'
      BY <1>13, BreakStep DEF UnlockFails, Stages, Booting, UpToDate
    <2>2. holds'[r] \in MayHold(stage'[r])
      BY <1>2, <1>13 DEF UnlockFails, MayHold, Booting, To, BootInv, BootTypeOK
    <2> QED
      BY <1>4, <2>1, <2>2
  <1>14. CASE BootFails(r)
    <2>1. OneApplies' /\ MigratedByThen' /\ MigratedOnceInOrder'
      <3>1. CASE UNCHANGED dbVars
        BY <1>14, <3>1, MoveStep DEF BootFails, Stages, Booting, UpToDate
      <3>2. CASE SessionBreaks(r)
        BY <1>14, <3>2, BreakStep DEF BootFails, Stages, Booting, UpToDate
      <3> QED
        BY <1>14, <3>1, <3>2 DEF BootFails
    <2>2. holds'[r] \in MayHold(stage'[r])
      BY <1>2, <1>14 DEF BootFails, MayHold, Booting, To, BootInv, BootTypeOK
    <2> QED
      BY <1>4, <2>1, <2>2
  <1>15. CASE Migrated(r)
    <2>1. OneApplies' /\ MigratedByThen' /\ MigratedOnceInOrder'
      BY <1>15, MoveStep DEF Migrated, Stages, Booting, UpToDate
    <2>2. holds'[r] \in MayHold(stage'[r])
      <3>1. holds[r] = {"pool"}
        BY <1>2, <1>15 DEF Migrated, MayHold, Booting
      <3>2. holds'[r] = {"pool", "worker"} /\ stage'[r] = "starting"
        BY <1>15, <3>1 DEF Migrated, To, Opens, BootInv, BootTypeOK
      <3> QED
        BY <3>2 DEF MayHold, Booting
    <2> QED
      BY <1>4, <2>1, <2>2
  <1> QED
    BY <1>5, <1>6, <1>7, <1>8, <1>9, <1>10, <1>11, <1>12, <1>13, <1>14, <1>15 DEF Boot

(* The steps from start-up to shutdown.                                    *)
LEMMA RunStep ==
  ASSUME BootInv, NEW r \in Replicas, Run(r)
  PROVE  BootInv'
  <1> USE DEF Leave, dbVars
  <1>1. BootTypeOK'
    BY TypeStep DEF BootInv, BootNext
  <1>2. holds[r] \in MayHold(stage[r])
    BY DEF BootInv, HoldsByStage
  <1>3. \A q \in Replicas : q # r => stage'[q] = stage[q] /\ holds'[q] = holds[q]
    BY DEF Run, Listen, ListenFails, ServeFails, StopWorker, Drained, CloseMetrics, ClosePool, Crash,
           To, Opens, Closes, BootInv, BootTypeOK
  <1>4. OneApplies' /\ MigratedByThen' /\ MigratedOnceInOrder'
    <2>1. CASE Listen(r)
      BY <2>1, MoveStep DEF Listen, Stages, UpToDate
    <2>2. CASE ListenFails(r)
      BY <2>2, MoveStep DEF ListenFails, Stages, UpToDate
    <2>3. CASE ServeFails(r)
      BY <2>3, MoveStep DEF ServeFails, Stages, UpToDate
    <2>4. CASE StopWorker(r)
      BY <2>4, MoveStep DEF StopWorker, Stages, UpToDate
    <2>5. CASE Drained(r)
      BY <2>5, MoveStep DEF Drained, Stages, UpToDate
    <2>6. CASE CloseMetrics(r)
      BY <2>6 DEF CloseMetrics, BootInv, OneApplies, MigratedByThen, MigratedOnceInOrder
    <2>7. CASE ClosePool(r)
      BY <2>7, MoveStep DEF ClosePool, Stages, UpToDate
    <2>8. CASE Crash(r)
      BY <2>8, BreakStep DEF Crash, Stages, UpToDate, BootInv, BootTypeOK
    <2> QED
      BY <2>1, <2>2, <2>3, <2>4, <2>5, <2>6, <2>7, <2>8 DEF Run
  <1>5. holds'[r] \in MayHold(stage'[r])
    <2> USE DEF MayHold, Booting, Parts, To, Opens, Closes, BootInv, BootTypeOK
    <2>1. CASE Listen(r)
      BY <1>1, <1>2, <2>1 DEF Listen
    <2>2. CASE ListenFails(r)
      BY <1>1, <1>2, <2>2 DEF ListenFails
    <2>3. CASE ServeFails(r)
      BY <1>1, <1>2, <2>3 DEF ServeFails
    <2>4. CASE StopWorker(r)
      BY <1>1, <1>2, <2>4 DEF StopWorker
    <2>5. CASE Drained(r)
      BY <1>1, <1>2, <2>5 DEF Drained
    <2>6. CASE CloseMetrics(r)
      BY <1>1, <1>2, <2>6 DEF CloseMetrics
    <2>7. CASE ClosePool(r)
      BY <1>1, <1>2, <2>7 DEF ClosePool
    <2>8. CASE Crash(r)
      BY <1>2, <2>8 DEF Crash
    <2> QED
      BY <2>1, <2>2, <2>3, <2>4, <2>5, <2>6, <2>7, <2>8 DEF Run
  <1> QED
    BY <1>1, <1>3, <1>4, <1>5, HoldStep DEF BootInv

(* The invariant of who applies, what is migrated and what is held.        *)
LEMMA BootInvHolds == BootSpec => []BootInv
  <1>1. BootInit => BootInv
    BY BudgetOK DEF BootInit, BootInv, BootTypeOK, OneApplies, MigratedByThen, HoldsByStage,
                    MigratedOnceInOrder, UpToDate, MayHold, Stages, Booting, Parts
  <1>2. BootInv /\ [BootNext]_bootVars => BootInv'
    <2> SUFFICES ASSUME BootInv, [BootNext]_bootVars
                 PROVE  BootInv'
      OBVIOUS
    <2>1. BootTypeOK'
      BY TypeStep DEF BootInv
    <2>2. CASE \E r \in Replicas : Boot(r) \/ Run(r)
      BY <2>2, BootStep, RunStep
    <2>3. CASE OrphanCommits
      <3>1. log' = Append(log, Len(log) + 1) /\ UNCHANGED <<stage, next, holds, lock>> /\ orphan' = 0
        BY <2>3 DEF OrphanCommits, BootInv, OneApplies
      <3>2. MigratedByThen' /\ MigratedOnceInOrder'
        BY <3>1, AppendStep
      <3>3. OneApplies'
        BY <2>3, <3>1, NamesOK DEF OrphanCommits, BootInv, OneApplies
      <3> QED
        BY <2>1, <3>1, <3>2, <3>3 DEF BootInv, HoldsByStage
    <2>4. CASE OrphanEnds
      BY <2>1, <2>4, NamesOK DEF OrphanEnds, BootInv, OneApplies, MigratedByThen, HoldsByStage,
                                 MigratedOnceInOrder
    <2>5. CASE BootTick
      BY <2>1, <2>5 DEF BootTick, dbVars, BootInv, OneApplies, MigratedByThen, HoldsByStage,
                        MigratedOnceInOrder
    <2>6. CASE UNCHANGED bootVars
      BY <2>1, <2>6 DEF bootVars, BootInv, OneApplies, MigratedByThen, HoldsByStage,
                        MigratedOnceInOrder
    <2> QED
      BY <2>2, <2>3, <2>4, <2>5, <2>6 DEF BootNext
  <1> QED
    BY <1>1, <1>2, PTL DEF BootSpec

(* However many replicas start, fail and die, each migration is applied    *)
(* once and in order (migrate.go:56, goose.WithSessionLocker).             *)
THEOREM OnceInOrder == BootSpec => []MigratedOnceInOrder
  <1>1. BootInv => MigratedOnceInOrder
    BY DEF BootInv
  <1> QED
    BY <1>1, BootInvHolds, PTL

(* No worker runs and nothing is served on an older schema (main.go:79).   *)
THEOREM SchemaFirst == BootSpec => []SchemaBeforeWork
  <1>1. BootInv => SchemaBeforeWork
    BY DEF BootInv, BootTypeOK, HoldsByStage, MigratedByThen, UpToDate, SchemaBeforeWork, MayHold,
           Stages, Booting
  <1> QED
    BY <1>1, BootInvHolds, PTL

(* The pool is closed last, however run() ends (main.go:150).              *)
THEOREM PoolLast == BootSpec => []PoolOutlivesUsers
  <1>1. BootInv => PoolOutlivesUsers
    BY DEF BootInv, BootTypeOK, HoldsByStage, PoolOutlivesUsers, MayHold, Stages, Booting
  <1> QED
    BY <1>1, BootInvHolds, PTL

(* The clock of one replica is set for its next stage.                     *)
LEMMA ClockStep ==
  ASSUME WithinBudget, BootTypeOK, NEW r \in Replicas, NEW s \in Stages, To(r, s),
         NEW c \in Clock, time' = [time EXCEPT ![r] = c],
         s \in Booting => OnTime(c, s)
  PROVE  WithinBudget'
  <1>1. /\ stage'[r] = s /\ \A q \in Replicas : q # r => stage'[q] = stage[q]
        /\ time' \in [Replicas -> Clock]
        /\ time'[r] = c /\ \A q \in Replicas : q # r => time'[q] = time[q]
    BY DEF To, BootTypeOK, WithinBudget
  <1> QED
    BY <1>1 DEF WithinBudget

(* A replica that has left start-up has no deadline.                       *)
LEMMA NoClockStep ==
  ASSUME WithinBudget, BootTypeOK, NEW r \in Replicas, NEW s \in Stages \ Booting, To(r, s),
         time' = time \/ time' = [time EXCEPT ![r] = NoClock]
  PROVE  WithinBudget'
  <1>1. stage'[r] = s /\ \A q \in Replicas : q # r => stage'[q] = stage[q]
    BY DEF To, BootTypeOK
  <1>2. /\ time' \in [Replicas -> Clock]
        /\ \A q \in Replicas : q # r => time'[q] = time[q]
    BY DEF WithinBudget, NoClock, Clock
  <1> QED
    BY <1>1, <1>2 DEF WithinBudget

(* The steps of start-up keep to the budgets.                              *)
LEMMA BudgetStep ==
  ASSUME WithinBudget, BootTypeOK, NEW r \in Replicas, Boot(r)
  PROVE  WithinBudget'
  <1> DEFINE c == time[r]
             Limit(t) == [c EXCEPT !.limit = t]
  <1> USE BudgetOK DEF Booting, Stages, Age
  <1>1. c.age \in Nat /\ c.due \in Nat /\ c.limit \in Nat
    BY DEF WithinBudget, Clock
  <1>2. stage[r] \in Booting => OnTime(c, stage[r])
    BY DEF WithinBudget
  <1>3. ASSUME NEW t \in Nat
        PROVE  /\ Limit(t) \in Clock
               /\ Limit(t).age = c.age /\ Limit(t).due = c.due /\ Limit(t).limit = t
    <2>1. c \in Clock
      BY DEF WithinBudget
    <2> QED
      BY <2>1 DEF Clock
  <1>4. ASSUME NEW s \in Booting \ {"connecting"}, NEW t \in Nat, To(r, s), Until(r, t),
               c.age <= t, t <= Budget(s), c.due <= Connect + Total,
               s \in {"unlocking", "abandoning"} \/ t <= c.due
        PROVE  WithinBudget'
    <2>1. time' = [time EXCEPT ![r] = Limit(t)]
      BY <1>4 DEF Until
    <2>2. OnTime(Limit(t), s)
      BY <1>3, <1>4 DEF OnTime
    <2> HIDE DEF Limit
    <2> QED
      BY <1>3, <1>4, <2>1, <2>2, ClockStep
  <1>5. CASE StartProcess(r)
    <2> DEFINE d == [age |-> 0, due |-> 0, limit |-> Connect]
    <2>1. d \in Clock /\ OnTime(d, "connecting")
      BY DEF Clock, OnTime, Budget
    <2>2. time' = [time EXCEPT ![r] = d] /\ To(r, "connecting")
      BY <1>5 DEF StartProcess
    <2> HIDE DEF d
    <2> QED
      BY <2>1, <2>2, ClockStep
  <1>6. CASE Connected(r)
    <2> DEFINE d == [age |-> c.age, due |-> c.age + Total, limit |-> c.age + Total]
    <2>1. c.age <= Connect
      BY <1>1, <1>2, <1>6 DEF Connected, OnTime, Budget
    <2>2. d \in Clock /\ OnTime(d, "listing")
      BY <1>1, <2>1 DEF Clock, OnTime, Budget
    <2>3. time' = [time EXCEPT ![r] = d] /\ To(r, "listing")
      BY <1>6 DEF Connected
    <2> HIDE DEF d
    <2> QED
      BY <2>2, <2>3, ClockStep
  <1>7. CASE FindsPending(r)
    <2>1. /\ c.age <= c.limit /\ c.limit <= c.due /\ c.due <= Connect + Total
      BY <1>1, <1>2, <1>7 DEF FindsPending, OnTime
    <2>2. CASE To(r, "locking") /\ Until(r, LockLimit(r))
      <3>1. LockLimit(r) \in Nat /\ c.age <= LockLimit(r) /\ LockLimit(r) <= c.due
        BY <1>1, <2>1 DEF LockLimit
      <3>2. LockLimit(r) <= Budget("locking")
        BY <1>1, <2>1, <3>1 DEF Budget
      <3> QED
        BY <1>4, <2>1, <2>2, <3>1, <3>2
    <2>3. CASE To(r, "checking") /\ UNCHANGED time
      <3>1. stage' = [stage EXCEPT ![r] = "checking"] /\ time' = time
        BY <2>3 DEF To
      <3>2. OnTime(c, "checking")
        BY <1>1, <2>1 DEF OnTime, Budget
      <3> QED
        BY <3>1, <3>2 DEF WithinBudget, BootTypeOK
    <2> QED
      BY <1>7, <2>2, <2>3 DEF FindsPending
  <1>8. CASE LockSession(r)
    <2>1. c.age <= c.due /\ c.due <= Connect + Total /\ To(r, "applying") /\ Until(r, c.due)
      BY <1>1, <1>2, <1>8 DEF LockSession, OnTime
    <2>2. c.due <= Budget("applying")
      BY <2>1 DEF Budget
    <2> QED
      BY <1>1, <1>4, <2>1, <2>2
  <1>9. CASE ApplyVersion(r)
    BY <1>9 DEF ApplyVersion, WithinBudget
  <1>10. CASE UpSucceeds(r) \/ UpFails(r)
    <2>1. PICK s \in {"unlocking", "abandoning"} : To(r, s) /\ Until(r, c.age + Unlock)
      BY <1>10 DEF UpSucceeds, UpFails, UnlockLimit
    <2>2. c.age <= c.due /\ c.due <= Connect + Total
      BY <1>1, <1>2, <1>10 DEF UpSucceeds, UpFails, OnTime
    <2>3. c.age + Unlock <= Budget(s) /\ c.age <= c.age + Unlock /\ c.age + Unlock \in Nat
      BY <1>1, <2>2 DEF Budget
    <2> QED
      BY <1>4, <2>1, <2>2, <2>3
  <1>11. CASE Unlocked(r)
    <2>1. CASE Leave(r, "leaving")
      BY <2>1, NoClockStep DEF Leave
    <2>2. CASE c.age <= c.due /\ To(r, "checking") /\ Until(r, c.due)
      <3>1. c.due <= Connect + Total
        BY <1>2, <1>11 DEF Unlocked, OnTime
      <3>2. c.due <= Budget("checking")
        BY <3>1 DEF Budget
      <3> QED
        BY <1>1, <1>4, <2>2, <3>1, <3>2
    <2> QED
      BY <1>11, <2>1, <2>2 DEF Unlocked
  <1>12. CASE UnlockFails(r)
    BY <1>12, NoClockStep DEF UnlockFails, Leave
  <1>13. CASE BootFails(r)
    BY <1>13, NoClockStep DEF BootFails, Leave
  <1>14. CASE Migrated(r)
    BY <1>14, NoClockStep DEF Migrated, Leave
  <1> QED
    BY <1>5, <1>6, <1>7, <1>8, <1>9, <1>10, <1>11, <1>12, <1>13, <1>14 DEF Boot

(* Time passes for those who are before their deadline.                    *)
LEMMA BootTickStep ==
  ASSUME WithinBudget, BootTypeOK, BootTick
  PROVE  WithinBudget'
  <1>1. ASSUME NEW r \in Replicas
        PROVE  /\ time'[r] \in Clock
               /\ stage[r] \in Booting => OnTime(time'[r], stage[r])
    <2>1. time[r] \in Clock
      BY DEF WithinBudget
    <2>2. CASE stage[r] \in Booting
      <3>1. time'[r] = [time[r] EXCEPT !.age = @ + 1] /\ time[r].age < time[r].limit
        BY <2>2 DEF BootTick, Age
      <3>2. /\ time'[r] \in Clock /\ time'[r].age = time[r].age + 1
            /\ time'[r].due = time[r].due /\ time'[r].limit = time[r].limit
            /\ time[r].age \in Nat /\ time[r].limit \in Nat
        BY <2>1, <3>1 DEF Clock
      <3>3. OnTime(time[r], stage[r])
        BY <2>2 DEF WithinBudget
      <3> QED
        BY <3>1, <3>2, <3>3 DEF OnTime
    <2>3. CASE stage[r] \notin Booting
      BY <2>1, <2>3 DEF BootTick
    <2> QED
      BY <2>2, <2>3
  <1>2. time' = [r \in Replicas |-> time'[r]] /\ stage' = stage
    BY DEF BootTick
  <1> QED
    BY <1>1, <1>2 DEF WithinBudget

(* Start-up ends within the healthcheck's start period, for all budgets    *)
(* that fit into it together (timeouts.go:17).                             *)
THEOREM StartIsBounded == BootSpec => []BootIsBounded
  <1>1. BootInit => WithinBudget
    BY DEF BootInit, WithinBudget, NoClock, Clock, Booting
  <1>2. WithinBudget /\ BootTypeOK /\ [BootNext]_bootVars => WithinBudget'
    <2> SUFFICES ASSUME WithinBudget, BootTypeOK, [BootNext]_bootVars
                 PROVE  WithinBudget'
      OBVIOUS
    <2>1. ASSUME NEW r \in Replicas, Run(r)
          PROVE  WithinBudget'
      <3> USE DEF Stages, Booting
      <3>1. CASE Listen(r)
        BY <3>1, NoClockStep DEF Listen
      <3>2. CASE ListenFails(r)
        BY <3>2, NoClockStep DEF ListenFails
      <3>3. CASE ServeFails(r)
        BY <3>3, NoClockStep DEF ServeFails
      <3>4. CASE StopWorker(r)
        BY <3>4, NoClockStep DEF StopWorker
      <3>5. CASE Drained(r)
        BY <3>5, NoClockStep DEF Drained
      <3>6. CASE CloseMetrics(r)
        BY <3>6 DEF CloseMetrics, WithinBudget
      <3>7. CASE ClosePool(r)
        BY <3>7, NoClockStep DEF ClosePool
      <3>8. CASE Crash(r)
        BY <3>8, NoClockStep DEF Crash, Leave
      <3> QED
        BY <2>1, <3>1, <3>2, <3>3, <3>4, <3>5, <3>6, <3>7, <3>8 DEF Run
    <2>2. CASE OrphanCommits \/ OrphanEnds \/ UNCHANGED bootVars
      BY <2>2 DEF OrphanCommits, OrphanEnds, bootVars, WithinBudget
    <2> QED
      BY <2>1, <2>2, BudgetStep, BootTickStep DEF BootNext
  <1>3. WithinBudget => BootIsBounded
    BY BudgetOK DEF WithinBudget, Clock, OnTime, Budget, BootIsBounded, Age, Booting
  <1>4. BootInv => BootTypeOK
    BY DEF BootInv
  <1> QED
    BY <1>1, <1>2, <1>3, <1>4, BootInvHolds, PTL DEF BootSpec
=============================================================================
