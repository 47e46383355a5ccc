------------------------ MODULE SummaryRefreshProofs ------------------------
(***************************************************************************)
(* Proofs about SummaryRefresh, for any entries, URLs, loops and requests. *)
(* LockInv comes first: a step moves one process, and takes or gives up     *)
(* only the locks of that process.  Then TextInv: a step changes one row   *)
(* and one claim; the other claims on that row are not inside a            *)
(* transaction, because the row's lock is free or the step's own.          *)
(***************************************************************************)
EXTENDS SummaryRefresh, TLAPS

-----------------------------------------------------------------------------
(* The inductive invariant.  Whoever has updated an entry and not yet      *)
(* committed holds its lock, and only such a transaction takes a cache row, *)
(* as its last statement; so nothing but time changes the row that a worker *)
(* is about to complete.  A queued or running job of an entry that was ever *)
(* refreshed is forced, and its token is younger than the refresh.         *)

InTransaction == {"saved first", "committing", "committing cached",
                  "reset first", "committing reset"}

LocksHaveOwners ==
    /\ \A e \in Entries : entryLock[e] # Nobody =>
          Action(entryLock[e]).stage \in InTransaction /\ Action(entryLock[e]).entry = e
    /\ \A u \in Urls : cacheLock[u] # Nobody =>
          Action(cacheLock[u]).stage \in {"committing", "committing reset"}

OwnersHaveLocks ==
    \A p \in Procs : Action(p).stage \in InTransaction => entryLock[Action(p).entry] = p

\* What holds of a claim and the row that it was made on, t being the last token.
IsKnown(c, r, t) ==
    /\ c.token # 0 /\ c.token <= t
    /\ r.token = c.token => r.force = c.force
    /\ c.stage \in InTransaction => r.status = "processing" /\ r.token = c.token
    /\ c.stage \in {"saving", "saved first", "committing"} => c.text = c.token
    /\ c.stage \in {"saving cached", "committing cached"} => ~c.force

ClaimsAreKnown ==
    \A w \in Workers : job[w] # Idle => IsKnown(job[w], row[job[w].entry], lastToken)

QueuedJobsAreForced ==
    \A e \in Entries :
       /\ row[e].token <= lastToken /\ refreshed[e] <= lastToken
       /\ row[e].token # 0 => row[e].status = "processing" /\ row[e].token > refreshed[e]
       /\ row[e].status \in {"pending", "processing"} =>
             ~userText[e] /\ (refreshed[e] > 0 => row[e].force)

LockInv == ProcTypeOK /\ LocksHaveOwners /\ OwnersHaveLocks

TextInv ==
    /\ DataTypeOK /\ ClaimsAreKnown /\ QueuedJobsAreForced
    /\ RefreshShowsFreshText /\ UserTextWaitsForRefresh

IInv == LockInv /\ TextInv

-----------------------------------------------------------------------------
(* Claims, requests and rows as records.                                   *)

LEMMA ClaimFields ==
    ASSUME NEW c \in Claims
    PROVE  /\ c.stage \in ClaimStages
           /\ c.entry \in Entries /\ c.token \in Nat /\ c.url \in Urls
           /\ c.force \in BOOLEAN /\ c.text \in Int
           /\ c # Idle
  <1>1. c.stage # "idle"
    BY DEF Claims, ClaimStages
  <1>2. c # Idle
    BY <1>1 DEF Idle
  <1> QED BY <1>2 DEF Claims

LEMMA ClaimMoves ==
    ASSUME NEW c \in Claims,
           NEW s \in ClaimStages
    PROVE  /\ [c EXCEPT !.stage = s] \in Claims
           /\ [c EXCEPT !.stage = s].stage = s
           /\ [c EXCEPT !.stage = s].entry = c.entry
           /\ [c EXCEPT !.stage = s].token = c.token
           /\ [c EXCEPT !.stage = s].force = c.force
           /\ [c EXCEPT !.stage = s].text = c.text
  BY DEF Claims

LEMMA ClaimTold ==
    ASSUME NEW c \in Claims, NEW t \in Int, NEW s \in ClaimStages
    PROVE  /\ Told(c, t, s) \in Claims
           /\ Told(c, t, s).stage = s /\ Told(c, t, s).text = t
           /\ Told(c, t, s).entry = c.entry /\ Told(c, t, s).token = c.token
           /\ Told(c, t, s).force = c.force
  BY DEF Claims, Told

LEMMA NewClaim ==
    ASSUME NEW e \in Entries, NEW t \in Nat, row[e] \in Rows
    PROVE  /\ Claim(e, t) \in Claims
           /\ Claim(e, t).stage = "claimed" /\ Claim(e, t).entry = e
           /\ Claim(e, t).token = t /\ Claim(e, t).force = row[e].force
  BY DEF Claims, ClaimStages, Claim, Rows, NoText

LEMMA RequestFields ==
    ASSUME NEW r \in Requests
    PROVE  /\ r.stage \in {"resetting", "reset first", "committing reset"}
           /\ r.entry \in Entries
           /\ r # Idle
  <1>1. r.stage # "idle"
    BY DEF Requests
  <1>2. r # Idle
    BY <1>1 DEF Idle
  <1> QED BY <1>2 DEF Requests

LEMMA RequestMoves ==
    ASSUME NEW r \in Requests, NEW s \in {"resetting", "reset first", "committing reset"}
    PROVE  /\ [r EXCEPT !.stage = s] \in Requests
           /\ [r EXCEPT !.stage = s].stage = s
           /\ [r EXCEPT !.stage = s].entry = r.entry
  BY DEF Requests

LEMMA RowFields ==
    ASSUME NEW r \in Rows
    PROVE  /\ r.status \in Statuses /\ r.token \in Nat /\ r.force \in BOOLEAN
           /\ r.text \in Int /\ r.url \in Urls
  BY DEF Rows

LEMMA RowReleased ==
    ASSUME NEW r \in Rows, NEW s \in Statuses
    PROVE  /\ Released(r, s) \in Rows
           /\ Released(r, s).status = s /\ Released(r, s).token = 0
           /\ Released(r, s).force = r.force /\ Released(r, s).text = r.text
  BY DEF Rows, Released

LEMMA RowForced ==
    ASSUME NEW r \in Rows
    PROVE  /\ Forced(r) \in Rows
           /\ Forced(r).status = "pending" /\ Forced(r).token = 0
           /\ Forced(r).force = TRUE /\ Forced(r).text = r.text
  BY DEF Rows, Forced, Released, Statuses

LEMMA RowCompleted ==
    ASSUME NEW r \in Rows, NEW c \in Claims
    PROVE  /\ Completed(r, c) \in Rows
           /\ Completed(r, c).status = "ok" /\ Completed(r, c).token = 0
           /\ Completed(r, c).force = FALSE /\ Completed(r, c).text = c.text
  BY DEF Rows, Claims, Completed, Released, Statuses

LEMMA RowEdited ==
    ASSUME NEW r \in Rows
    PROVE  /\ [r EXCEPT !.text = ByUser] \in Rows
           /\ [r EXCEPT !.text = ByUser].status = r.status
           /\ [r EXCEPT !.text = ByUser].token = r.token
           /\ [r EXCEPT !.text = ByUser].force = r.force
           /\ [r EXCEPT !.text = ByUser].text = ByUser
  BY DEF Rows, ByUser

\* What the lease and the enrichment make of a row, and what they leave alone.
Touched(r, b, u) == {[r EXCEPT !.live = b], [r EXCEPT !.enriched = b],
                     [r EXCEPT !.enriched = b, !.url = u]}

LEMMA RowTouched ==
    ASSUME NEW r \in Rows, NEW b \in BOOLEAN, NEW u \in Urls, NEW q \in Touched(r, b, u)
    PROVE  /\ q \in Rows
           /\ q.status = r.status /\ q.token = r.token
           /\ q.force = r.force /\ q.text = r.text
  BY DEF Rows, Touched

LEMMA RowClaimed ==
    ASSUME NEW r \in Rows, NEW t \in Nat
    PROVE  /\ Claimed(r, t) \in Rows
           /\ Claimed(r, t).status = "processing" /\ Claimed(r, t).token = t
           /\ Claimed(r, t).force = r.force /\ Claimed(r, t).text = r.text
  BY DEF Rows, Statuses, Claimed

-----------------------------------------------------------------------------
(* The inductive invariant holds at first.                                 *)

LEMMA InitRow ==
    ASSUME NEW r \in [status : {"pending"}, token : {0}, live : {FALSE}, force : {FALSE},
                      text : {NoText}, url : Urls, enriched : {TRUE}]
    PROVE  r \in Rows /\ r.status = "pending" /\ r.token = 0
  <1>1. r.url \in Urls /\ r.status = "pending" /\ r.token = 0
    OBVIOUS
  <1>2. r = [status |-> "pending", token |-> 0, live |-> FALSE, force |-> FALSE, text |-> NoText,
             url |-> r.url, enriched |-> TRUE]
    OBVIOUS
  <1>3. [status |-> "pending", token |-> 0, live |-> FALSE, force |-> FALSE, text |-> NoText,
         url |-> r.url, enriched |-> TRUE] \in Rows
    BY <1>1 DEF Rows, Statuses, NoText
  <1> QED BY <1>1, <1>2, <1>3

LEMMA InitInv == Init => IInv
  <1> SUFFICES ASSUME Init PROVE IInv OBVIOUS
  <1>1. \A e \in Entries : row[e] \in Rows /\ row[e].status = "pending" /\ row[e].token = 0
    <2> TAKE e \in Entries
    <2>1. row[e] \in [status : {"pending"}, token : {0}, live : {FALSE}, force : {FALSE},
                      text : {NoText}, url : Urls, enriched : {TRUE}]
      BY DEF Init
    <2> QED BY <2>1, InitRow
  <1>2. DataTypeOK
    <2>1. row \in [Entries -> Rows]
      BY <1>1 DEF Init
    <2> QED BY <2>1 DEF Init, DataTypeOK, NoText
  <1>3. ProcTypeOK
    BY DEF Init, ProcTypeOK
  <1>4. \A p \in Procs : Action(p) = Idle
    BY DEF Init, Action, Procs
  <1>5. LocksHaveOwners
    BY DEF Init, LocksHaveOwners
  <1>6. OwnersHaveLocks
    <2>1. Idle.stage = "idle" /\ "idle" \notin InTransaction
      BY DEF Idle, InTransaction
    <2> QED BY <1>4, <2>1 DEF OwnersHaveLocks
  <1>7. ClaimsAreKnown
    <2>1. \A w \in Workers : job[w] = Idle
      BY DEF Init
    <2> QED BY <2>1 DEF ClaimsAreKnown
  <1>8. QueuedJobsAreForced /\ RefreshShowsFreshText /\ UserTextWaitsForRefresh
    BY <1>1 DEF Init, QueuedJobsAreForced, RefreshShowsFreshText, UserTextWaitsForRefresh
  <1> QED BY <1>2, <1>3, <1>5, <1>6, <1>7, <1>8 DEF IInv, LockInv, TextInv

-----------------------------------------------------------------------------
(* Types and locks.                                                        *)

LEMMA ProcFacts ==
    ASSUME ProcTypeOK
    PROVE  /\ \A w \in Workers : /\ w \in Procs /\ w \notin Users /\ w # Nobody
                                 /\ Action(w) = job[w] /\ job[w] \in Claims \cup {Idle}
           /\ \A u \in Users : /\ u \in Procs /\ u \notin Workers /\ u # Nobody
                               /\ Action(u) = req[u] /\ req[u] \in Requests \cup {Idle}
           /\ Idle.stage = "idle" /\ "idle" \notin InTransaction
           /\ Procs = Workers \cup Users
  <1>1. Idle.stage = "idle" /\ "idle" \notin InTransaction
    BY DEF Idle, InTransaction
  <1> QED BY <1>1, ProcsOK DEF ProcTypeOK, Procs, Action, Nobody

\* A step of p that takes no lock and begins or ends outside a transaction.
LEMMA LocalStepKeepsLocks ==
    ASSUME LockInv, NEW p \in Procs,
           \A q \in Procs \ {p} : Action(q)' = Action(q),
           Action(p).stage \notin InTransaction, Action(p)'.stage \notin InTransaction,
           entryLock' = entryLock, cacheLock' = cacheLock
    PROVE  LocksHaveOwners' /\ OwnersHaveLocks'
  <1>1. \A e \in Entries : entryLock[e] # Nobody => entryLock[e] \in Procs \ {p}
    BY DEF LockInv, LocksHaveOwners, ProcTypeOK
  <1>2. \A u \in Urls : cacheLock[u] # Nobody => cacheLock[u] \in Procs \ {p}
    BY DEF LockInv, LocksHaveOwners, ProcTypeOK, InTransaction
  <1>3. LocksHaveOwners'
    BY <1>1, <1>2 DEF LockInv, LocksHaveOwners
  <1>4. OwnersHaveLocks'
    BY DEF LockInv, OwnersHaveLocks
  <1> QED BY <1>3, <1>4

\* The end of p's transaction.
LEMMA UnlockKeepsLocks ==
    ASSUME LockInv, NEW p \in Procs,
           \A q \in Procs \ {p} : Action(q)' = Action(q),
           Action(p)'.stage \notin InTransaction,
           UnlockAll(p)
    PROVE  /\ LocksHaveOwners' /\ OwnersHaveLocks'
           /\ entryLock' \in [Entries -> Procs \cup {Nobody}]
           /\ cacheLock' \in [Urls -> Procs \cup {Nobody}]
  <1>1. /\ \A e \in Entries : entryLock'[e] = IF entryLock[e] = p THEN Nobody ELSE entryLock[e]
        /\ \A u \in Urls : cacheLock'[u] = IF cacheLock[u] = p THEN Nobody ELSE cacheLock[u]
        /\ entryLock' \in [Entries -> Procs \cup {Nobody}]
        /\ cacheLock' \in [Urls -> Procs \cup {Nobody}]
    BY DEF UnlockAll, LockInv, ProcTypeOK
  <1>2. \A e \in Entries : entryLock'[e] # Nobody =>
           entryLock'[e] \in Procs \ {p} /\ entryLock'[e] = entryLock[e]
    BY <1>1
  <1>3. \A u \in Urls : cacheLock'[u] # Nobody =>
           cacheLock'[u] \in Procs \ {p} /\ cacheLock'[u] = cacheLock[u]
    BY <1>1
  <1>4. LocksHaveOwners'
    BY <1>2, <1>3 DEF LockInv, LocksHaveOwners
  <1>5. \A q \in Procs : Action(q)'.stage \in InTransaction =>
           /\ q # p /\ Action(q)' = Action(q)
           /\ Action(q).entry \in Entries /\ entryLock[Action(q).entry] = q
    <2> SUFFICES ASSUME NEW q \in Procs, Action(q)'.stage \in InTransaction
                 PROVE  Action(q).entry \in Entries /\ q # p /\ Action(q)' = Action(q)
                        /\ entryLock[Action(q).entry] = q
      OBVIOUS
    <2>1. q # p /\ Action(q)' = Action(q)
      OBVIOUS
    <2>2. Action(q) \in Claims \cup Requests
      BY <2>1, ProcFacts DEF LockInv
    <2> QED BY <2>1, <2>2, ClaimFields, RequestFields DEF LockInv, OwnersHaveLocks
  <1>6. OwnersHaveLocks'
    BY <1>1, <1>5 DEF OwnersHaveLocks
  <1> QED BY <1>1, <1>4, <1>6

\* Both lock tables in terms of their owners.
LEMMA LocksByOwner ==
    ASSUME /\ entryLock' \in [Entries -> Procs \cup {Nobody}]
           /\ cacheLock' \in [Urls -> Procs \cup {Nobody}],
           \A e \in Entries, q \in Procs : entryLock'[e] = q =>
              Action(q)'.stage \in InTransaction /\ Action(q)'.entry = e,
           \A u \in Urls, q \in Procs : cacheLock'[u] = q =>
              Action(q)'.stage \in {"committing", "committing reset"}
    PROVE  LocksHaveOwners'
  BY DEF LocksHaveOwners

LEMMA Owners ==
    ASSUME LockInv
    PROVE  /\ \A e \in Entries, q \in Procs : entryLock[e] = q =>
                 Action(q).stage \in InTransaction /\ Action(q).entry = e
           /\ \A u \in Urls, q \in Procs : cacheLock[u] = q =>
                 Action(q).stage \in {"committing", "committing reset"}
  <1>1. \A q \in Procs : q # Nobody
    BY ProcFacts DEF LockInv
  <1> QED BY <1>1 DEF LockInv, LocksHaveOwners

\* p updates an entry that nobody has locked.
LEMMA EntryLockKeepsLocks ==
    ASSUME LockInv, NEW p \in Procs, NEW e \in Entries,
           \A q \in Procs \ {p} : Action(q)' = Action(q),
           Action(p).stage \notin InTransaction,
           Action(p)'.stage \in InTransaction, Action(p)'.entry = e,
           entryLock[e] = Nobody,
           entryLock' = [entryLock EXCEPT ![e] = p], cacheLock' = cacheLock
    PROVE  /\ LocksHaveOwners' /\ OwnersHaveLocks'
           /\ entryLock' \in [Entries -> Procs \cup {Nobody}]
           /\ cacheLock' \in [Urls -> Procs \cup {Nobody}]
  <1>1. /\ entryLock'[e] = p
        /\ \A f \in Entries \ {e} : entryLock'[f] = entryLock[f]
        /\ entryLock' \in [Entries -> Procs \cup {Nobody}]
        /\ cacheLock' \in [Urls -> Procs \cup {Nobody}]
    BY DEF LockInv, ProcTypeOK
  <1>2. {"committing", "committing reset"} \subseteq InTransaction
    BY DEF InTransaction
  <1>3. \A f \in Entries : entryLock[f] # p
    BY ProcFacts DEF LockInv, LocksHaveOwners
  <1>4. \A u \in Urls : cacheLock[u] # p
    BY <1>2, ProcFacts DEF LockInv, LocksHaveOwners
  <1>5. \A f \in Entries, q \in Procs : entryLock[f] = q =>
           Action(q).stage \in InTransaction /\ Action(q).entry = f
    BY Owners
  <1>6. \A u \in Urls, q \in Procs : cacheLock[u] = q =>
           Action(q).stage \in {"committing", "committing reset"}
    BY Owners
  <1>7. LocksHaveOwners'
    <2>1. \A f \in Entries, q \in Procs : entryLock'[f] = q =>
             Action(q)'.stage \in InTransaction /\ Action(q)'.entry = f
      <3> TAKE f \in Entries, q \in Procs
      <3>1. CASE f = e
        BY <3>1, <1>1
      <3>2. CASE f # e
        <4>1. entryLock'[f] = entryLock[f]
          BY <3>2, <1>1
        <4>2. entryLock[f] = q => q # p /\ Action(q)' = Action(q)
          BY <1>3
        <4> QED BY <4>1, <4>2, <1>5
      <3> QED BY <3>1, <3>2
    <2>2. \A u \in Urls, q \in Procs : cacheLock'[u] = q =>
             Action(q)'.stage \in {"committing", "committing reset"}
      <3> TAKE u \in Urls, q \in Procs
      <3>1. cacheLock[u] = q => q # p /\ Action(q)' = Action(q)
        BY <1>4
      <3> QED BY <3>1, <1>6
    <2> QED BY <1>1, <2>1, <2>2, LocksByOwner
  <1>8. \A q \in Procs \ {p} : Action(q).stage \in InTransaction =>
           Action(q).entry \in Entries \ {e} /\ entryLock[Action(q).entry] = q
    <2> SUFFICES ASSUME NEW q \in Procs \ {p}, Action(q).stage \in InTransaction
                 PROVE  Action(q).entry \in Entries \ {e} /\ entryLock[Action(q).entry] = q
      OBVIOUS
    <2>1. Action(q) \in Claims \cup Requests /\ q # Nobody
      BY ProcFacts DEF LockInv
    <2>2. Action(q).entry \in Entries
      BY <2>1, ClaimFields, RequestFields
    <2> QED BY <2>1, <2>2 DEF LockInv, OwnersHaveLocks
  <1>9. OwnersHaveLocks'
    <2>1. ASSUME NEW q \in Procs, Action(q)'.stage \in InTransaction
          PROVE  entryLock'[Action(q)'.entry] = q
      <3>1. CASE q = p
        BY <3>1, <1>1
      <3>2. CASE q # p
        <4>1. Action(q)' = Action(q)
          BY <3>2
        <4>2. Action(q).entry \in Entries \ {e} /\ entryLock[Action(q).entry] = q
          BY <2>1, <3>2, <4>1, <1>8
        <4> QED BY <4>1, <4>2, <1>1
      <3> QED BY <3>1, <3>2
    <2> QED BY <2>1 DEF OwnersHaveLocks
  <1> QED BY <1>1, <1>7, <1>9

\* p writes to the cache, the last statement of its transaction.
LEMMA CacheLockKeepsLocks ==
    ASSUME LockInv, NEW p \in Procs, NEW u \in Urls,
           \A q \in Procs \ {p} : Action(q)' = Action(q),
           Action(p).stage \in InTransaction, Action(p)'.entry = Action(p).entry,
           Action(p)'.stage \in {"committing", "committing reset"},
           entryLock' = entryLock,
           cacheLock' \in {cacheLock, [cacheLock EXCEPT ![u] = p]}
    PROVE  /\ LocksHaveOwners' /\ OwnersHaveLocks'
           /\ entryLock' \in [Entries -> Procs \cup {Nobody}]
           /\ cacheLock' \in [Urls -> Procs \cup {Nobody}]
  <1>1. /\ \A v \in Urls : cacheLock'[v] = cacheLock[v] \/ cacheLock'[v] = p
        /\ entryLock' \in [Entries -> Procs \cup {Nobody}]
        /\ cacheLock' \in [Urls -> Procs \cup {Nobody}]
    BY DEF LockInv, ProcTypeOK
  <1>2. Action(p)'.stage \in InTransaction
    BY DEF InTransaction
  <1>3. \A f \in Entries, q \in Procs : entryLock[f] = q =>
           Action(q).stage \in InTransaction /\ Action(q).entry = f
    BY Owners
  <1>4. \A v \in Urls, q \in Procs : cacheLock[v] = q =>
           Action(q).stage \in {"committing", "committing reset"}
    BY Owners
  <1>5. \A f \in Entries, q \in Procs : entryLock'[f] = q =>
           Action(q)'.stage \in InTransaction /\ Action(q)'.entry = f
    <2> TAKE f \in Entries, q \in Procs
    <2>1. CASE q = p
      BY <2>1, <1>2, <1>3
    <2>2. CASE q # p
      <3>1. Action(q)' = Action(q)
        BY <2>2
      <3> QED BY <3>1, <1>3
    <2> QED BY <2>1, <2>2
  <1>6. \A v \in Urls, q \in Procs : cacheLock'[v] = q =>
           Action(q)'.stage \in {"committing", "committing reset"}
    <2> TAKE v \in Urls, q \in Procs
    <2>1. CASE q = p
      BY <2>1
    <2>2. CASE q # p
      <3>1. Action(q)' = Action(q)
        BY <2>2
      <3>2. cacheLock'[v] = q => cacheLock[v] = q
        BY <2>2, <1>1
      <3> QED BY <3>1, <3>2, <1>4
    <2> QED BY <2>1, <2>2
  <1>7. LocksHaveOwners'
    BY <1>1, <1>5, <1>6, LocksByOwner
  <1>8. OwnersHaveLocks'
    <2>1. ASSUME NEW q \in Procs, Action(q)'.stage \in InTransaction
          PROVE  entryLock'[Action(q)'.entry] = q
      <3>1. Action(q).stage \in InTransaction /\ Action(q)'.entry = Action(q).entry
        <4>1. CASE q = p
          BY <4>1
        <4>2. CASE q # p
          <5>1. Action(q)' = Action(q)
            BY <4>2
          <5> QED BY <5>1, <2>1
        <4> QED BY <4>1, <4>2
      <3>2. entryLock[Action(q).entry] = q
        BY <3>1 DEF LockInv, OwnersHaveLocks
      <3> QED BY <3>1, <3>2
    <2> QED BY <2>1 DEF OwnersHaveLocks
  <1> QED BY <1>1, <1>7, <1>8

-----------------------------------------------------------------------------
(* How a step moves a process.                                             *)

LEMMA JobMoves ==
    ASSUME ProcTypeOK, NEW w \in Workers, NEW x \in Claims \cup {Idle},
           job' = [job EXCEPT ![w] = x], req' = req
    PROVE  /\ job' \in [Workers -> Claims \cup {Idle}]
           /\ req' \in [Users -> Requests \cup {Idle}]
           /\ Action(w)' = x /\ job'[w] = x
           /\ \A q \in Procs \ {w} : Action(q)' = Action(q)
           /\ \A v \in Workers \ {w} : job'[v] = job[v]
  BY DEF ProcTypeOK, Action

LEMMA ReqMoves ==
    ASSUME ProcTypeOK, NEW u \in Users, NEW x \in Requests \cup {Idle},
           req' = [req EXCEPT ![u] = x], job' = job
    PROVE  /\ job' \in [Workers -> Claims \cup {Idle}]
           /\ req' \in [Users -> Requests \cup {Idle}]
           /\ Action(u)' = x
           /\ \A q \in Procs \ {u} : Action(q)' = Action(q)
  BY ProcsOK DEF ProcTypeOK, Action

\* The statements of a transaction.
LEMMA StageMoves ==
    ASSUME ProcTypeOK, NEW p \in Procs, NEW s, SetStage(p, s), Action(p).stage # "idle",
           IF p \in Workers THEN s \in {"saved first", "committing", "committing cached"}
           ELSE s \in {"reset first", "committing reset"}
    PROVE  /\ job' \in [Workers -> Claims \cup {Idle}]
           /\ req' \in [Users -> Requests \cup {Idle}]
           /\ Action(p).entry \in Entries
           /\ Action(p)'.stage = s /\ Action(p)'.entry = Action(p).entry
           /\ \A q \in Procs \ {p} : Action(q)' = Action(q)
           /\ p \in Workers => job[p] \in Claims /\ job' = [job EXCEPT ![p] = [job[p] EXCEPT !.stage = s]]
           /\ p \notin Workers => job' = job
  <1>1. CASE p \in Workers
    <2>1. req' = req /\ job' = [job EXCEPT ![p] = [job[p] EXCEPT !.stage = s]]
      BY <1>1 DEF SetStage
    <2>2. Action(p) = job[p] /\ job[p] \in Claims
      BY <1>1, ProcFacts
    <2>3. s \in ClaimStages
      BY <1>1 DEF ClaimStages
    <2>4. /\ [job[p] EXCEPT !.stage = s] \in Claims
          /\ [job[p] EXCEPT !.stage = s].stage = s
          /\ [job[p] EXCEPT !.stage = s].entry = job[p].entry
      BY <2>2, <2>3, ClaimMoves
    <2>5. job[p].entry \in Entries
      BY <2>2, ClaimFields
    <2> QED BY <1>1, <2>1, <2>2, <2>4, <2>5, JobMoves
  <1>2. CASE p \notin Workers
    <2>1. p \in Users /\ job' = job /\ req' = [req EXCEPT ![p] = [req[p] EXCEPT !.stage = s]]
      BY <1>2 DEF SetStage, Procs
    <2>2. Action(p) = req[p] /\ req[p] \in Requests
      BY <2>1, ProcFacts
    <2>3. /\ [req[p] EXCEPT !.stage = s] \in Requests
          /\ [req[p] EXCEPT !.stage = s].stage = s
          /\ [req[p] EXCEPT !.stage = s].entry = req[p].entry
      BY <1>2, <2>2, RequestMoves
    <2>4. req[p].entry \in Entries
      BY <2>2, RequestFields
    <2> QED BY <1>2, <2>1, <2>2, <2>3, <2>4, ReqMoves
  <1> QED BY <1>1, <1>2

-----------------------------------------------------------------------------
(* The locks: which process a step moves, and what it does to its locks.   *)

LEMMA ClaimLocks ==
    ASSUME IInv, NEW w \in Workers,
           ClaimJob(w) \/ LookUpCache(w) \/ ProviderAnswers(w) \/ FinishJob(w)
    PROVE  LockInv'
  <1>1. ProcTypeOK /\ DataTypeOK /\ LockInv
    BY DEF IInv, LockInv, TextInv
  <1>2. req' = req /\ entryLock' = entryLock /\ cacheLock' = cacheLock
    BY DEF ClaimJob, LookUpCache, ProviderAnswers, FinishJob, LocalStep
  <1>3. \E x \in Claims \cup {Idle} :
           job' = [job EXCEPT ![w] = x] /\ x.stage \notin InTransaction
    <2>1. CASE ClaimJob(w)
      <3>1. PICK e \in Entries : job' = [job EXCEPT ![w] = Claim(e, lastToken + 1)]
        BY <2>1 DEF ClaimJob
      <3>2. row[e] \in Rows /\ lastToken + 1 \in Nat
        BY <1>1 DEF DataTypeOK
      <3>3. Claim(e, lastToken + 1) \in Claims /\ Claim(e, lastToken + 1).stage = "claimed"
        BY <3>2, NewClaim
      <3> QED BY <3>1, <3>3 DEF InTransaction
    <2>2. CASE LookUpCache(w)
      <3> DEFINE t == IF job[w].force THEN NoText ELSE cache[job[w].url]
                 s == IF t = NoText THEN "asking" ELSE "saving cached"
      <3>1. job[w].stage = "claimed" /\ job' = [job EXCEPT ![w] = Told(job[w], t, s)]
        BY <2>2 DEF LookUpCache
      <3>2. job[w] \in Claims
        BY <1>1, <3>1, ProcFacts
      <3>3. t \in Int
        <4>1. job[w].url \in Urls
          BY <3>2, ClaimFields
        <4> QED BY <1>1, <4>1 DEF DataTypeOK, NoText
      <3>4. s \in ClaimStages /\ s \notin InTransaction
        BY DEF InTransaction, ClaimStages
      <3> HIDE DEF t, s
      <3>5. Told(job[w], t, s) \in Claims /\ Told(job[w], t, s).stage = s
        BY <3>2, <3>3, <3>4, ClaimTold
      <3> QED BY <3>1, <3>4, <3>5
    <2>3. CASE ProviderAnswers(w)
      <3>1. job[w].stage = "asking" /\ job' = [job EXCEPT ![w] = Told(job[w], job[w].token, "saving")]
        BY <2>3 DEF ProviderAnswers
      <3>2. job[w] \in Claims
        BY <1>1, <3>1, ProcFacts
      <3>3. job[w].token \in Int
        BY <3>2, ClaimFields
      <3>4. "saving" \in ClaimStages /\ "saving" \notin InTransaction
        BY DEF InTransaction, ClaimStages
      <3>5. /\ Told(job[w], job[w].token, "saving") \in Claims
            /\ Told(job[w], job[w].token, "saving").stage = "saving"
        BY <3>2, <3>3, <3>4, ClaimTold
      <3> QED BY <3>1, <3>4, <3>5
    <2>4. CASE FinishJob(w)
      BY <2>4 DEF FinishJob, Idle, InTransaction
    <2> QED BY <2>1, <2>2, <2>3, <2>4
  <1>4. job[w].stage \notin InTransaction
    <2>1. job[w].stage \in {"idle", "claimed", "asking", "releasing"}
      <3>1. CASE ClaimJob(w)
        BY <3>1 DEF ClaimJob, Idle
      <3>2. CASE LookUpCache(w) \/ ProviderAnswers(w)
        BY <3>2 DEF LookUpCache, ProviderAnswers
      <3>3. CASE FinishJob(w)
        BY <3>3 DEF FinishJob
      <3> QED BY <3>1, <3>2, <3>3
    <2> QED BY <2>1 DEF InTransaction
  <1>5. PICK x \in Claims \cup {Idle} :
           job' = [job EXCEPT ![w] = x] /\ x.stage \notin InTransaction
    BY <1>3
  <1>6. /\ job' \in [Workers -> Claims \cup {Idle}]
        /\ req' \in [Users -> Requests \cup {Idle}]
        /\ Action(w)' = x
        /\ \A q \in Procs \ {w} : Action(q)' = Action(q)
    BY <1>1, <1>2, <1>5, JobMoves
  <1>7. w \in Procs /\ Action(w) = job[w]
    BY <1>1, ProcFacts
  <1>8. LocksHaveOwners' /\ OwnersHaveLocks'
    BY <1>1, <1>2, <1>4, <1>5, <1>6, <1>7, LocalStepKeepsLocks
  <1> QED BY <1>1, <1>2, <1>6, <1>8 DEF LockInv, ProcTypeOK

LEMMA RequestLocks ==
    ASSUME IInv, NEW u \in Users, BeginReset(u)
    PROVE  LockInv'
  <1>1. ProcTypeOK /\ LockInv
    BY DEF IInv, LockInv
  <1>2. PICK e \in Entries : req' = [req EXCEPT ![u] = [stage |-> "resetting", entry |-> e]]
    BY DEF BeginReset
  <1>3. /\ req[u] = Idle
        /\ job' = job /\ entryLock' = entryLock /\ cacheLock' = cacheLock
    BY DEF BeginReset
  <1>4. /\ [stage |-> "resetting", entry |-> e] \in Requests
        /\ [stage |-> "resetting", entry |-> e].stage \notin InTransaction
    BY DEF Requests, InTransaction
  <1>5. /\ job' \in [Workers -> Claims \cup {Idle}]
        /\ req' \in [Users -> Requests \cup {Idle}]
        /\ Action(u)' = [stage |-> "resetting", entry |-> e]
        /\ \A q \in Procs \ {u} : Action(q)' = Action(q)
    BY <1>1, <1>2, <1>3, <1>4, ReqMoves
  <1>6. u \in Procs /\ Action(u).stage \notin InTransaction
    BY <1>1, <1>3, ProcFacts
  <1>7. LocksHaveOwners' /\ OwnersHaveLocks'
    BY <1>1, <1>3, <1>4, <1>5, <1>6, LocalStepKeepsLocks
  <1> QED BY <1>1, <1>3, <1>5, <1>7 DEF LockInv, ProcTypeOK

\* The end of a transaction, or of a call before it.
LEMMA EndLocks ==
    ASSUME IInv, NEW p \in Procs, UnlockAll(p),
           \/ /\ p \in Workers /\ req' = req
              /\ \E x \in Claims \cup {Idle} :
                    job' = [job EXCEPT ![p] = x] /\ x.stage \notin InTransaction
           \/ p \in Users /\ job' = job /\ req' = [req EXCEPT ![p] = Idle]
    PROVE  LockInv'
  <1>1. ProcTypeOK /\ LockInv
    BY DEF IInv, LockInv
  <1>2. /\ job' \in [Workers -> Claims \cup {Idle}]
        /\ req' \in [Users -> Requests \cup {Idle}]
        /\ Action(p)'.stage \notin InTransaction
        /\ \A q \in Procs \ {p} : Action(q)' = Action(q)
    <2>1. CASE p \in Workers /\ req' = req
                  /\ \E x \in Claims \cup {Idle} :
                        job' = [job EXCEPT ![p] = x] /\ x.stage \notin InTransaction
      BY <1>1, <2>1, JobMoves
    <2>2. CASE p \in Users /\ job' = job /\ req' = [req EXCEPT ![p] = Idle]
      BY <1>1, <2>2, ReqMoves, ProcFacts
    <2> QED BY <2>1, <2>2
  <1>3. /\ LocksHaveOwners' /\ OwnersHaveLocks'
        /\ entryLock' \in [Entries -> Procs \cup {Nobody}]
        /\ cacheLock' \in [Urls -> Procs \cup {Nobody}]
    BY <1>1, <1>2, UnlockKeepsLocks
  <1> QED BY <1>2, <1>3 DEF LockInv, ProcTypeOK

\* Which statement comes when, and what follows it.
LEMMA Statements ==
    ASSUME ProcTypeOK, NEW p \in Procs
    PROVE  /\ AtStatement(p, "entry") =>
                 \/ /\ p \in Workers /\ p \notin Users /\ Action(p).stage = "saving"
                    /\ NextStage(p, "entry") = "saved first"
                 \/ /\ p \in Workers /\ p \notin Users /\ Action(p).stage = "saving cached"
                    /\ NextStage(p, "entry") = "committing cached"
                 \/ /\ p \in Users /\ p \notin Workers /\ Action(p).stage = "resetting"
                    /\ NextStage(p, "entry") = "reset first"
           /\ AtStatement(p, "cache") =>
                 \/ /\ p \in Workers /\ p \notin Users /\ Action(p).stage = "saved first"
                    /\ NextStage(p, "cache") = "committing"
                 \/ /\ p \in Users /\ p \notin Workers /\ Action(p).stage = "reset first"
                    /\ NextStage(p, "cache") = "committing reset"
  <1>1. LockOrder(p)[1] = "entry" /\ LockOrder(p)[2] = "cache"
    BY DEF LockOrder
  <1>2. CASE p \in Workers
    <2>1. p \notin Users /\ Action(p).stage \in ClaimStages \cup {"idle"}
      BY <1>2, ProcFacts, ClaimFields
    <2> QED BY <1>1, <1>2, <2>1 DEF AtStatement, NextStage, ClaimStages
  <1>3. CASE p \in Users
    <2>1. /\ p \notin Workers
          /\ Action(p).stage \in {"idle", "resetting", "reset first", "committing reset"}
      BY <1>3, ProcFacts, RequestFields
    <2> QED BY <1>1, <1>3, <2>1 DEF AtStatement, NextStage
  <1> QED BY <1>2, <1>3, ProcFacts

LEMMA UpdateEntryLocks ==
    ASSUME IInv, NEW p \in Procs, UpdateEntry(p)
    PROVE  LockInv'
  <1>1. ProcTypeOK /\ LockInv
    BY DEF IInv, LockInv
  <1>2. AtStatement(p, "entry") /\ entryLock[Action(p).entry] = Nobody
    BY DEF UpdateEntry, Unlocked
  <1>3. CASE p \in Workers /\ ~Current(job[p])
    <2>1. UnlockAll(p) /\ job' = [job EXCEPT ![p] = Idle] /\ req' = req
      BY <1>3 DEF UpdateEntry
    <2>2. Idle.stage \notin InTransaction
      BY <1>1, ProcFacts
    <2> QED BY <1>3, <2>1, <2>2, EndLocks
  <1>4. CASE ~(p \in Workers /\ ~Current(job[p]))
    <2> DEFINE s == NextStage(p, "entry")
               e == Action(p).entry
    <2>1. /\ SetStage(p, s) /\ cacheLock' = cacheLock
          /\ entryLock' = [entryLock EXCEPT ![e] = p]
      BY <1>4 DEF UpdateEntry
    <2>2. /\ Action(p).stage \in {"saving", "saving cached", "resetting"}
          /\ IF p \in Workers THEN s \in {"saved first", "committing cached"}
             ELSE s = "reset first"
      BY <1>1, <1>2, Statements
    <2>3. Action(p).stage # "idle" /\ Action(p).stage \notin InTransaction /\ s \in InTransaction
      BY <2>2 DEF InTransaction
    <2> HIDE DEF s
    <2>4. IF p \in Workers THEN s \in {"saved first", "committing", "committing cached"}
          ELSE s \in {"reset first", "committing reset"}
      BY <2>2
    <2>5. /\ job' \in [Workers -> Claims \cup {Idle}]
          /\ req' \in [Users -> Requests \cup {Idle}]
          /\ e \in Entries
          /\ Action(p)'.stage = s /\ Action(p)'.entry = e
          /\ \A q \in Procs \ {p} : Action(q)' = Action(q)
      BY <1>1, <2>1, <2>3, <2>4, StageMoves
    <2> HIDE DEF e
    <2>6. entryLock[e] = Nobody
      BY <1>2 DEF e
    <2>7. /\ LocksHaveOwners' /\ OwnersHaveLocks'
          /\ entryLock' \in [Entries -> Procs \cup {Nobody}]
          /\ cacheLock' \in [Urls -> Procs \cup {Nobody}]
      BY <1>1, <2>1, <2>3, <2>5, <2>6, EntryLockKeepsLocks
    <2> QED BY <2>5, <2>7 DEF LockInv, ProcTypeOK
  <1> QED BY <1>3, <1>4

LEMMA TouchCacheLocks ==
    ASSUME IInv, NEW p \in Procs, TouchCache(p)
    PROVE  LockInv'
  <1>1. ProcTypeOK /\ LockInv /\ DataTypeOK
    BY DEF IInv, LockInv, TextInv
  <1> DEFINE s == NextStage(p, "cache")
             u == CacheUrl(p)
  <1>2. /\ AtStatement(p, "cache") /\ SetStage(p, s) /\ entryLock' = entryLock
        /\ cacheLock' \in {cacheLock, [cacheLock EXCEPT ![u] = p]}
    BY DEF TouchCache
  <1>3. /\ Action(p).stage \in {"saved first", "reset first"}
        /\ IF p \in Workers THEN s = "committing" ELSE s = "committing reset"
    BY <1>1, <1>2, Statements
  <1>4. /\ Action(p).stage # "idle" /\ Action(p).stage \in InTransaction
        /\ s \in {"committing", "committing reset"}
    BY <1>3 DEF InTransaction
  <1> HIDE DEF s
  <1>5. IF p \in Workers THEN s \in {"saved first", "committing", "committing cached"}
        ELSE s \in {"reset first", "committing reset"}
    BY <1>3
  <1>6. /\ job' \in [Workers -> Claims \cup {Idle}]
        /\ req' \in [Users -> Requests \cup {Idle}]
        /\ Action(p).entry \in Entries
        /\ Action(p)'.stage = s /\ Action(p)'.entry = Action(p).entry
        /\ \A q \in Procs \ {p} : Action(q)' = Action(q)
    BY <1>1, <1>2, <1>4, <1>5, StageMoves
  <1>7. u \in Urls
    <2>1. CASE p \in Workers
      <3>1. job[p] \in Claims
        BY <1>1, <1>4, <2>1, ProcFacts
      <3> QED BY <2>1, <3>1, ClaimFields DEF CacheUrl
    <2>2. CASE p \notin Workers
      <3>1. Action(p) = req[p]
        BY <2>2 DEF Action
      <3>2. row[req[p].entry] \in Rows
        BY <1>1, <1>6, <3>1 DEF DataTypeOK
      <3> QED BY <2>2, <3>2, RowFields DEF CacheUrl
    <2> QED BY <2>1, <2>2
  <1> HIDE DEF u
  <1>8. /\ LocksHaveOwners' /\ OwnersHaveLocks'
        /\ entryLock' \in [Entries -> Procs \cup {Nobody}]
        /\ cacheLock' \in [Urls -> Procs \cup {Nobody}]
    BY <1>1, <1>2, <1>4, <1>6, <1>7, CacheLockKeepsLocks
  <1> QED BY <1>6, <1>8 DEF LockInv, ProcTypeOK

LEMMA EndOfTransactionLocks ==
    ASSUME IInv, NEW p \in Procs,
           \/ p \in Workers /\ CommitSummary(p)
           \/ p \in Users /\ CommitReset(p)
           \/ Abort(p)
    PROVE  LockInv'
  <1>1. ProcTypeOK
    BY DEF IInv, LockInv
  <1>2. Idle.stage \notin InTransaction
    BY <1>1, ProcFacts
  <1>3. CASE p \in Workers /\ CommitSummary(p)
    <2>1. UnlockAll(p) /\ job' = [job EXCEPT ![p] = Idle] /\ req' = req
      BY <1>3 DEF CommitSummary
    <2> QED BY <1>2, <1>3, <2>1, EndLocks
  <1>4. CASE p \in Users /\ CommitReset(p)
    <2>1. UnlockAll(p) /\ req' = [req EXCEPT ![p] = Idle] /\ job' = job
      BY <1>4 DEF CommitReset
    <2> QED BY <1>4, <2>1, EndLocks
  <1>5. CASE Abort(p)
    <2>1. UnlockAll(p) /\ Action(p) # Idle
      BY <1>5 DEF Abort
    <2>2. CASE p \in Workers /\ job' = [job EXCEPT ![p] = Idle] /\ req' = req
      BY <1>2, <2>1, <2>2, EndLocks
    <2>3. CASE p \in Workers /\ job' = [job EXCEPT ![p] = [job[p] EXCEPT !.stage = "releasing"]]
                  /\ req' = req
      <3>1. job[p] \in Claims
        BY <1>1, <2>1, <2>3, ProcFacts
      <3>2. "releasing" \in ClaimStages /\ "releasing" \notin InTransaction
        BY DEF ClaimStages, InTransaction
      <3>3. /\ [job[p] EXCEPT !.stage = "releasing"] \in Claims
            /\ [job[p] EXCEPT !.stage = "releasing"].stage = "releasing"
        BY <3>1, <3>2, ClaimMoves
      <3> QED BY <2>1, <2>3, <3>2, <3>3, EndLocks
    <2>4. CASE p \in Users /\ req' = [req EXCEPT ![p] = Idle] /\ job' = job
      BY <2>1, <2>4, EndLocks
    <2> QED BY <1>5, <2>2, <2>3, <2>4 DEF Abort
  <1> QED BY <1>3, <1>4, <1>5

\* The handlers' single statements, and time, take no part in this.
LEMMA OthersLocks ==
    ASSUME IInv, job' = job, req' = req, entryLock' = entryLock, cacheLock' = cacheLock
    PROVE  LockInv'
  <1>1. \A p \in Procs : Action(p)' = Action(p)
    BY DEF Action
  <1> QED BY <1>1 DEF IInv, LockInv, ProcTypeOK, LocksHaveOwners, OwnersHaveLocks, Action

LEMMA LockStep == IInv /\ [Next]_vars => LockInv'
  <1> SUFFICES ASSUME IInv, [Next]_vars PROVE LockInv'
    OBVIOUS
  <1>1. Procs = Workers \cup Users
    BY DEF Procs
  <1>2. ASSUME NEW w \in Workers,
               ClaimJob(w) \/ LookUpCache(w) \/ ProviderAnswers(w) \/ FinishJob(w)
        PROVE  LockInv'
    BY <1>2, ClaimLocks
  <1>3. ASSUME NEW w \in Workers, CommitSummary(w) PROVE LockInv'
    BY <1>1, <1>3, EndOfTransactionLocks
  <1>4. ASSUME NEW p \in Procs, UpdateEntry(p) PROVE LockInv'
    BY <1>4, UpdateEntryLocks
  <1>5. ASSUME NEW p \in Procs, TouchCache(p) PROVE LockInv'
    BY <1>5, TouchCacheLocks
  <1>6. ASSUME NEW p \in Procs, Abort(p) PROVE LockInv'
    BY <1>6, EndOfTransactionLocks
  <1>7. ASSUME NEW u \in Users, BeginReset(u) PROVE LockInv'
    BY <1>7, RequestLocks
  <1>8. ASSUME NEW u \in Users, CommitReset(u) PROVE LockInv'
    BY <1>1, <1>8, EndOfTransactionLocks
  <1>9. ASSUME NEW e \in Entries,
               LeaseLapses(e) \/ EditSummary(e) \/ StartEnrichment(e) \/ CompleteEnrichment(e)
        PROVE  LockInv'
    <2>1. job' = job /\ req' = req /\ entryLock' = entryLock /\ cacheLock' = cacheLock
      BY <1>9 DEF LeaseLapses, EditSummary, StartEnrichment, CompleteEnrichment
    <2> QED BY <2>1, OthersLocks
  <1>10. CASE UNCHANGED vars
    <2>1. job' = job /\ req' = req /\ entryLock' = entryLock /\ cacheLock' = cacheLock
      BY <1>10 DEF vars
    <2> QED BY <2>1, OthersLocks
  <1> QED BY <1>2, <1>3, <1>4, <1>5, <1>6, <1>7, <1>8, <1>9, <1>10 DEF Next

-----------------------------------------------------------------------------
(* The texts.  What the invariant says of one entry, and of one claim.     *)

EntryIsKnown(e) ==
    /\ row[e].token <= lastToken /\ refreshed[e] <= lastToken
    /\ row[e].token # 0 => row[e].status = "processing" /\ row[e].token > refreshed[e]
    /\ row[e].status \in {"pending", "processing"} =>
          ~userText[e] /\ (refreshed[e] > 0 => row[e].force)
    /\ refreshed[e] > 0 /\ row[e].status = "ok" =>
          row[e].text = ByUser \/ row[e].text > refreshed[e]
    /\ userText[e] => row[e].text = ByUser

EntriesAreKnown == \A e \in Entries : EntryIsKnown(e)

LEMMA ByEntry ==
    /\ EntriesAreKnown <=> /\ QueuedJobsAreForced /\ RefreshShowsFreshText
                           /\ UserTextWaitsForRefresh
    /\ EntriesAreKnown' <=> /\ QueuedJobsAreForced' /\ RefreshShowsFreshText'
                            /\ UserTextWaitsForRefresh'
  BY DEF EntriesAreKnown, EntryIsKnown, QueuedJobsAreForced, RefreshShowsFreshText,
         UserTextWaitsForRefresh

\* A step that keeps what the invariant speaks of in row e.
Steady(e) ==
    /\ row'[e].token = row[e].token /\ row'[e].status = row[e].status
    /\ row'[e].force = row[e].force /\ row'[e].text = row[e].text
    /\ refreshed'[e] = refreshed[e] /\ userText'[e] = userText[e]

LEMMA SteadyEntry ==
    ASSUME DataTypeOK, NEW e \in Entries, EntryIsKnown(e), Steady(e),
           lastToken' \in Nat, lastToken <= lastToken'
    PROVE  EntryIsKnown(e)'
  <1>1. row[e].token \in Nat /\ refreshed[e] \in Nat /\ lastToken \in Nat
    BY RowFields DEF DataTypeOK
  <1>2. row'[e].token <= lastToken' /\ refreshed'[e] <= lastToken'
    BY <1>1 DEF EntryIsKnown, Steady
  <1> QED BY <1>2 DEF EntryIsKnown, Steady

\* What keeps one claim known: the row stays as it is in the columns that matter, or
\* it is given up or claimed anew before the claim's transaction has begun.
LEMMA StaysKnown ==
    ASSUME NEW c \in Claims, NEW r, NEW q, NEW m \in Nat, NEW n \in Nat, m <= n,
           IsKnown(c, r, m),
           \/ q.token = r.token /\ q.force = r.force /\ q.status = r.status
           \/ c.stage \notin InTransaction /\ (q.token = 0 \/ q.token \notin 0..m)
    PROVE  IsKnown(c, q, n)
  <1>1. c.token \in Nat
    BY ClaimFields
  <1>2. c.token # 0 /\ c.token <= m
    BY DEF IsKnown
  <1>3. c.token <= n
    BY <1>1, <1>2
  <1>4. CASE q.token = r.token /\ q.force = r.force /\ q.status = r.status
    BY <1>2, <1>3, <1>4 DEF IsKnown
  <1>5. CASE c.stage \notin InTransaction /\ (q.token = 0 \/ q.token \notin 0..m)
    <2>1. q.token # c.token
      BY <1>1, <1>2, <1>5
    <2> QED BY <1>2, <1>3, <1>5, <2>1 DEF IsKnown
  <1> QED BY <1>4, <1>5

\* So every claim stays known but p's own: no other transaction is on a row that
\* nobody or p has locked.
LEMMA KnownClaims ==
    ASSUME IInv, NEW p,
           lastToken' \in Nat, lastToken <= lastToken',
           \A e \in Entries :
              \/ /\ row'[e].token = row[e].token /\ row'[e].force = row[e].force
                 /\ row'[e].status = row[e].status
              \/ /\ entryLock[e] = Nobody \/ entryLock[e] = p
                 /\ row'[e].token = 0 \/ row'[e].token \notin 0..lastToken,
           \A v \in Workers : v # p => job'[v] = job[v],
           p \in Workers /\ job'[p] # Idle
              => IsKnown(job'[p], row'[job'[p].entry], lastToken')
    PROVE  ClaimsAreKnown'
  <1>1. /\ ProcTypeOK /\ DataTypeOK /\ LocksHaveOwners /\ OwnersHaveLocks /\ ClaimsAreKnown
    BY DEF IInv, LockInv, TextInv
  <1>2. ASSUME NEW v \in Workers, v # p, job[v] # Idle
        PROVE  IsKnown(job[v], row'[job[v].entry], lastToken')
    <2>1. job[v] \in Claims /\ v # Nobody /\ Action(v) = job[v] /\ v \in Procs
      BY <1>1, <1>2, ProcFacts
    <2>2. job[v].entry \in Entries
      BY <2>1, ClaimFields
    <2>3. IsKnown(job[v], row[job[v].entry], lastToken)
      BY <1>1, <1>2 DEF ClaimsAreKnown
    <2>4. job[v].stage \in InTransaction => entryLock[job[v].entry] = v
      BY <1>1, <2>1 DEF OwnersHaveLocks
    <2>5. lastToken \in Nat
      BY <1>1 DEF DataTypeOK
    <2> QED BY <1>2, <2>1, <2>2, <2>3, <2>4, <2>5, StaysKnown
  <1>3. ASSUME NEW v \in Workers, job'[v] # Idle
        PROVE  IsKnown(job'[v], row'[job'[v].entry], lastToken')
    <2>1. CASE v = p
      BY <1>3, <2>1
    <2>2. CASE v # p
      BY <1>2, <1>3, <2>2
    <2> QED BY <2>1, <2>2
  <1> QED BY <1>3 DEF ClaimsAreKnown

LEMMA TextStep ==
    ASSUME IInv, NEW p, DataTypeOK', lastToken <= lastToken',
           \A e \in Entries : Steady(e) \/ EntryIsKnown(e)',
           \A e \in Entries :
              \/ /\ row'[e].token = row[e].token /\ row'[e].force = row[e].force
                 /\ row'[e].status = row[e].status
              \/ /\ entryLock[e] = Nobody \/ entryLock[e] = p
                 /\ row'[e].token = 0 \/ row'[e].token \notin 0..lastToken,
           \A v \in Workers : v # p => job'[v] = job[v],
           p \in Workers /\ job'[p] # Idle
              => IsKnown(job'[p], row'[job'[p].entry], lastToken')
    PROVE  TextInv'
  <1>1. DataTypeOK /\ lastToken' \in Nat
    BY DEF IInv, TextInv, DataTypeOK
  <1>2. ClaimsAreKnown'
    BY <1>1, KnownClaims
  <1>3. ASSUME NEW e \in Entries PROVE EntryIsKnown(e)'
    <2>1. EntryIsKnown(e)
      BY ByEntry DEF IInv, TextInv, EntriesAreKnown
    <2> QED BY <1>1, <2>1, SteadyEntry
  <1>4. QueuedJobsAreForced' /\ RefreshShowsFreshText' /\ UserTextWaitsForRefresh'
    BY <1>3, ByEntry DEF EntriesAreKnown
  <1> QED BY <1>2, <1>4 DEF TextInv

\* Steps that leave the rows and the histories alone.
LEMMA NoRowStep ==
    ASSUME IInv, NEW p, row' = row, lastToken' = lastToken, cache' = cache,
           refreshed' = refreshed, userText' = userText,
           \A v \in Workers : v # p => job'[v] = job[v],
           p \in Workers /\ job'[p] # Idle
              => IsKnown(job'[p], row[job'[p].entry], lastToken)
    PROVE  TextInv'
  <1>1. DataTypeOK' /\ lastToken <= lastToken'
    BY DEF IInv, TextInv, DataTypeOK
  <1>2. \A e \in Entries : Steady(e)
    BY DEF Steady
  <1> QED BY <1>1, <1>2, TextStep

\* Steps that change one row, under no change of the histories.
LEMMA OneRow ==
    ASSUME DataTypeOK, NEW e \in Entries, NEW x \in Rows, row' = [row EXCEPT ![e] = x]
    PROVE  /\ row' \in [Entries -> Rows] /\ row'[e] = x
           /\ \A f \in Entries \ {e} : row'[f] = row[f]
  BY DEF DataTypeOK

LEMMA OneRowStep ==
    ASSUME IInv, NEW p, NEW e \in Entries, NEW x \in Rows, row' = [row EXCEPT ![e] = x],
           lastToken' \in Nat, lastToken <= lastToken', cache' \in [Urls -> Int],
           /\ refreshed' \in [Entries -> Nat] /\ userText' \in [Entries -> BOOLEAN]
           /\ \A f \in Entries \ {e} : /\ refreshed'[f] = refreshed[f]
                                       /\ userText'[f] = userText[f],
           Steady(e) \/ EntryIsKnown(e)',
           \/ x.token = row[e].token /\ x.force = row[e].force /\ x.status = row[e].status
           \/ /\ entryLock[e] = Nobody \/ entryLock[e] = p
              /\ x.token = 0 \/ x.token \notin 0..lastToken,
           \A v \in Workers : v # p => job'[v] = job[v],
           p \in Workers /\ job'[p] # Idle
              => IsKnown(job'[p], row'[job'[p].entry], lastToken')
    PROVE  TextInv'
  <1>1. /\ row' \in [Entries -> Rows] /\ row'[e] = x
        /\ \A f \in Entries \ {e} : row'[f] = row[f]
    BY OneRow DEF IInv, TextInv
  <1>2. DataTypeOK'
    BY <1>1 DEF DataTypeOK
  <1>3. \A f \in Entries : Steady(f) \/ EntryIsKnown(f)'
    <2> TAKE f \in Entries
    <2>1. CASE f = e
      BY <2>1
    <2>2. CASE f # e
      BY <1>1, <2>2 DEF Steady
    <2> QED BY <2>1, <2>2
  <1>4. \A f \in Entries :
           \/ /\ row'[f].token = row[f].token /\ row'[f].force = row[f].force
              /\ row'[f].status = row[f].status
           \/ /\ entryLock[f] = Nobody \/ entryLock[f] = p
              /\ row'[f].token = 0 \/ row'[f].token \notin 0..lastToken
    <2> TAKE f \in Entries
    <2>1. CASE f = e
      BY <1>1, <2>1
    <2>2. CASE f # e
      BY <1>1, <2>2
    <2> QED BY <2>1, <2>2
  <1> QED BY <1>2, <1>3, <1>4, TextStep

\* What is known of an entry that was read from the state.
LEMMA EntryFacts ==
    ASSUME IInv, NEW e \in Entries
    PROVE  /\ row[e] \in Rows /\ EntryIsKnown(e) /\ DataTypeOK
           /\ row[e].token \in Nat /\ refreshed[e] \in Nat /\ lastToken \in Nat
           /\ row[e].status \in Statuses /\ row[e].force \in BOOLEAN /\ row[e].text \in Int
           /\ cache \in [Urls -> Int]
           /\ refreshed \in [Entries -> Nat] /\ userText \in [Entries -> BOOLEAN]
  <1>1. DataTypeOK /\ EntryIsKnown(e)
    BY ByEntry DEF IInv, TextInv, EntriesAreKnown
  <1>2. row[e] \in Rows
    BY <1>1 DEF DataTypeOK
  <1> QED BY <1>1, <1>2, RowFields DEF DataTypeOK

LEMMA JobFacts ==
    ASSUME IInv, NEW w \in Workers, job[w] # Idle
    PROVE  /\ job[w] \in Claims /\ job[w].entry \in Entries
           /\ IsKnown(job[w], row[job[w].entry], lastToken)
  <1>1. job[w] \in Claims /\ ClaimsAreKnown
    BY DEF IInv, LockInv, TextInv, ProcTypeOK
  <1> QED BY <1>1, ClaimFields DEF ClaimsAreKnown

\* ClaimJob: the new token is younger than any refresh, and what was queued was
\* forced if the entry has been refreshed.
LEMMA ClaimText ==
    ASSUME IInv, NEW w \in Workers, ClaimJob(w)
    PROVE  TextInv'
  <1> DEFINE t == lastToken + 1
  <1>1. PICK e \in Entries :
           /\ entryLock[e] = Nobody
           /\ row[e].status = "pending" \/ row[e].status = "processing"
           /\ job' = [job EXCEPT ![w] = Claim(e, t)]
           /\ row' = [row EXCEPT ![e] = Claimed(row[e], t)]
    BY DEF ClaimJob, Unlocked
  <1>2. /\ lastToken' = t /\ cache' = cache /\ refreshed' = refreshed
        /\ userText' = userText
    BY DEF ClaimJob
  <1>3. /\ row[e] \in Rows /\ EntryIsKnown(e) /\ DataTypeOK /\ lastToken \in Nat
        /\ refreshed[e] \in Nat
        /\ cache \in [Urls -> Int]
        /\ refreshed \in [Entries -> Nat] /\ userText \in [Entries -> BOOLEAN]
    BY EntryFacts
  <1>4. t \in Nat /\ lastToken <= t /\ t \notin 0..lastToken /\ 0 < t /\ t # 0
    BY <1>3
  <1> HIDE DEF t
  <1> DEFINE x == Claimed(row[e], t)
             c == Claim(e, t)
  <1>5. /\ x \in Rows /\ x.status = "processing" /\ x.token = t /\ x.force = row[e].force
        /\ x.text = row[e].text
    BY <1>3, <1>4, RowClaimed
  <1>6. c \in Claims /\ c.stage = "claimed" /\ c.entry = e /\ c.token = t /\ c.force = row[e].force
    BY <1>3, <1>4, NewClaim
  <1> HIDE DEF x, c
  <1>7. job' = [job EXCEPT ![w] = c] /\ row' = [row EXCEPT ![e] = x]
    BY <1>1 DEF x, c
  <1>8. job'[w] = c /\ \A v \in Workers : v # w => job'[v] = job[v]
    BY <1>7 DEF IInv, LockInv, ProcTypeOK
  <1>9. row'[e] = x
    BY <1>3, <1>5, <1>7, OneRow
  <1>10. IsKnown(c, x, t)
    <2>1. "claimed" \notin InTransaction
      BY DEF InTransaction
    <2> QED BY <1>4, <1>5, <1>6, <2>1 DEF IsKnown
  <1>11. EntryIsKnown(e)'
    <2>1. t > refreshed[e]
      BY <1>3, <1>2 DEF EntryIsKnown, t
    <2>2. ~userText[e] /\ (refreshed[e] > 0 => row[e].force)
      BY <1>1, <1>3 DEF EntryIsKnown
    <2>3. t <= lastToken' /\ refreshed[e] <= lastToken'
      BY <1>2, <1>3, <1>4, <2>1
    <2> QED BY <1>2, <1>5, <1>9, <2>1, <2>2, <2>3 DEF EntryIsKnown
  <1>12. IsKnown(job'[w], row'[job'[w].entry], lastToken')
    BY <1>2, <1>6, <1>8, <1>9, <1>10
  <1>13. x.token \notin 0..lastToken /\ lastToken' \in Nat /\ lastToken <= lastToken'
    BY <1>2, <1>4, <1>5
  <1> QED BY <1>1, <1>2, <1>3, <1>5, <1>7, <1>8, <1>11, <1>12, <1>13, OneRowStep

LEMMA LookUpText ==
    ASSUME IInv, NEW w \in Workers, LookUpCache(w) \/ ProviderAnswers(w)
    PROVE  TextInv'
  <1>1. /\ row' = row /\ lastToken' = lastToken /\ cache' = cache
        /\ refreshed' = refreshed /\ userText' = userText
    BY DEF LookUpCache, ProviderAnswers, LocalStep
  <1>2. job[w] # Idle
    <2>1. job[w].stage \in {"claimed", "asking"}
      BY DEF LookUpCache, ProviderAnswers
    <2> QED BY <2>1 DEF Idle
  <1>3. /\ job[w] \in Claims /\ job[w].entry \in Entries
        /\ IsKnown(job[w], row[job[w].entry], lastToken)
    BY <1>2, JobFacts
  <1>4. job[w].url \in Urls /\ job[w].token \in Int /\ job[w].force \in BOOLEAN
    BY <1>3, ClaimFields
  <1>5. \E t \in Int, s \in ClaimStages :
           /\ job' = [job EXCEPT ![w] = Told(job[w], t, s)]
           /\ \/ s = "asking"
              \/ s = "saving cached" /\ ~job[w].force
              \/ s = "saving" /\ t = job[w].token
    <2>1. CASE LookUpCache(w)
      <3> DEFINE t == IF job[w].force THEN NoText ELSE cache[job[w].url]
                 s == IF t = NoText THEN "asking" ELSE "saving cached"
      <3>1. job' = [job EXCEPT ![w] = Told(job[w], t, s)]
        BY <2>1 DEF LookUpCache
      <3>2. t \in Int /\ s \in ClaimStages
        BY <1>4 DEF IInv, TextInv, DataTypeOK, NoText, ClaimStages
      <3>3. s = "asking" \/ (s = "saving cached" /\ ~job[w].force)
        <4>1. CASE job[w].force
          BY <4>1
        <4>2. CASE ~job[w].force
          BY <4>2
        <4> QED BY <4>1, <4>2
      <3> HIDE DEF t, s
      <3> QED BY <3>1, <3>2, <3>3
    <2>2. CASE ProviderAnswers(w)
      BY <1>4, <2>2 DEF ProviderAnswers, ClaimStages
    <2> QED BY <2>1, <2>2
  <1>6. PICK t \in Int, s \in ClaimStages :
           /\ job' = [job EXCEPT ![w] = Told(job[w], t, s)]
           /\ \/ s = "asking"
              \/ s = "saving cached" /\ ~job[w].force
              \/ s = "saving" /\ t = job[w].token
    BY <1>5
  <1> DEFINE d == Told(job[w], t, s)
  <1>7. /\ d.stage = s /\ d.text = t /\ d.entry = job[w].entry /\ d.token = job[w].token
        /\ d.force = job[w].force
    BY <1>3, ClaimTold
  <1>8. job' = [job EXCEPT ![w] = d]
    BY <1>6
  <1> HIDE DEF d
  <1>9. job'[w] = d /\ \A v \in Workers : v # w => job'[v] = job[v]
    BY <1>8 DEF IInv, LockInv, ProcTypeOK
  <1>10. IsKnown(d, row[d.entry], lastToken)
    <2>1. s \notin InTransaction
      BY <1>6 DEF InTransaction
    <2> QED BY <1>3, <1>6, <1>7, <2>1 DEF IsKnown
  <1> QED BY <1>1, <1>9, <1>10, NoRowStep

\* FinishJob writes only over the claim's own row, which no transaction holds.
LEMMA FinishText ==
    ASSUME IInv, NEW w \in Workers, FinishJob(w)
    PROVE  TextInv'
  <1>1. PICK s \in {"failed", "skipped", "pending"} :
           /\ job[w].stage \in {"asking", "claimed", "releasing"}
           /\ entryLock[job[w].entry] = Nobody
           /\ row' = IF Current(job[w])
                     THEN [row EXCEPT ![job[w].entry] = Released(row[job[w].entry], s)] ELSE row
           /\ job' = [job EXCEPT ![w] = Idle]
    BY DEF FinishJob, Unlocked
  <1>2. /\ lastToken' = lastToken /\ cache' = cache /\ refreshed' = refreshed
        /\ userText' = userText
    BY DEF FinishJob
  <1>3. job[w] # Idle
    BY <1>1 DEF Idle
  <1>4. PICK e \in Entries : e = job[w].entry
    BY <1>3, JobFacts
  <1>5. job'[w] = Idle /\ \A v \in Workers : v # w => job'[v] = job[v]
    BY <1>1 DEF IInv, LockInv, ProcTypeOK
  <1>6. CASE ~Current(job[w])
    BY <1>1, <1>2, <1>5, <1>6, NoRowStep
  <1>7. CASE Current(job[w])
    <2>1. PICK x : x = Released(row[e], s)
      OBVIOUS
    <2>2. row' = [row EXCEPT ![e] = x] /\ entryLock[e] = Nobody
      BY <1>1, <1>4, <1>7, <2>1
    <2>3. row[e].status = "processing"
      BY <1>4, <1>7 DEF Current
    <2>4. /\ row[e] \in Rows /\ EntryIsKnown(e) /\ DataTypeOK /\ lastToken \in Nat
          /\ cache \in [Urls -> Int]
          /\ refreshed \in [Entries -> Nat] /\ userText \in [Entries -> BOOLEAN]
      BY EntryFacts
    <2>5. x \in Rows /\ x.status = s /\ x.token = 0 /\ x.force = row[e].force /\ x.text = row[e].text
      <3>1. s \in Statuses
        BY DEF Statuses
      <3> QED BY <2>1, <2>4, <3>1, RowReleased
    <2>6. row'[e] = x
      BY <2>2, <2>4, <2>5, OneRow
    <2>7. EntryIsKnown(e)'
      <3>1. ~userText[e] /\ (refreshed[e] > 0 => row[e].force) /\ refreshed[e] <= lastToken
        BY <2>3, <2>4 DEF EntryIsKnown
      <3>2. 0 <= lastToken /\ s # "ok"
        BY <2>4
      <3> QED BY <1>2, <2>5, <2>6, <3>1, <3>2 DEF EntryIsKnown
    <2>8. lastToken' \in Nat /\ lastToken <= lastToken'
      BY <1>2, <2>4
    <2> QED BY <1>2, <1>5, <2>2, <2>4, <2>5, <2>7, <2>8, OneRowStep
  <1> QED BY <1>6, <1>7

\* What CommitSummary relies on: the row is still the claim's, and a text that is
\* not of this claim's own call is saved only for an entry that was never refreshed.
LEMMA CommitFacts ==
    ASSUME IInv, NEW w \in Workers, job[w].stage \in {"committing", "committing cached"}
    PROVE  \E e \in Entries :
              /\ e = job[w].entry /\ entryLock[e] = w
              /\ ~userText[e]
              /\ refreshed[e] > 0 => job[w].text > refreshed[e]
              /\ row[e].force => job[w].stage = "committing" /\ job[w].text > refreshed[e]
  <1>1. job[w] # Idle
    <2>1. Idle.stage = "idle"
      BY DEF Idle
    <2> QED BY <2>1
  <1>2. PICK e \in Entries : e = job[w].entry
    BY <1>1, JobFacts
  <1>3. job[w] \in Claims /\ IsKnown(job[w], row[e], lastToken)
    BY <1>1, <1>2, JobFacts
  <1>4. job[w].force \in BOOLEAN /\ job[w].token \in Nat /\ job[w].stage \in InTransaction
    BY <1>3, ClaimFields DEF InTransaction
  <1>5. entryLock[e] = w
    BY <1>2, <1>4, ProcFacts DEF IInv, LockInv, OwnersHaveLocks
  <1>6. EntryIsKnown(e) /\ row[e].force \in BOOLEAN /\ refreshed[e] \in Nat
    BY EntryFacts
  <1>7. /\ row[e].status = "processing" /\ row[e].token = job[w].token
        /\ row[e].force = job[w].force /\ job[w].token # 0
    BY <1>3, <1>4 DEF IsKnown
  <1>8. row[e].token # 0
    BY <1>7
  <1>9. /\ ~userText[e] /\ (refreshed[e] > 0 => row[e].force)
        /\ job[w].token > refreshed[e]
    BY <1>6, <1>7, <1>8 DEF EntryIsKnown
  <1>10. CASE job[w].stage = "committing"
    <2>1. job[w].text = job[w].token
      BY <1>3, <1>10 DEF IsKnown
    <2> QED BY <1>2, <1>5, <1>9, <1>10, <2>1
  <1>11. CASE job[w].stage = "committing cached"
    <2>1. ~job[w].force
      BY <1>3, <1>11 DEF IsKnown
    <2> QED BY <1>2, <1>5, <1>7, <1>9, <2>1
  <1> QED BY <1>10, <1>11

LEMMA CommitSummaryText ==
    ASSUME IInv, NEW w \in Workers, CommitSummary(w)
    PROVE  TextInv'
  <1> job[w] # Idle
    <2>1. job[w].stage \in {"committing", "committing cached"}
      BY DEF CommitSummary
    <2>2. Idle.stage = "idle"
      BY DEF Idle
    <2> QED BY <2>1, <2>2
  <1>1. PICK c \in Claims : c = job[w]
    BY JobFacts
  <1>2. PICK e \in Entries :
           /\ e = c.entry /\ entryLock[e] = w
           /\ ~userText[e]
           /\ refreshed[e] > 0 => c.text > refreshed[e]
    <2>1. job[w].stage \in {"committing", "committing cached"}
      BY DEF CommitSummary
    <2> QED BY <1>1, <2>1, CommitFacts
  <1>3. PICK x : x = Completed(row[e], c)
    OBVIOUS
  <1>4. /\ c.stage \in {"committing", "committing cached"}
        /\ row' = [row EXCEPT ![e] = x]
        /\ cache' \in {cache, [cache EXCEPT ![c.url] = c.text]}
        /\ job' = [job EXCEPT ![w] = Idle]
    BY <1>1, <1>2, <1>3 DEF CommitSummary
  <1>5. lastToken' = lastToken /\ refreshed' = refreshed /\ userText' = userText
    BY DEF CommitSummary
  <1>7. job'[w] = Idle /\ \A v \in Workers : v # w => job'[v] = job[v]
    BY <1>4 DEF IInv, LockInv, ProcTypeOK
  <1>8. c.text \in Int /\ c.url \in Urls
    BY ClaimFields
  <1>9. /\ row[e] \in Rows /\ EntryIsKnown(e) /\ DataTypeOK /\ lastToken \in Nat
        /\ cache \in [Urls -> Int]
        /\ refreshed \in [Entries -> Nat] /\ userText \in [Entries -> BOOLEAN]
    BY EntryFacts
  <1>10. cache' \in [Urls -> Int]
    BY <1>4, <1>8, <1>9
  <1>11. x \in Rows /\ x.status = "ok" /\ x.token = 0 /\ x.text = c.text
    BY <1>3, <1>9, RowCompleted
  <1>12. row'[e] = x
    BY <1>4, <1>9, <1>11, OneRow
  <1>13. EntryIsKnown(e)'
    <2>1. refreshed[e] <= lastToken /\ 0 <= lastToken
      BY <1>9 DEF EntryIsKnown
    <2> QED BY <1>2, <1>5, <1>11, <1>12, <2>1 DEF EntryIsKnown
  <1>14. lastToken' \in Nat /\ lastToken <= lastToken'
    BY <1>5, <1>9
  <1> QED BY <1>2, <1>4, <1>5, <1>7, <1>9, <1>10, <1>11, <1>13, <1>14, OneRowStep

LEMMA CommitResetText ==
    ASSUME IInv, NEW u \in Users, CommitReset(u)
    PROVE  TextInv'
  <1>1. PICK e : e = req[u].entry
    OBVIOUS
  <1>2. PICK x : x = Forced(row[e])
    OBVIOUS
  <1>3. /\ req[u].stage = "committing reset"
        /\ row' = [row EXCEPT ![e] = x]
        /\ cache' = [v \in Urls |-> IF cacheLock[v] = u THEN NoText ELSE cache[v]]
        /\ refreshed' = [refreshed EXCEPT ![e] = lastToken]
        /\ userText' = [userText EXCEPT ![e] = FALSE]
        /\ lastToken' = lastToken /\ job' = job
    BY <1>1, <1>2 DEF CommitReset
  <1>4. ProcTypeOK /\ OwnersHaveLocks
    BY DEF IInv, LockInv
  <1>5. u \in Procs /\ u \notin Workers /\ Action(u) = req[u] /\ req[u] \in Requests \cup {Idle}
    BY <1>4, ProcFacts
  <1>6. req[u] \in Requests
    <2>1. req[u].stage # "idle"
      BY <1>3
    <2> QED BY <1>5, <2>1 DEF Idle
  <1>7. e \in Entries /\ entryLock[e] = u
    <2>1. req[u].stage \in InTransaction
      BY <1>3 DEF InTransaction
    <2> QED BY <1>1, <1>4, <1>5, <1>6, <2>1, RequestFields DEF OwnersHaveLocks
  <1>8. /\ row[e] \in Rows /\ DataTypeOK /\ lastToken \in Nat
        /\ cache \in [Urls -> Int]
        /\ refreshed \in [Entries -> Nat] /\ userText \in [Entries -> BOOLEAN]
    BY <1>7, EntryFacts
  <1>9. x \in Rows /\ x.status = "pending" /\ x.token = 0 /\ x.force = TRUE
    BY <1>2, <1>8, RowForced
  <1>10. row'[e] = x
    BY <1>3, <1>7, <1>8, <1>9, OneRow
  <1>11. cache' \in [Urls -> Int]
    <2>1. cache' = [v \in Urls |-> IF cacheLock[v] = u THEN NoText ELSE cache[v]]
      BY <1>3
    <2> QED BY <1>8, <2>1 DEF NoText
  <1>12. /\ refreshed' \in [Entries -> Nat] /\ refreshed'[e] = lastToken
         /\ userText' \in [Entries -> BOOLEAN] /\ userText'[e] = FALSE
         /\ \A f \in Entries \ {e} : refreshed'[f] = refreshed[f] /\ userText'[f] = userText[f]
    BY <1>3, <1>7, <1>8
  <1>13. lastToken' \in Nat /\ lastToken <= lastToken' /\ 0 <= lastToken
    <2>1. lastToken' = lastToken
      BY <1>3
    <2> QED BY <1>8, <2>1
  <1>14. EntryIsKnown(e)'
    BY <1>3, <1>9, <1>10, <1>12, <1>13 DEF EntryIsKnown
  <1> QED BY <1>3, <1>5, <1>7, <1>9, <1>11, <1>12, <1>13, <1>14, OneRowStep

\* The statements write nothing that others see; the claim was checked when the row
\* was locked.
LEMMA StatementText ==
    ASSUME IInv, NEW p \in Procs, UpdateEntry(p) \/ TouchCache(p)
    PROVE  TextInv'
  <1>1. ProcTypeOK
    BY DEF IInv, LockInv
  <1>2. /\ row' = row /\ lastToken' = lastToken /\ cache' = cache
        /\ refreshed' = refreshed /\ userText' = userText
    BY DEF UpdateEntry, TouchCache
  <1>3. CASE p \in Workers /\ UpdateEntry(p) /\ ~Current(job[p])
    <2>1. job' = [job EXCEPT ![p] = Idle]
      BY <1>3 DEF UpdateEntry
    <2>2. job'[p] = Idle /\ \A v \in Workers : v # p => job'[v] = job[v]
      BY <1>1, <1>3, <2>1 DEF ProcTypeOK
    <2> QED BY <1>2, <2>2, NoRowStep
  <1>4. CASE ~(p \in Workers /\ UpdateEntry(p) /\ ~Current(job[p]))
    <2>1. \E s : /\ SetStage(p, s)
                 /\ \/ /\ UpdateEntry(p) /\ AtStatement(p, "entry")
                       /\ s = NextStage(p, "entry")
                    \/ TouchCache(p) /\ AtStatement(p, "cache") /\ s = NextStage(p, "cache")
      BY <1>4 DEF UpdateEntry, TouchCache
    <2>2. PICK s : /\ SetStage(p, s)
                   /\ \/ /\ UpdateEntry(p) /\ AtStatement(p, "entry")
                         /\ s = NextStage(p, "entry")
                      \/ TouchCache(p) /\ AtStatement(p, "cache") /\ s = NextStage(p, "cache")
      BY <2>1
    <2>3. CASE p \notin Workers
      <3>1. job' = job
        BY <2>2, <2>3 DEF SetStage
      <3> QED BY <1>2, <2>3, <3>1, NoRowStep
    <2>4. CASE p \in Workers
      <3>1. \/ UpdateEntry(p) /\ job[p].stage = "saving" /\ s = "saved first"
            \/ UpdateEntry(p) /\ job[p].stage = "saving cached" /\ s = "committing cached"
            \/ job[p].stage = "saved first" /\ s = "committing"
        <4>1. Action(p) = job[p] /\ p \notin Users
          BY <1>1, <2>4, ProcFacts
        <4> QED BY <1>1, <2>2, <4>1, Statements
      <3>2. job' = [job EXCEPT ![p] = [job[p] EXCEPT !.stage = s]]
        BY <2>2, <2>4 DEF SetStage
      <3>3. job[p] # Idle
        <4>1. job[p].stage \in {"saving", "saving cached", "saved first"}
          BY <3>1
        <4>2. Idle.stage = "idle"
          BY DEF Idle
        <4> QED BY <4>1, <4>2
      <3>4. PICK e \in Entries : e = job[p].entry
        BY <2>4, <3>3, JobFacts
      <3>5. job[p] \in Claims /\ IsKnown(job[p], row[e], lastToken)
        BY <2>4, <3>3, <3>4, JobFacts
      <3>6. s \in ClaimStages /\ s \in InTransaction
        BY <3>1 DEF ClaimStages, InTransaction
      <3>7. PICK d : d = [job[p] EXCEPT !.stage = s]
        OBVIOUS
      <3>8. /\ d.stage = s /\ d.entry = e /\ d.token = job[p].token
            /\ d.force = job[p].force /\ d.text = job[p].text
        BY <3>4, <3>5, <3>6, <3>7, ClaimMoves
      <3>9. job'[p] = d /\ \A v \in Workers : v # p => job'[v] = job[v]
        BY <1>1, <2>4, <3>2, <3>7 DEF ProcTypeOK
      <3>10. row[e].status = "processing" /\ row[e].token = job[p].token
        <4>1. CASE UpdateEntry(p)
          <5>1. Current(job[p])
            BY <1>4, <2>4, <4>1
          <5> QED BY <3>4, <5>1 DEF Current
        <4>2. CASE job[p].stage = "saved first"
          <5>1. job[p].stage \in InTransaction
            BY <4>2 DEF InTransaction
          <5> QED BY <3>5, <5>1 DEF IsKnown
        <4> QED BY <3>1, <4>1, <4>2
      <3>11. IsKnown(d, row[e], lastToken)
        <4>1. job[p].stage \in {"saving", "saved first"} => job[p].text = job[p].token
          BY <3>5 DEF IsKnown
        <4>2. job[p].stage = "saving cached" => ~job[p].force
          BY <3>5 DEF IsKnown
        <4>3. /\ job[p].token # 0 /\ job[p].token <= lastToken
              /\ row[e].force = job[p].force
          BY <3>5, <3>10 DEF IsKnown
        <4> QED BY <3>1, <3>8, <3>10, <4>1, <4>2, <4>3 DEF IsKnown
      <3> QED BY <1>2, <3>8, <3>9, <3>11, NoRowStep
    <2> QED BY <2>3, <2>4
  <1> QED BY <1>3, <1>4

LEMMA AbortText ==
    ASSUME IInv, NEW p \in Procs, Abort(p)
    PROVE  TextInv'
  <1>1. ProcTypeOK
    BY DEF IInv, LockInv
  <1>2. /\ row' = row /\ lastToken' = lastToken /\ cache' = cache
        /\ refreshed' = refreshed /\ userText' = userText /\ Action(p) # Idle
    BY DEF Abort
  <1>3. CASE p \in Workers /\ job' = [job EXCEPT ![p] = Idle]
    <2>1. job'[p] = Idle /\ \A v \in Workers : v # p => job'[v] = job[v]
      BY <1>1, <1>3 DEF ProcTypeOK
    <2> QED BY <1>2, <2>1, NoRowStep
  <1>4. CASE p \in Workers /\ job' = [job EXCEPT ![p] = [job[p] EXCEPT !.stage = "releasing"]]
    <2>1. job[p] # Idle
      BY <1>1, <1>2, <1>4, ProcFacts
    <2>2. PICK e \in Entries : e = job[p].entry
      BY <1>4, <2>1, JobFacts
    <2>3. job[p] \in Claims /\ IsKnown(job[p], row[e], lastToken)
      BY <1>4, <2>1, <2>2, JobFacts
    <2>4. "releasing" \in ClaimStages
      BY DEF ClaimStages
    <2>5. PICK d : d = [job[p] EXCEPT !.stage = "releasing"]
      OBVIOUS
    <2>6. /\ d.stage = "releasing" /\ d.entry = e /\ d.token = job[p].token
          /\ d.force = job[p].force
      BY <2>2, <2>3, <2>4, <2>5, ClaimMoves
    <2>7. job'[p] = d /\ \A v \in Workers : v # p => job'[v] = job[v]
      BY <1>1, <1>4, <2>5 DEF ProcTypeOK
    <2>8. IsKnown(d, row[e], lastToken)
      <3>1. "releasing" \notin InTransaction
        BY DEF InTransaction
      <3> QED BY <2>3, <2>6, <3>1 DEF IsKnown
    <2> QED BY <1>2, <2>6, <2>7, <2>8, NoRowStep
  <1>5. CASE p \in Users /\ job' = job
    <2>1. p \notin Workers
      BY <1>1, <1>5, ProcFacts
    <2> QED BY <1>2, <1>5, <2>1, NoRowStep
  <1> QED BY <1>3, <1>4, <1>5 DEF Abort

\* Update with a new summary: it takes the job, if there is one, out of the queue.
LEMMA EditText ==
    ASSUME IInv, NEW e \in Entries, EditSummary(e)
    PROVE  TextInv'
  <1>1. PICK y : y = IF row[e].status \in {"pending", "processing"} THEN Released(row[e], "ok")
                     ELSE row[e]
    OBVIOUS
  <1>2. PICK x : x = [y EXCEPT !.text = ByUser]
    OBVIOUS
  <1>3. /\ entryLock[e] = Nobody
        /\ row' = [row EXCEPT ![e] = x]
        /\ userText' = [userText EXCEPT ![e] = TRUE]
        /\ lastToken' = lastToken /\ cache' = cache /\ refreshed' = refreshed /\ job' = job
    BY <1>1, <1>2 DEF EditSummary, Unlocked
  <1>4. /\ row[e] \in Rows /\ EntryIsKnown(e) /\ DataTypeOK /\ lastToken \in Nat
        /\ cache \in [Urls -> Int]
        /\ refreshed \in [Entries -> Nat] /\ userText \in [Entries -> BOOLEAN]
    BY EntryFacts
  <1>5. y \in Rows /\ y.token = 0 /\ y.status \notin {"pending", "processing"}
    <2>1. CASE row[e].status \in {"pending", "processing"}
      <3>1. "ok" \in Statuses
        BY DEF Statuses
      <3> QED BY <1>1, <1>4, <2>1, <3>1, RowReleased
    <2>2. CASE row[e].status \notin {"pending", "processing"}
      <3>1. row[e].token = 0
        BY <1>4, <2>2 DEF EntryIsKnown
      <3> QED BY <1>1, <1>4, <2>2, <3>1
    <2> QED BY <2>1, <2>2
  <1>6. x \in Rows /\ x.token = 0 /\ x.status = y.status /\ x.text = ByUser
    BY <1>2, <1>5, RowEdited
  <1>7. row'[e] = x
    BY <1>3, <1>4, <1>6, OneRow
  <1>8. /\ userText' \in [Entries -> BOOLEAN]
        /\ \A f \in Entries \ {e} : userText'[f] = userText[f]
    BY <1>3, <1>4
  <1>9. EntryIsKnown(e)'
    <2>1. refreshed[e] <= lastToken /\ 0 <= lastToken
      BY <1>4 DEF EntryIsKnown
    <2> QED BY <1>3, <1>5, <1>6, <1>7, <2>1 DEF EntryIsKnown
  <1>10. lastToken' \in Nat /\ lastToken <= lastToken'
    BY <1>3, <1>4
  <1>11. Nobody \notin Workers
    BY ProcFacts DEF IInv, LockInv
  <1> QED BY <1>3, <1>4, <1>6, <1>8, <1>9, <1>10, <1>11, OneRowStep

\* The lease running out, and the enrichment, touch none of this.
LEMMA OthersText ==
    ASSUME IInv,
           \/ \E u \in Users : BeginReset(u)
           \/ \E e \in Entries : LeaseLapses(e) \/ StartEnrichment(e) \/ CompleteEnrichment(e)
           \/ UNCHANGED vars
    PROVE  TextInv'
  <1>1. /\ lastToken' = lastToken /\ cache' = cache
        /\ refreshed' = refreshed /\ userText' = userText /\ job' = job
    BY DEF BeginReset, LeaseLapses, StartEnrichment, CompleteEnrichment, vars
  <1>2. Nobody \notin Workers
    BY ProcFacts DEF IInv, LockInv
  <1>3. CASE (\E u \in Users : BeginReset(u)) \/ UNCHANGED vars
    <2>1. row' = row
      BY <1>3 DEF BeginReset, vars
    <2> QED BY <1>1, <1>2, <2>1, NoRowStep
  <1>4. ASSUME NEW e \in Entries,
               LeaseLapses(e) \/ StartEnrichment(e) \/ CompleteEnrichment(e)
        PROVE  TextInv'
    <2>1. /\ row[e] \in Rows /\ DataTypeOK /\ lastToken \in Nat
          /\ cache \in [Urls -> Int]
          /\ refreshed \in [Entries -> Nat] /\ userText \in [Entries -> BOOLEAN]
      BY EntryFacts
    <2>2. \E b \in BOOLEAN, u \in Urls :
             \E x \in Touched(row[e], b, u) : row' = [row EXCEPT ![e] = x]
      <3>1. row[e].url \in Urls
        BY <2>1, RowFields
      <3>2. CASE LeaseLapses(e)
        BY <3>1, <3>2 DEF LeaseLapses, Touched
      <3>3. CASE StartEnrichment(e)
        BY <3>1, <3>3 DEF StartEnrichment, Touched
      <3>4. CASE CompleteEnrichment(e)
        BY <3>4 DEF CompleteEnrichment, Touched
      <3> QED BY <1>4, <3>2, <3>3, <3>4
    <2>3. PICK x \in Rows :
             /\ row' = [row EXCEPT ![e] = x]
             /\ x.status = row[e].status /\ x.token = row[e].token
             /\ x.force = row[e].force /\ x.text = row[e].text
      <3>1. PICK b \in BOOLEAN, u \in Urls :
               \E x \in Touched(row[e], b, u) : row' = [row EXCEPT ![e] = x]
        BY <2>2
      <3>2. PICK x \in Touched(row[e], b, u) : row' = [row EXCEPT ![e] = x]
        BY <3>1
      <3>3. /\ x \in Rows /\ x.status = row[e].status /\ x.token = row[e].token
            /\ x.force = row[e].force /\ x.text = row[e].text
        BY <2>1, <3>2, RowTouched
      <3> QED BY <3>2, <3>3
    <2>4. row'[e] = x
      BY <2>1, <2>3, OneRow
    <2>5. Steady(e)
      BY <1>1, <2>3, <2>4 DEF Steady
    <2>6. lastToken' \in Nat /\ lastToken <= lastToken'
      BY <1>1, <2>1
    <2> QED BY <1>1, <1>2, <2>1, <2>3, <2>5, <2>6, OneRowStep
  <1> QED BY <1>3, <1>4

LEMMA TextsStep == IInv /\ [Next]_vars => TextInv'
  <1> SUFFICES ASSUME IInv, [Next]_vars PROVE TextInv'
    OBVIOUS
  <1>1. ASSUME NEW w \in Workers, ClaimJob(w) PROVE TextInv'
    BY <1>1, ClaimText
  <1>2. ASSUME NEW w \in Workers, LookUpCache(w) \/ ProviderAnswers(w) PROVE TextInv'
    BY <1>2, LookUpText
  <1>3. ASSUME NEW w \in Workers, FinishJob(w) PROVE TextInv'
    BY <1>3, FinishText
  <1>4. ASSUME NEW w \in Workers, CommitSummary(w) PROVE TextInv'
    BY <1>4, CommitSummaryText
  <1>5. ASSUME NEW p \in Procs, UpdateEntry(p) \/ TouchCache(p) PROVE TextInv'
    BY <1>5, StatementText
  <1>6. ASSUME NEW p \in Procs, Abort(p) PROVE TextInv'
    BY <1>6, AbortText
  <1>7. ASSUME NEW u \in Users, CommitReset(u) PROVE TextInv'
    BY <1>7, CommitResetText
  <1>8. ASSUME NEW e \in Entries, EditSummary(e) PROVE TextInv'
    BY <1>8, EditText
  <1>9. CASE \/ \E u \in Users : BeginReset(u)
             \/ \E e \in Entries : LeaseLapses(e) \/ StartEnrichment(e) \/ CompleteEnrichment(e)
             \/ UNCHANGED vars
    BY <1>9, OthersText
  <1> QED BY <1>1, <1>2, <1>3, <1>4, <1>5, <1>6, <1>7, <1>8, <1>9 DEF Next

-----------------------------------------------------------------------------
(* The theorems.                                                           *)

\* The inductive invariant: the locks belong to the transactions under way, and the
\* claims of running jobs agree with the rows they were made on.
THEOREM Inductive == Spec => []IInv
  <1>1. IInv /\ [Next]_vars => IInv'
    BY LockStep, TextsStep DEF IInv
  <1> QED BY InitInv, <1>1, PTL DEF Spec

\* Every variable keeps its type: rows and cache, and what loops and requests are at.
THEOREM TypeCorrect == Spec => []TypeOK
  <1>1. IInv => TypeOK
    BY DEF IInv, LockInv, TextInv, TypeOK
  <1> QED BY Inductive, <1>1, PTL

\* A refreshed entry never shows a text older than the refresh once its summary is ok
\* again (ResetSummary against CompleteSummary, the cache and late results).
THEOREM FreshText == Spec => []RefreshShowsFreshText
  <1>1. IInv => RefreshShowsFreshText
    BY DEF IInv, TextInv
  <1> QED BY Inductive, <1>1, PTL

\* A text that the user has written (Update) stays until the user asks for a refresh.
THEOREM UserTextKept == Spec => []UserTextWaitsForRefresh
  <1>1. IInv => UserTextWaitsForRefresh
    BY DEF IInv, TextInv
  <1> QED BY Inductive, <1>1, PTL

\* Who holds an entry's lock can only wait for a cache lock, and who holds a cache
\* lock is about to commit.
LEMMA Waiting ==
    ASSUME IInv, NEW p \in Procs, NEW q \in Procs, WaitsFor(p, q)
    PROVE  \/ Action(p).stage \notin InTransaction /\ Action(q).stage \in InTransaction
           \/ /\ Action(p).stage \in {"saved first", "reset first"}
              /\ Action(q).stage \in {"committing", "committing reset"}
  <1>1. ProcTypeOK /\ LockInv /\ DataTypeOK
    BY DEF IInv, LockInv, TextInv
  <1>2. p \in Workers \/ p \in Users
    BY DEF Procs
  <1>3. CASE AtStatement(p, "entry") /\ entryLock[Action(p).entry] = q
    <2>1. Action(p).stage \in {"saving", "saving cached", "resetting"}
      BY <1>1, <1>3, Statements
    <2>2. Action(p).stage \notin InTransaction /\ Action(p).stage # "idle"
      BY <2>1 DEF InTransaction
    <2>3. Action(p) \in Claims \cup Requests
      BY <1>1, <1>2, <2>2, ProcFacts
    <2>4. Action(p).entry \in Entries
      BY <2>3, ClaimFields, RequestFields
    <2> QED BY <1>1, <1>3, <2>2, <2>4, Owners
  <1>4. CASE AtStatement(p, "cache") /\ cacheLock[CacheUrl(p)] = q
    <2>1. Action(p).stage \in {"saved first", "reset first"}
      BY <1>1, <1>4, Statements
    <2>2. Action(p).stage # "idle"
      BY <2>1
    <2>3. CacheUrl(p) \in Urls
      <3>1. CASE p \in Workers
        <4>1. job[p] \in Claims
          BY <1>1, <2>2, <3>1, ProcFacts
        <4> QED BY <3>1, <4>1, ClaimFields DEF CacheUrl
      <3>2. CASE p \in Users
        <4>1. p \notin Workers /\ req[p] \in Requests
          BY <1>1, <2>2, <3>2, ProcFacts
        <4>2. row[req[p].entry] \in Rows
          BY <1>1, <4>1, RequestFields DEF DataTypeOK
        <4> QED BY <4>1, <4>2, RowFields DEF CacheUrl
      <3> QED BY <1>2, <3>1, <3>2
    <2>4. Action(q).stage \in {"committing", "committing reset"}
      BY <1>1, <1>4, <2>3, Owners
    <2> QED BY <2>1, <2>4
  <1> QED BY <1>3, <1>4 DEF WaitsFor

\* CompleteSummary and ResetSummary cannot wait for each other in a circle: along
\* every chain of waits the second waits for a cache row and the third is committing.
THEOREM NoDeadlock == Spec => []NoLockCycle
  <1>1. IInv => NoLockCycle
    <2> SUFFICES ASSUME IInv, NEW S \in (SUBSET Procs) \ {{}},
                        \A p \in S : \E q \in S : WaitsFor(p, q)
                 PROVE  FALSE
      BY DEF NoLockCycle
    <2>1. PICK p \in S : TRUE
      <3>1. S # {}
        OBVIOUS
      <3> QED BY <3>1
    <2>2. PICK q \in S : WaitsFor(p, q)
      OBVIOUS
    <2>3. PICK r \in S : WaitsFor(q, r)
      OBVIOUS
    <2>4. PICK s \in S : WaitsFor(r, s)
      OBVIOUS
    <2>5. Action(q).stage \in InTransaction
      BY <2>2, Waiting DEF InTransaction
    <2>6. Action(r).stage \in {"committing", "committing reset"}
      BY <2>3, <2>5, Waiting
    <2>7. Action(r).stage \in InTransaction /\ Action(r).stage \notin {"saved first", "reset first"}
      BY <2>6 DEF InTransaction
    <2> QED BY <2>4, <2>7, Waiting
  <1> QED BY Inductive, <1>1, PTL

-----------------------------------------------------------------------------
(* What a step may do to the flag and to the cache.                        *)

FlagsStayUp == \A e \in Entries : row'[e].force = row[e].force \/ row'[e].force = TRUE

LEMMA FlagStaysUp ==
    ASSUME IInv, NEW f \in Entries, NEW x \in Rows, row' = [row EXCEPT ![f] = x],
           x.force = row[f].force \/ x.force = TRUE
    PROVE  FlagsStayUp
  <1>1. row'[f] = x /\ \A e \in Entries \ {f} : row'[e] = row[e]
    BY OneRow DEF IInv, TextInv
  <1>2. ASSUME NEW e \in Entries PROVE row'[e].force = row[e].force \/ row'[e].force = TRUE
    <2>1. CASE e = f
      BY <1>1, <2>1
    <2>2. CASE e # f
      BY <1>1, <2>2
    <2> QED BY <2>1, <2>2
  <1> QED BY <1>2 DEF FlagsStayUp

LEMMA FlagOfWorker ==
    ASSUME IInv, NEW w \in Workers, ClaimJob(w) \/ FinishJob(w)
    PROVE  FlagsStayUp
  <1>1. CASE ClaimJob(w)
    <2>1. PICK e \in Entries : row' = [row EXCEPT ![e] = Claimed(row[e], lastToken + 1)]
      BY <1>1 DEF ClaimJob
    <2>2. row[e] \in Rows /\ lastToken + 1 \in Nat
      BY EntryFacts
    <2>3. /\ Claimed(row[e], lastToken + 1) \in Rows
          /\ Claimed(row[e], lastToken + 1).force = row[e].force
      BY <2>2, RowClaimed
    <2> QED BY <2>1, <2>3, FlagStaysUp
  <1>2. CASE FinishJob(w)
    <2>1. PICK s \in {"failed", "skipped", "pending"} :
             /\ job[w].stage \in {"asking", "claimed", "releasing"}
             /\ \/ row' = row
                \/ row' = [row EXCEPT ![job[w].entry] = Released(row[job[w].entry], s)]
      BY <1>2 DEF FinishJob
    <2>2. job[w] # Idle
      BY <2>1 DEF Idle
    <2>3. PICK e \in Entries : e = job[w].entry
      BY <2>2, JobFacts
    <2>4. row[e] \in Rows /\ s \in Statuses
      BY EntryFacts DEF Statuses
    <2>5. Released(row[e], s) \in Rows /\ Released(row[e], s).force = row[e].force
      BY <2>4, RowReleased
    <2>6. CASE row' = row
      BY <2>6 DEF FlagsStayUp
    <2>7. CASE row' = [row EXCEPT ![e] = Released(row[e], s)]
      BY <2>5, <2>7, FlagStaysUp
    <2> QED BY <2>1, <2>3, <2>6, <2>7
  <1> QED BY <1>1, <1>2

LEMMA FlagOfReset ==
    ASSUME IInv, NEW u \in Users, CommitReset(u)
    PROVE  FlagsStayUp
  <1>1. req[u].stage = "committing reset" /\ ProcTypeOK
    BY DEF CommitReset, IInv, LockInv
  <1>2. req[u] \in Requests
    <2>1. req[u].stage # "idle"
      BY <1>1
    <2> QED BY <1>1, <2>1, ProcFacts
  <1>3. PICK e \in Entries : e = req[u].entry
    BY <1>2, RequestFields
  <1>4. row[e] \in Rows
    BY EntryFacts
  <1>5. Forced(row[e]) \in Rows /\ Forced(row[e]).force = TRUE
    BY <1>4, RowForced
  <1>6. row' = [row EXCEPT ![e] = Forced(row[e])]
    BY <1>3 DEF CommitReset
  <1> QED BY <1>5, <1>6, FlagStaysUp

LEMMA FlagOfOthers ==
    ASSUME IInv, NEW e \in Entries,
           LeaseLapses(e) \/ EditSummary(e) \/ StartEnrichment(e) \/ CompleteEnrichment(e)
    PROVE  FlagsStayUp
  <1>1. row[e] \in Rows
    BY EntryFacts
  <1>2. row[e].url \in Urls
    BY <1>1, RowFields
  <1>3. CASE EditSummary(e)
    <2>1. PICK y : y = IF row[e].status \in {"pending", "processing"}
                       THEN Released(row[e], "ok") ELSE row[e]
      OBVIOUS
    <2>2. PICK x : x = [y EXCEPT !.text = ByUser]
      OBVIOUS
    <2>3. row' = [row EXCEPT ![e] = x]
      BY <1>3, <2>1, <2>2 DEF EditSummary
    <2>4. y \in Rows /\ y.force = row[e].force
      <3>1. "ok" \in Statuses
        BY DEF Statuses
      <3> QED BY <1>1, <2>1, <3>1, RowReleased
    <2>5. x \in Rows /\ x.force = row[e].force
      BY <2>2, <2>4, RowEdited
    <2> QED BY <2>3, <2>5, FlagStaysUp
  <1>4. CASE LeaseLapses(e) \/ StartEnrichment(e) \/ CompleteEnrichment(e)
    <2>1. \E b \in BOOLEAN, u \in Urls :
             \E x \in Touched(row[e], b, u) : row' = [row EXCEPT ![e] = x]
      <3>1. CASE LeaseLapses(e)
        BY <1>2, <3>1 DEF LeaseLapses, Touched
      <3>2. CASE StartEnrichment(e)
        BY <1>2, <3>2 DEF StartEnrichment, Touched
      <3>3. CASE CompleteEnrichment(e)
        BY <3>3 DEF CompleteEnrichment, Touched
      <3> QED BY <1>4, <3>1, <3>2, <3>3
    <2>2. PICK b \in BOOLEAN, u \in Urls :
             \E x \in Touched(row[e], b, u) : row' = [row EXCEPT ![e] = x]
      BY <2>1
    <2>3. PICK x \in Touched(row[e], b, u) : row' = [row EXCEPT ![e] = x]
      BY <2>2
    <2>4. x \in Rows /\ x.force = row[e].force
      BY <1>1, <2>3, RowTouched
    <2> QED BY <2>3, <2>4, FlagStaysUp
  <1> QED BY <1>3, <1>4

\* Only a commit of a summary takes a flag down or puts a text into the cache.
LEMMA OnlyCommits ==
    ASSUME IInv, [Next]_vars, \A w \in Workers : ~CommitSummary(w)
    PROVE  FlagsStayUp /\ \A u \in Urls : cache'[u] = cache[u] \/ cache'[u] = NoText
  <1>1. ASSUME NEW w \in Workers, ClaimJob(w) \/ FinishJob(w)
        PROVE  FlagsStayUp /\ cache' = cache
    BY <1>1, FlagOfWorker DEF ClaimJob, FinishJob
  <1>2. ASSUME NEW w \in Workers, LookUpCache(w) \/ ProviderAnswers(w)
        PROVE  FlagsStayUp /\ cache' = cache
    BY <1>2 DEF LookUpCache, ProviderAnswers, LocalStep, FlagsStayUp
  <1>3. ASSUME NEW p \in Procs, UpdateEntry(p) \/ TouchCache(p) \/ Abort(p)
        PROVE  FlagsStayUp /\ cache' = cache
    BY <1>3 DEF UpdateEntry, TouchCache, Abort, FlagsStayUp
  <1>4. ASSUME NEW u \in Users, BeginReset(u)
        PROVE  FlagsStayUp /\ cache' = cache
    BY <1>4 DEF BeginReset, FlagsStayUp
  <1>5. ASSUME NEW u \in Users, CommitReset(u)
        PROVE  FlagsStayUp /\ \A v \in Urls : cache'[v] = cache[v] \/ cache'[v] = NoText
    <2>1. cache' = [v \in Urls |-> IF cacheLock[v] = u THEN NoText ELSE cache[v]]
      BY <1>5 DEF CommitReset
    <2> QED BY <1>5, <2>1, FlagOfReset
  <1>6. ASSUME NEW e \in Entries,
               LeaseLapses(e) \/ EditSummary(e) \/ StartEnrichment(e) \/ CompleteEnrichment(e)
        PROVE  FlagsStayUp /\ cache' = cache
    BY <1>6, FlagOfOthers DEF LeaseLapses, EditSummary, StartEnrichment, CompleteEnrichment
  <1>7. CASE UNCHANGED vars
    BY <1>7 DEF vars, FlagsStayUp
  <1> QED BY <1>1, <1>2, <1>3, <1>4, <1>5, <1>6, <1>7 DEF Next

\* What a commit of a summary writes.
LEMMA CommitWrites ==
    ASSUME IInv, NEW w \in Workers, CommitSummary(w)
    PROVE  \E f \in Entries, u \in Urls :
              /\ \A e \in Entries \ {f} : row'[e] = row[e]
              /\ row'[f].status = "ok"
              /\ \/ cache' = cache
                 \/ cache' = [cache EXCEPT ![u] = row'[f].text]
              /\ row[f].force =>
                    row'[f].text > refreshed[f] /\ cache' = [cache EXCEPT ![u] = row'[f].text]
  <1> job[w] # Idle
    <2>1. job[w].stage \in {"committing", "committing cached"}
      BY DEF CommitSummary
    <2>2. Idle.stage = "idle"
      BY DEF Idle
    <2> QED BY <2>1, <2>2
  <1>1. PICK c \in Claims : c = job[w]
    BY JobFacts
  <1>2. PICK f \in Entries :
           /\ f = c.entry
           /\ row[f].force => c.stage = "committing" /\ c.text > refreshed[f]
    <2>1. job[w].stage \in {"committing", "committing cached"}
      BY DEF CommitSummary
    <2> QED BY <1>1, <2>1, CommitFacts
  <1>3. PICK x : x = Completed(row[f], c)
    OBVIOUS
  <1>4. /\ row' = [row EXCEPT ![f] = x]
        /\ cache' = IF c.stage = "committing" THEN [cache EXCEPT ![c.url] = c.text] ELSE cache
    BY <1>1, <1>2, <1>3 DEF CommitSummary
  <1>5. row[f] \in Rows /\ DataTypeOK
    BY EntryFacts
  <1>6. x \in Rows /\ x.status = "ok" /\ x.text = c.text
    BY <1>3, <1>5, RowCompleted
  <1>7. row'[f] = x /\ \A e \in Entries \ {f} : row'[e] = row[e]
    BY <1>4, <1>5, <1>6, OneRow
  <1>8. PICK u \in Urls : u = c.url
    BY ClaimFields
  <1> QED BY <1>2, <1>4, <1>6, <1>7, <1>8

\* docs/worker-rollout.md: a flag is cleared atomically with the saved summary, a text
\* that was asked for after the refresh, and with the cache.
THEOREM FlagCleared == Spec => FlagClearedByFreshText
  <1>1. ASSUME IInv, [Next]_vars, NEW e \in Entries, row[e].force, ~row'[e].force
        PROVE  row'[e].text > refreshed[e] /\ \E u \in Urls : cache'[u] = row'[e].text
    <2>1. PICK w \in Workers : CommitSummary(w)
      BY <1>1, OnlyCommits DEF FlagsStayUp
    <2>2. PICK f \in Entries, u \in Urls :
             /\ \A d \in Entries \ {f} : row'[d] = row[d]
             /\ row[f].force =>
                   row'[f].text > refreshed[f] /\ cache' = [cache EXCEPT ![u] = row'[f].text]
      BY <1>1, <2>1, CommitWrites
    <2>3. e = f
      BY <1>1, <2>2
    <2>4. cache \in [Urls -> Int]
      BY <1>1, EntryFacts
    <2> QED BY <1>1, <2>2, <2>3, <2>4
  <1>2. IInv /\ [Next]_vars =>
           \A e \in Entries : row[e].force /\ ~row'[e].force =>
              /\ row'[e].text > refreshed[e]
              /\ \E u \in Urls : cache'[u] = row'[e].text
    BY <1>1
  <1> QED BY Inductive, <1>2, PTL DEF Spec, FlagClearedByFreshText

\* A text enters the cache only together with the entry that shows it (CompleteSummary):
\* a worker that lost its claim writes neither.
THEOREM CacheFollows == Spec => CacheFollowsEntry
  <1>1. ASSUME IInv, [Next]_vars, NEW u \in Urls, cache'[u] # cache[u], cache'[u] # NoText
        PROVE  \E e \in Entries : row'[e].text = cache'[u] /\ row'[e].status = "ok"
    <2>1. PICK w \in Workers : CommitSummary(w)
      BY <1>1, OnlyCommits
    <2>2. PICK f \in Entries, v \in Urls :
             /\ row'[f].status = "ok"
             /\ \/ cache' = cache
                \/ cache' = [cache EXCEPT ![v] = row'[f].text]
      BY <1>1, <2>1, CommitWrites
    <2>3. cache \in [Urls -> Int]
      BY <1>1 DEF IInv, TextInv, DataTypeOK
    <2>4. cache'[u] = row'[f].text
      BY <1>1, <2>2, <2>3
    <2> QED BY <2>2, <2>4
  <1>2. IInv /\ [Next]_vars =>
           \A u \in Urls : cache'[u] # cache[u] /\ cache'[u] # NoText =>
              \E e \in Entries : row'[e].text = cache'[u] /\ row'[e].status = "ok"
    BY <1>1
  <1> QED BY Inductive, <1>2, PTL DEF Spec, CacheFollowsEntry
=============================================================================
