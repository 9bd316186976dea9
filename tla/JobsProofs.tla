----------------------------- MODULE JobsProofs -----------------------------
(***************************************************************************)
(* Proofs about the background jobs and about the two contracts that live  *)
(* by the clock, for any numbers of processes, rows, payments and users    *)
(* and any amounts, intervals and bounds.                                  *)
(*                                                                         *)
(* The mint queue.  The invariant has two halves that do not depend on one *)
(* another: one about the rows and the replicas working on them, one about *)
(* the locks.                                                              *)
(*                                                                         *)
(* Recurring payments.  The invariant OnTime is of one schedule.  That it  *)
(* was never paid more often than intervals have passed is not inductive:  *)
(* what is, is that an active schedule's next due date leaves room for one *)
(* payment more.                                                           *)
(*                                                                         *)
(* Savings vaults.  Each part of SavingsSafe has a strengthening of its    *)
(* own: a vault's interest is bounded up to its last accrual (Earns), and  *)
(* one that is open during an emergency was opened before it (Warns).      *)
(* VaultStep puts together what a step on one vault must satisfy.          *)
(*                                                                         *)
(* Confirmations.  What a row or a lookup says of a transaction is what    *)
(* became of it, and a row that has left "pending" stays as it is.         *)
(*                                                                         *)
(* Claimable balances.  A balance that was claimed or taken back stays so: *)
(* an effect names one that was, however late and however often the stream *)
(* delivers it, so what it writes on the row is still true.                *)
(*                                                                         *)
(* Fees.  A cached row that has been turned off was read before that, so   *)
(* it has been off for no longer than its key has been in the cache        *)
(* (CacheRecent); a row read a moment ago is still in force (TaskRecent).  *)
(***************************************************************************)
EXTENDS LoyaltyMint, FeeConfigs, ClaimableBalances, Confirmations,
        RecurringPayments, SavingsVault, SumsProofs, FiniteSetTheorems

-----------------------------------------------------------------------------
(* Rows and workers.                                                       *)

QueueRecord ==
    [status : {"pending", "processing", "completed", "failed"}, retries : 0..6]

WorkRecord ==
    [at : {"off", "acquire", "claim", "mark", "mint", "nothing minted",
           "complete", "credit", "handle", "release"},
     job : Jobs \cup {0}, retries : 0..6, slot : Slots \cup {0}]

\* The places where a replica works on a row.
Busy == {"mark", "mint", "nothing minted", "complete", "credit", "handle"}

\* A row q that was attempted a times, with m mints of which s were taken for
\* failed, and c credits of which h were.  A pending row has no open outcome,
\* and its retry count is two per attempt.
RowSound(q, a, m, s, c, h) ==
    /\ q \in QueueRecord
    /\ a \in 0..3 /\ m \in 0..3 /\ s \in 0..3 /\ c \in 0..3 /\ h \in 0..3
    /\ m <= a /\ s <= m /\ m <= 1 + s /\ h <= s /\ h <= c /\ c + s <= m + h
    /\ q.status = "pending" => q.retries = 2 * a /\ a <= 2 /\ m = s /\ c = h
    /\ q.status = "failed" => a = 3

\* A replica at this place of the job, having read this retry count, agrees
\* with the row it works on.
WorkSound(at, retries, q, a, m, s, c, h) ==
    /\ at = "mark" => q.status = "pending" /\ retries = q.retries
    /\ at = "mint" =>
          /\ q.status = "processing"
          /\ a <= 2 /\ retries = 2 * a /\ q.retries = 2 * a + 1
          /\ m = s /\ c = h
    /\ at \in {"nothing minted", "complete", "credit", "handle"} =>
          /\ a >= 1 /\ retries = 2 * a - 2 /\ q.retries = 2 * a - 1
          /\ c = h
    /\ at \in {"nothing minted", "complete"} => q.status = "processing"
    /\ at = "credit" => q.status = "completed"
    /\ at = "handle" => q.status \in {"processing", "completed"}
    /\ at \in {"nothing minted", "handle"} => m = s
    /\ at \in {"complete", "credit"} => m = 1 + s

RowOK(j) == RowSound(queue[j], attempts[j], mints[j], slips[j], credits[j], echoes[j])

WorkOK(r) ==
    LET w == work[r]
        j == w.job
    IN  w.at \in Busy =>
          /\ j \in Jobs
          /\ WorkSound(w.at, w.retries, queue[j], attempts[j], mints[j], slips[j], credits[j], echoes[j])

\* No row is worked on by two replicas.
Alone(r) ==
    \A p \in Replicas : work[p].at \in Busy /\ work[r].at \in Busy
                          /\ work[p].job = work[r].job => p = r

RowsTyped ==
    /\ queue \in [Jobs -> QueueRecord]
    /\ paid \subseteq Jobs
    /\ work \in [Replicas -> WorkRecord]
    /\ attempts \in [Jobs -> Nat] /\ mints \in [Jobs -> Nat]
    /\ slips \in [Jobs -> Nat] /\ credits \in [Jobs -> Nat] /\ echoes \in [Jobs -> Nat]

RowsInv ==
    /\ RowsTyped
    /\ \A j \in Jobs : RowOK(j)
    /\ \A r \in Replicas : WorkOK(r) /\ Alone(r)

\* A replica that works on no row, before and after the step, disturbs
\* nothing.
LEMMA IdleStep ==
    ASSUME RowsInv, NEW r \in Replicas, NEW w \in WorkRecord, w.at \notin Busy,
           work' = [work EXCEPT ![r] = w],
           UNCHANGED <<queue, paid, Ghosts>>
    PROVE  RowsInv'
<1>1. work \in [Replicas -> WorkRecord]
  BY DEF RowsInv, RowsTyped
<1>2. work'[r] = w /\ \A p \in Replicas : p # r => work'[p] = work[p]
  BY <1>1
<1>3. RowsTyped'
  <2>1. work' \in [Replicas -> WorkRecord]
    BY <1>1
  <2>2. QED
    BY <2>1 DEF RowsInv, RowsTyped, Ghosts
<1>4. ASSUME NEW j \in Jobs PROVE RowOK(j)'
  BY DEF RowsInv, RowOK, Ghosts
<1>5. ASSUME NEW p \in Replicas PROVE WorkOK(p)' /\ Alone(p)'
  <2>1. CASE p = r
    BY <1>2, <2>1 DEF WorkOK, Alone
  <2>2. CASE p # r
    <3>1. WorkOK(p) /\ Alone(p) /\ work'[p] = work[p]
      BY <1>2, <2>2 DEF RowsInv
    <3>2. WorkOK(p)'
      BY <3>1 DEF WorkOK, Ghosts
    <3>3. Alone(p)'
      BY <1>2, <3>1 DEF Alone
    <3>4. QED
      BY <3>2, <3>3
  <2>3. QED
    BY <2>1, <2>2
<1>6. QED
  BY <1>3, <1>4, <1>5 DEF RowsInv

\* A replica that works on row j, or has just taken it, may change that row
\* and its own state as long as the two agree afterwards.
LEMMA RowStep ==
    ASSUME RowsInv, NEW r \in Replicas, NEW j \in Jobs,
           \A p \in Replicas : work[p].at \in Busy /\ work[p].job = j => p = r,
           NEW w \in WorkRecord, w.at \in Busy => w.job = j,
           NEW q, NEW a, NEW m, NEW s, NEW c, NEW h,
           RowSound(q, a, m, s, c, h),
           w.at \in Busy => WorkSound(w.at, w.retries, q, a, m, s, c, h),
           work' = [work EXCEPT ![r] = w],
           queue' = [queue EXCEPT ![j] = q],
           attempts' = [attempts EXCEPT ![j] = a],
           mints' = [mints EXCEPT ![j] = m],
           slips' = [slips EXCEPT ![j] = s],
           credits' = [credits EXCEPT ![j] = c],
           echoes' = [echoes EXCEPT ![j] = h],
           UNCHANGED paid
    PROVE  RowsInv'
<1>1. RowsTyped
  BY DEF RowsInv
<1>2. work'[r] = w /\ \A p \in Replicas : p # r => work'[p] = work[p]
  BY <1>1 DEF RowsTyped
<1>3. /\ queue'[j] = q /\ attempts'[j] = a /\ mints'[j] = m
      /\ slips'[j] = s /\ credits'[j] = c /\ echoes'[j] = h
  BY <1>1 DEF RowsTyped
<1>4. \A k \in Jobs : k # j =>
        /\ queue'[k] = queue[k] /\ attempts'[k] = attempts[k]
        /\ mints'[k] = mints[k] /\ slips'[k] = slips[k]
        /\ credits'[k] = credits[k] /\ echoes'[k] = echoes[k]
  BY <1>1 DEF RowsTyped
<1>5. RowsTyped'
  <2>1. q \in QueueRecord /\ a \in Nat /\ m \in Nat /\ s \in Nat /\ c \in Nat /\ h \in Nat
    BY DEF RowSound
  <2>2. QED
    BY <1>1, <2>1 DEF RowsTyped
<1>6. ASSUME NEW k \in Jobs PROVE RowOK(k)'
  <2>1. CASE k = j
    BY <1>3, <2>1 DEF RowOK
  <2>2. CASE k # j
    <3>1. RowOK(k)
      BY DEF RowsInv
    <3>2. QED
      BY <1>4, <2>2, <3>1 DEF RowOK
  <2>3. QED
    BY <2>1, <2>2
<1>7. ASSUME NEW p \in Replicas PROVE WorkOK(p)'
  <2>1. CASE p = r
    BY <1>2, <1>3, <2>1 DEF WorkOK
  <2>2. CASE p # r
    <3>1. WorkOK(p) /\ work'[p] = work[p]
      BY <1>2, <2>2 DEF RowsInv
    <3>2. work[p].at \in Busy => work[p].job # j
      BY <2>2
    <3>3. QED
      BY <1>4, <3>1, <3>2 DEF WorkOK
  <2>3. QED
    BY <2>1, <2>2
<1>8. ASSUME NEW p \in Replicas PROVE Alone(p)'
  <2>1. Alone(p)
    BY DEF RowsInv
  <2>2. QED
    BY <1>2, <2>1 DEF Alone
<1>9. QED
  BY <1>5, <1>6, <1>7, <1>8 DEF RowsInv

\* Writing back what a row already holds changes nothing.
LEMMA Unwritten ==
    ASSUME RowsInv, NEW j \in Jobs
    PROVE  /\ queue = [queue EXCEPT ![j] = queue[j]]
           /\ attempts = [attempts EXCEPT ![j] = attempts[j]]
           /\ mints = [mints EXCEPT ![j] = mints[j]]
           /\ slips = [slips EXCEPT ![j] = slips[j]]
           /\ credits = [credits EXCEPT ![j] = credits[j]]
           /\ echoes = [echoes EXCEPT ![j] = echoes[j]]
BY DEF RowsInv, RowsTyped

\* What a working replica knows of its row.
LEMMA Working ==
    ASSUME RowsInv, NEW r \in Replicas, work[r].at \in Busy
    PROVE  LET j == work[r].job
           IN  /\ j \in Jobs
               /\ RowSound(queue[j], attempts[j], mints[j], slips[j], credits[j], echoes[j])
               /\ WorkSound(work[r].at, work[r].retries, queue[j], attempts[j], mints[j], slips[j],
                            credits[j], echoes[j])
               /\ \A p \in Replicas :
                     work[p].at \in Busy /\ work[p].job = j => p = r
<1>1. WorkOK(r) /\ Alone(r)
  BY DEF RowsInv
<1>2. work[r].job \in Jobs
  BY <1>1 DEF WorkOK
<1>3. RowOK(work[r].job)
  BY <1>2 DEF RowsInv
<1>4. QED
  BY <1>1, <1>2, <1>3 DEF RowOK, WorkOK, Alone

\* RowStep for a replica that already works on the row and goes to another
\* place of the job.
LEMMA GoToStep ==
    ASSUME RowsInv, NEW r \in Replicas, NEW j, j = work[r].job,
           work[r].at \in Busy,
           NEW where \in Busy \cup {"release"}, GoTo(r, where),
           NEW q, NEW a, NEW m, NEW s, NEW c, NEW h,
           RowSound(q, a, m, s, c, h),
           where \in Busy =>
               WorkSound(where, work[r].retries, q, a, m, s, c, h),
           queue' = [queue EXCEPT ![j] = q],
           attempts' = [attempts EXCEPT ![j] = a],
           mints' = [mints EXCEPT ![j] = m],
           slips' = [slips EXCEPT ![j] = s],
           credits' = [credits EXCEPT ![j] = c],
           echoes' = [echoes EXCEPT ![j] = h],
           UNCHANGED paid
    PROVE  RowsInv'
<1> DEFINE w == [work[r] EXCEPT !.at = where]
<1>1. work \in [Replicas -> WorkRecord]
  BY DEF RowsInv, RowsTyped
<1>2. work[r] \in WorkRecord
  BY <1>1
<1>3. w \in WorkRecord /\ w.at = where /\ w.job = work[r].job
  BY <1>2 DEF WorkRecord, Busy
<1>4. work' = [work EXCEPT ![r] = w]
  BY <1>1 DEF GoTo
<1>5. j \in Jobs /\ \A p \in Replicas : work[p].at \in Busy /\ work[p].job = j => p = r
  BY Working
<1>6. w.at \in Busy => w.job = j
  BY <1>3
<1>7. w.at \in Busy => WorkSound(w.at, w.retries, q, a, m, s, c, h)
  BY <1>3
<1> HIDE DEF w
<1>8. QED
  BY <1>3, <1>4, <1>5, <1>6, <1>7, RowStep

-----------------------------------------------------------------------------
(* The steps of the job, as the rows see them.                             *)

LEMMA RowsInit == LoyaltyInit => RowsInv
<1>1. SUFFICES ASSUME LoyaltyInit PROVE RowsInv
  OBVIOUS
<1>2. Off \in WorkRecord /\ Off.at \notin Busy
  BY DEF Off, WorkRecord, Busy
<1>3. RowsTyped
  BY <1>1, <1>2 DEF LoyaltyInit, RowsTyped, QueueRecord
<1>4. ASSUME NEW j \in Jobs PROVE RowOK(j)
  BY <1>1 DEF LoyaltyInit, RowOK, RowSound, QueueRecord
<1>5. ASSUME NEW r \in Replicas PROVE WorkOK(r) /\ Alone(r)
  BY <1>1, <1>2 DEF LoyaltyInit, WorkOK, Alone
<1>6. QED
  BY <1>3, <1>4, <1>5 DEF RowsInv

\* The state in which a replica goes for a slot.
LEMMA AtSlot ==
    ASSUME NEW i \in Slots
    PROVE  LET w == [Off EXCEPT !.at = "acquire", !.slot = i]
           IN  w \in WorkRecord /\ w.at \notin Busy
<1>1. Off \in WorkRecord
  BY DEF Off, WorkRecord
<1>2. ASSUME NEW o \in WorkRecord
      PROVE  LET w == [o EXCEPT !.at = "acquire", !.slot = i]
             IN  w \in WorkRecord /\ w.at = "acquire"
  BY DEF WorkRecord
<1>3. QED
  BY <1>1, <1>2 DEF Busy

LEMMA NextSlotIdle ==
    ASSUME RowsInv, NEW r \in Replicas, NextSlot(r),
           UNCHANGED <<queue, paid, Ghosts>>
    PROVE  RowsInv'
<1> DEFINE w == IF work[r].slot + 1 \in Slots
                THEN [Off EXCEPT !.at = "acquire", !.slot = work[r].slot + 1]
                ELSE Off
<1>1. w \in WorkRecord /\ w.at \notin Busy
  <2>1. CASE work[r].slot + 1 \in Slots
    BY <2>1, AtSlot
  <2>2. CASE work[r].slot + 1 \notin Slots
    BY <2>2 DEF Off, WorkRecord, Busy
  <2>3. QED
    BY <2>1, <2>2
<1>2. work' = [work EXCEPT ![r] = w]
  <2>1. work \in [Replicas -> WorkRecord]
    BY DEF RowsInv, RowsTyped
  <2>2. QED
    BY <2>1 DEF NextSlot
<1> HIDE DEF w
<1>3. QED
  BY <1>1, <1>2, IdleStep

LEMMA GoToIdle ==
    ASSUME RowsInv, NEW r \in Replicas, NEW where \in {"claim", "release"},
           GoTo(r, where), UNCHANGED <<queue, paid, Ghosts>>
    PROVE  RowsInv'
<1> DEFINE w == [work[r] EXCEPT !.at = where]
<1>1. work \in [Replicas -> WorkRecord]
  BY DEF RowsInv, RowsTyped
<1>2. work[r] \in WorkRecord
  BY <1>1
<1>3. w \in WorkRecord /\ w.at \notin Busy
  BY <1>2 DEF WorkRecord, Busy
<1>4. work' = [work EXCEPT ![r] = w]
  BY <1>1 DEF GoTo
<1> HIDE DEF w
<1>5. QED
  BY <1>3, <1>4, IdleStep

LEMMA StartIdle ==
    ASSUME RowsInv, NEW r \in Replicas, StartJob(r) \/ Crash(r)
    PROVE  RowsInv'
<1>1. CASE StartJob(r)
  <2> DEFINE w == [Off EXCEPT !.at = "acquire", !.slot = 1]
  <2>1. w \in WorkRecord /\ w.at \notin Busy
    BY MintConstants, AtSlot
  <2>2. work' = [work EXCEPT ![r] = w] /\ UNCHANGED <<queue, paid, Ghosts>>
    BY <1>1 DEF StartJob
  <2> HIDE DEF w
  <2>3. QED
    BY <2>1, <2>2, IdleStep
<1>2. CASE Crash(r)
  <2>1. Off \in WorkRecord /\ Off.at \notin Busy
    BY DEF Off, WorkRecord, Busy
  <2>2. QED
    BY <1>2, <2>1, IdleStep DEF Crash
<1>3. QED
  BY <1>1, <1>2

LEMMA TakeRows ==
    ASSUME RowsInv, NEW r \in Replicas, TakeSlot(r) \/ LeaveSlot(r)
    PROVE  RowsInv'
BY NextSlotIdle, GoToIdle DEF TakeSlot, LeaveSlot

LEMMA CompletePaymentRows ==
    ASSUME RowsInv, NEW j \in Jobs, CompletePayment(j)
    PROVE  RowsInv'
<1>1. UNCHANGED <<queue, work, Ghosts>> /\ paid' = paid \cup {j}
  BY DEF CompletePayment
<1>2. RowsTyped'
  BY <1>1 DEF RowsInv, RowsTyped, Ghosts
<1>3. \A k \in Jobs : RowOK(k)'
  BY <1>1 DEF RowsInv, RowOK, Ghosts
<1>4. \A r \in Replicas : WorkOK(r)' /\ Alone(r)'
  BY <1>1 DEF RowsInv, WorkOK, Alone, Ghosts
<1>5. QED
  BY <1>2, <1>3, <1>4 DEF RowsInv

LEMMA SelectRows ==
    ASSUME RowsInv, NEW r \in Replicas, SelectRow(r)
    PROVE  RowsInv'
<1>1. At(r, "claim") /\ UNCHANGED <<queue, paid, Ghosts>>
  BY DEF SelectRow
<1>2. CASE GoTo(r, "release")
  BY <1>1, <1>2, GoToIdle
<1>3. CASE \E j \in Claimable :
             work' = [work EXCEPT ![r].at = "mark", ![r].job = j,
                                  ![r].retries = queue[j].retries]
  <2>1. PICK j \in Claimable :
             work' = [work EXCEPT ![r].at = "mark", ![r].job = j,
                                  ![r].retries = queue[j].retries]
    BY <1>3
  <2> DEFINE w == [work[r] EXCEPT !.at = "mark", !.job = j,
                                  !.retries = queue[j].retries]
  <2>2. j \in Jobs /\ queue[j].status = "pending" /\ ~RowLocked(j)
    BY DEF Claimable, RowsInv, RowsTyped
  <2>3. RowSound(queue[j], attempts[j], mints[j], slips[j], credits[j], echoes[j])
    BY <2>2 DEF RowsInv, RowOK
  <2>4. work \in [Replicas -> WorkRecord] /\ work[r] \in WorkRecord
    BY DEF RowsInv, RowsTyped
  <2>5. w \in WorkRecord /\ w.at = "mark" /\ w.job = j /\ w.retries = queue[j].retries
    BY <2>2, <2>3, <2>4 DEF WorkRecord, RowSound, QueueRecord
  <2>6. work' = [work EXCEPT ![r] = w]
    BY <2>1, <2>4
  <2>7. ASSUME NEW p \in Replicas, work[p].at \in Busy, work[p].job = j
        PROVE  p = r
    <3>1. WorkSound(work[p].at, work[p].retries, queue[j], attempts[j], mints[j], slips[j], credits[j], echoes[j])
      BY <2>7 DEF RowsInv, WorkOK
    <3>2. work[p].at = "mark"
      BY <2>2, <2>7, <3>1 DEF WorkSound, Busy
    <3>3. QED
      BY <2>2, <2>7, <3>2 DEF RowLocked, At
  <2>8. WorkSound(w.at, w.retries, queue[j], attempts[j], mints[j], slips[j], credits[j], echoes[j])
    BY <2>2, <2>5 DEF WorkSound
  <2> HIDE DEF w
  <2>9. /\ queue' = [queue EXCEPT ![j] = queue[j]]
        /\ attempts' = [attempts EXCEPT ![j] = attempts[j]]
        /\ mints' = [mints EXCEPT ![j] = mints[j]]
        /\ slips' = [slips EXCEPT ![j] = slips[j]]
        /\ credits' = [credits EXCEPT ![j] = credits[j]]
        /\ echoes' = [echoes EXCEPT ![j] = echoes[j]]
    BY <1>1, <2>2, Unwritten DEF Ghosts
  <2>10. UNCHANGED paid
    BY <1>1
  <2>11. QED
    BY <2>2, <2>3, <2>5, <2>6, <2>7, <2>8, <2>9, <2>10, RowStep
<1>4. QED
  BY <1>2, <1>3 DEF SelectRow

\* Where a step of a working replica r on row j leads: it goes to where and
\* leaves the row with q, a, m, s, c and h, which agree with that.
Goes(r, where, q, a, m, s, c, h) ==
    LET j == work[r].job
    IN  /\ GoTo(r, where)
        /\ queue' = [queue EXCEPT ![j] = q]
        /\ attempts' = [attempts EXCEPT ![j] = a]
        /\ mints' = [mints EXCEPT ![j] = m]
        /\ slips' = [slips EXCEPT ![j] = s]
        /\ credits' = [credits EXCEPT ![j] = c]
        /\ echoes' = [echoes EXCEPT ![j] = h]
        /\ UNCHANGED paid
        /\ RowSound(q, a, m, s, c, h)
        /\ where \in Busy => WorkSound(where, work[r].retries, q, a, m, s, c, h)

LEMMA GoesStep ==
    ASSUME RowsInv, NEW r \in Replicas, work[r].at \in Busy,
           NEW where \in Busy \cup {"release"},
           NEW q, NEW a, NEW m, NEW s, NEW c, NEW h, Goes(r, where, q, a, m, s, c, h)
    PROVE  RowsInv'
BY GoToStep DEF Goes

\* The facts a step of a working replica starts from.
Facts(r, q, a, m, s, c, h) ==
    /\ work[r] \in WorkRecord
    /\ q = queue[work[r].job] /\ a = attempts[work[r].job]
    /\ m = mints[work[r].job] /\ s = slips[work[r].job] /\ c = credits[work[r].job]
    /\ h = echoes[work[r].job]
    /\ RowSound(q, a, m, s, c, h)
    /\ WorkSound(work[r].at, work[r].retries, q, a, m, s, c, h)
    /\ queue = [queue EXCEPT ![work[r].job] = q]
    /\ attempts = [attempts EXCEPT ![work[r].job] = a]
    /\ mints = [mints EXCEPT ![work[r].job] = m]
    /\ slips = [slips EXCEPT ![work[r].job] = s]
    /\ credits = [credits EXCEPT ![work[r].job] = c]
    /\ echoes = [echoes EXCEPT ![work[r].job] = h]

LEMMA FactsHold ==
    ASSUME RowsInv, NEW r \in Replicas, work[r].at \in Busy
    PROVE  \E q, a, m, s, c, h : Facts(r, q, a, m, s, c, h)
<1> DEFINE j == work[r].job
<1>1. work[r] \in WorkRecord
  BY DEF RowsInv, RowsTyped
<1>2. j \in Jobs
      /\ RowSound(queue[j], attempts[j], mints[j], slips[j], credits[j], echoes[j])
      /\ WorkSound(work[r].at, work[r].retries, queue[j], attempts[j], mints[j], slips[j], credits[j], echoes[j])
  BY Working
<1>3. Facts(r, queue[j], attempts[j], mints[j], slips[j], credits[j], echoes[j])
  BY <1>1, <1>2, Unwritten DEF Facts
<1>4. QED
  BY <1>3

LEMMA MarkRows ==
    ASSUME RowsInv, NEW r \in Replicas, MarkProcessing(r)
    PROVE  RowsInv'
<1>1. work[r].at = "mark" /\ work[r].at \in Busy
  BY DEF MarkProcessing, At, Busy
<1>2. PICK q, a, m, s, c, h : Facts(r, q, a, m, s, c, h)
  BY <1>1, FactsHold
<1> DEFINE p == [status |-> "processing", retries |-> q.retries + 1]
<1>3. q.status = "pending" /\ work[r].retries = q.retries /\ q.retries = 2 * a
      /\ a \in 0..2 /\ m = s /\ c = h
  BY <1>1, <1>2 DEF Facts, RowSound, WorkSound
<1>4. RowSound(p, a, m, s, c, h)
  <2>1. q \in QueueRecord /\ q.retries + 1 \in 0..6
    BY <1>2, <1>3 DEF Facts, RowSound
  <2>2. p \in QueueRecord /\ p.status = "processing"
    BY <2>1 DEF QueueRecord
  <2> HIDE DEF p
  <2>3. QED
    BY <1>2, <2>2 DEF Facts, RowSound
<1>5. p.status = "processing" /\ p.retries = 2 * a + 1
  BY <1>3
<1>6. UNCHANGED <<paid, Ghosts>>
  BY DEF MarkProcessing
<1>7. \/ queue' = [queue EXCEPT ![work[r].job] = p] /\ GoTo(r, "mint")
      \/ queue' = [queue EXCEPT ![work[r].job] = p] /\ GoTo(r, "release")
      \/ UNCHANGED queue /\ GoTo(r, "release")
  BY <1>2 DEF MarkProcessing, Facts
<1> HIDE DEF p
<1>8. CASE queue' = [queue EXCEPT ![work[r].job] = p] /\ GoTo(r, "mint")
  <2>1. WorkSound("mint", work[r].retries, p, a, m, s, c, h)
    BY <1>3, <1>5, SMTT(30) DEF WorkSound
  <2>2. Goes(r, "mint", p, a, m, s, c, h)
    BY <1>2, <1>4, <1>6, <1>8, <2>1 DEF Ghosts, Goes, Facts
  <2>3. QED
    BY <1>1, <2>2, GoesStep DEF Busy
<1>9. CASE queue' = [queue EXCEPT ![work[r].job] = p] /\ GoTo(r, "release")
  <2>1. Goes(r, "release", p, a, m, s, c, h)
    BY <1>2, <1>4, <1>6, <1>9 DEF Ghosts, Goes, Facts, Busy
  <2>2. QED
    BY <1>1, <2>1, GoesStep
<1>10. CASE UNCHANGED queue /\ GoTo(r, "release")
  <2>1. Goes(r, "release", q, a, m, s, c, h)
    BY <1>2, <1>6, <1>10 DEF Ghosts, Goes, Facts, Busy
  <2>2. QED
    BY <1>1, <2>1, GoesStep
<1>11. QED
  BY <1>7, <1>8, <1>9, <1>10

\* A working replica sets the status of its row to x.
LEMMA StatusSet ==
    ASSUME RowsInv, NEW r \in Replicas, work[r].at \in Busy,
           NEW x \in {"pending", "processing", "completed", "failed"},
           SetStatus(work[r].job, x)
    PROVE  \E p \in QueueRecord :
              /\ queue' = [queue EXCEPT ![work[r].job] = p]
              /\ p.status = x
              /\ p.retries = queue[work[r].job].retries
<1> DEFINE j == work[r].job
           p == [queue[j] EXCEPT !.status = x]
<1>1. j \in Jobs
  BY Working
<1> HIDE DEF j
<1>2. queue \in [Jobs -> QueueRecord] /\ queue[j] \in QueueRecord
  BY <1>1 DEF RowsInv, RowsTyped
<1>3. p \in QueueRecord /\ p.status = x /\ p.retries = queue[j].retries
  BY <1>2 DEF QueueRecord
<1>4. queue' = [queue EXCEPT ![j] = p]
  BY <1>2 DEF SetStatus, j
<1> HIDE DEF p
<1>5. QED
  BY <1>3, <1>4 DEF j

LEMMA SkipRows ==
    ASSUME RowsInv, NEW r \in Replicas, SkipDust(r)
    PROVE  RowsInv'
<1>1. work[r].at = "mint" /\ work[r].at \in Busy
  BY DEF SkipDust, At, Busy
<1>2. PICK q, a, m, s, c, h : Facts(r, q, a, m, s, c, h)
  BY <1>1, FactsHold
<1>3. CASE SetStatus(work[r].job, "completed")
  <2>1. PICK p \in QueueRecord :
           /\ queue' = [queue EXCEPT ![work[r].job] = p]
           /\ p.status = "completed"
    BY <1>1, <1>3, StatusSet
  <2>2. RowSound(p, a, m, s, c, h)
    BY <1>2, <2>1 DEF Facts, RowSound
  <2>3. Goes(r, "release", p, a, m, s, c, h)
    BY <1>2, <2>1, <2>2 DEF SkipDust, Ghosts, Goes, Facts, Busy
  <2>4. QED
    BY <1>1, <2>3, GoesStep
<1>4. CASE UNCHANGED queue
  <2>1. Goes(r, "release", q, a, m, s, c, h)
    BY <1>2, <1>4 DEF SkipDust, Ghosts, Goes, Facts, Busy
  <2>2. QED
    BY <1>1, <2>1, GoesStep
<1>5. QED
  BY <1>3, <1>4 DEF SkipDust

LEMMA MintRows ==
    ASSUME RowsInv, NEW r \in Replicas, Mint(r)
    PROVE  RowsInv'
<1>1. work[r].at = "mint" /\ work[r].at \in Busy
  BY DEF Mint, At, Busy
<1>2. PICK q, a, m, s, c, h : Facts(r, q, a, m, s, c, h)
  BY <1>1, FactsHold
<1>3. /\ q \in QueueRecord /\ q.status = "processing" /\ q.retries = 2 * a + 1
      /\ work[r].retries = 2 * a
      /\ a \in 0..2 /\ m \in 0..3 /\ m = s /\ m <= a /\ c = h /\ h \in 0..3 /\ h <= s
  BY <1>1, <1>2 DEF Facts, RowSound, WorkSound
<1>4. /\ UNCHANGED <<queue, paid, credits, echoes>>
      /\ attempts' = [attempts EXCEPT ![work[r].job] = a + 1]
  BY <1>2 DEF Mint, Facts
<1>5. CASE /\ mints' = [mints EXCEPT ![work[r].job] = @ + 1]
           /\ GoTo(r, "complete")
           /\ UNCHANGED slips
  <2>1. RowSound(q, a + 1, m + 1, s, c, h)
    BY <1>3 DEF RowSound
  <2>2. WorkSound("complete", work[r].retries, q, a + 1, m + 1, s, c, h)
    BY <1>3, SMTT(30) DEF WorkSound
  <2>3. Goes(r, "complete", q, a + 1, m + 1, s, c, h)
    BY <1>2, <1>4, <1>5, <2>1, <2>2 DEF Goes, Facts
  <2>4. QED
    BY <1>1, <2>3, GoesStep DEF Busy
<1>6. CASE /\ mints' = [mints EXCEPT ![work[r].job] = @ + 1]
           /\ Slip(work[r].job)
           /\ GoTo(r, "handle")
  <2>1. RowSound(q, a + 1, m + 1, s + 1, c, h)
    BY <1>3 DEF RowSound
  <2>2. WorkSound("handle", work[r].retries, q, a + 1, m + 1, s + 1, c, h)
    BY <1>3, SMTT(30) DEF WorkSound
  <2>3. Goes(r, "handle", q, a + 1, m + 1, s + 1, c, h)
    BY <1>2, <1>4, <1>6, <2>1, <2>2 DEF Goes, Facts, Slip
  <2>4. QED
    BY <1>1, <2>3, GoesStep DEF Busy
<1>7. CASE (GoTo(r, "handle") \/ GoTo(r, "nothing minted"))
             /\ UNCHANGED <<mints, slips>>
  <2>1. RowSound(q, a + 1, m, s, c, h)
    BY ONLY <1>3 DEF RowSound
  <2>2. /\ WorkSound("handle", work[r].retries, q, a + 1, m, s, c, h)
        /\ WorkSound("nothing minted", work[r].retries, q, a + 1, m, s, c, h)
    BY ONLY <1>3, SMTT(30) DEF WorkSound
  <2>3. \/ Goes(r, "handle", q, a + 1, m, s, c, h)
        \/ Goes(r, "nothing minted", q, a + 1, m, s, c, h)
    BY <1>2, <1>4, <1>7, <2>1, <2>2 DEF Goes, Facts
  <2>4. QED
    BY <1>1, <2>3, GoesStep DEF Busy
<1>8. QED
  BY <1>5, <1>6, <1>7 DEF Mint

LEMMA CompleteUnmintedRows ==
    ASSUME RowsInv, NEW r \in Replicas, CompleteUnminted(r)
    PROVE  RowsInv'
<1>1. work[r].at = "nothing minted" /\ work[r].at \in Busy
  BY DEF CompleteUnminted, At, Busy
<1>2. PICK q, a, m, s, c, h : Facts(r, q, a, m, s, c, h)
  BY <1>1, FactsHold
<1>3. CASE SetStatus(work[r].job, "completed") /\ GoTo(r, "release")
  <2>1. PICK p \in QueueRecord :
           /\ queue' = [queue EXCEPT ![work[r].job] = p]
           /\ p.status = "completed"
    BY <1>1, <1>3, StatusSet
  <2>2. RowSound(p, a, m, s, c, h)
    BY <1>2, <2>1 DEF Facts, RowSound
  <2>3. Goes(r, "release", p, a, m, s, c, h)
    BY <1>2, <1>3, <2>1, <2>2 DEF CompleteUnminted, Ghosts, Goes, Facts, Busy
  <2>4. QED
    BY <1>1, <2>3, GoesStep
<1>4. CASE GoTo(r, "handle") /\ UNCHANGED queue
  <2>1. WorkSound("handle", work[r].retries, q, a, m, s, c, h)
    BY <1>1, <1>2 DEF Facts, WorkSound
  <2>2. Goes(r, "handle", q, a, m, s, c, h)
    BY <1>2, <1>4, <2>1 DEF CompleteUnminted, Ghosts, Goes, Facts
  <2>3. QED
    BY <1>1, <2>2, GoesStep DEF Busy
<1>5. CASE SetStatus(work[r].job, "completed") /\ GoTo(r, "handle")
  <2>1. PICK p \in QueueRecord :
           /\ queue' = [queue EXCEPT ![work[r].job] = p]
           /\ p.status = "completed"
           /\ p.retries = queue[work[r].job].retries
    BY <1>1, <1>5, StatusSet
  <2>2. RowSound(p, a, m, s, c, h)
    BY <1>2, <2>1 DEF Facts, RowSound
  <2>3. WorkSound("nothing minted", work[r].retries, q, a, m, s, c, h)
        /\ q.retries = p.retries
    BY <1>1, <1>2, <2>1 DEF Facts
  <2>4. WorkSound("handle", work[r].retries, p, a, m, s, c, h)
    BY <2>1, <2>3, SMTT(30) DEF WorkSound
  <2>5. Goes(r, "handle", p, a, m, s, c, h)
    BY <1>2, <1>5, <2>1, <2>2, <2>4 DEF CompleteUnminted, Ghosts, Goes, Facts
  <2>6. QED
    BY <1>1, <2>5, GoesStep DEF Busy
<1>6. QED
  BY <1>3, <1>4, <1>5 DEF CompleteUnminted

LEMMA CompleteRows ==
    ASSUME RowsInv, NEW r \in Replicas, Complete(r)
    PROVE  RowsInv'
<1>1. work[r].at = "complete" /\ work[r].at \in Busy
  BY DEF Complete, At, Busy
<1>2. PICK q, a, m, s, c, h : Facts(r, q, a, m, s, c, h)
  BY <1>1, FactsHold
<1>3. UNCHANGED <<paid, attempts, mints, credits, echoes>>
  BY DEF Complete
<1>4. CASE /\ SetStatus(work[r].job, "completed")
           /\ GoTo(r, "credit")
           /\ UNCHANGED slips
  <2>1. PICK p \in QueueRecord :
           /\ queue' = [queue EXCEPT ![work[r].job] = p]
           /\ p.status = "completed"
           /\ p.retries = queue[work[r].job].retries
    BY <1>1, <1>4, StatusSet
  <2>2. RowSound(p, a, m, s, c, h)
    BY <1>2, <2>1 DEF Facts, RowSound
  <2>3. WorkSound("credit", work[r].retries, p, a, m, s, c, h)
    BY <1>1, <1>2, <2>1, SMTT(30) DEF Facts, WorkSound
  <2>4. Goes(r, "credit", p, a, m, s, c, h)
    BY <1>2, <1>3, <1>4, <2>1, <2>2, <2>3 DEF Goes, Facts
  <2>5. QED
    BY <1>1, <2>4, GoesStep DEF Busy
<1>5. CASE Slip(work[r].job) /\ GoTo(r, "handle") /\ UNCHANGED queue
  <2>1. RowSound(q, a, m, s + 1, c, h)
    BY <1>1, <1>2 DEF Facts, RowSound, WorkSound
  <2>2. WorkSound("handle", work[r].retries, q, a, m, s + 1, c, h)
    BY <1>1, <1>2, SMTT(30) DEF Facts, RowSound, WorkSound
  <2>3. Goes(r, "handle", q, a, m, s + 1, c, h)
    BY <1>2, <1>3, <1>5, <2>1, <2>2 DEF Goes, Facts, Slip
  <2>4. QED
    BY <1>1, <2>3, GoesStep DEF Busy
<1>6. CASE /\ SetStatus(work[r].job, "completed")
           /\ Slip(work[r].job)
           /\ GoTo(r, "handle")
  <2>1. PICK p \in QueueRecord :
           /\ queue' = [queue EXCEPT ![work[r].job] = p]
           /\ p.status = "completed"
           /\ p.retries = queue[work[r].job].retries
    BY <1>1, <1>6, StatusSet
  <2>2. RowSound(p, a, m, s + 1, c, h)
    BY <1>1, <1>2, <2>1 DEF Facts, RowSound, WorkSound
  <2>3. WorkSound("handle", work[r].retries, p, a, m, s + 1, c, h)
    BY <1>1, <1>2, <2>1, SMTT(30) DEF Facts, RowSound, WorkSound
  <2>4. Goes(r, "handle", p, a, m, s + 1, c, h)
    BY <1>2, <1>3, <1>6, <2>1, <2>2, <2>3 DEF Goes, Facts, Slip
  <2>5. QED
    BY <1>1, <2>4, GoesStep DEF Busy
<1>7. QED
  BY <1>4, <1>5, <1>6 DEF Complete

LEMMA CreditRows ==
    ASSUME RowsInv, NEW r \in Replicas, Credit(r)
    PROVE  RowsInv'
<1>1. work[r].at = "credit" /\ work[r].at \in Busy
  BY DEF Credit, At, Busy
<1>2. PICK q, a, m, s, c, h : Facts(r, q, a, m, s, c, h)
  BY <1>1, FactsHold
<1>3. UNCHANGED <<queue, paid, attempts, mints>>
  BY DEF Credit
<1>4. CASE /\ credits' = [credits EXCEPT ![work[r].job] = @ + 1]
           /\ GoTo(r, "release")
           /\ UNCHANGED <<slips, echoes>>
  <2>1. RowSound(q, a, m, s, c + 1, h)
    BY <1>1, <1>2 DEF Facts, RowSound, WorkSound
  <2>2. Goes(r, "release", q, a, m, s, c + 1, h)
    BY <1>2, <1>3, <1>4, <2>1 DEF Goes, Facts, Busy
  <2>3. QED
    BY <1>1, <2>2, GoesStep
<1>5. CASE Slip(work[r].job) /\ GoTo(r, "handle") /\ UNCHANGED <<credits, echoes>>
  <2>1. RowSound(q, a, m, s + 1, c, h)
    BY <1>1, <1>2 DEF Facts, RowSound, WorkSound
  <2>2. WorkSound("handle", work[r].retries, q, a, m, s + 1, c, h)
    BY <1>1, <1>2, SMTT(30) DEF Facts, RowSound, WorkSound
  <2>3. Goes(r, "handle", q, a, m, s + 1, c, h)
    BY <1>2, <1>3, <1>5, <2>1, <2>2 DEF Goes, Facts, Slip
  <2>4. QED
    BY <1>1, <2>3, GoesStep DEF Busy
<1>6. CASE /\ credits' = [credits EXCEPT ![work[r].job] = @ + 1]
           /\ echoes' = [echoes EXCEPT ![work[r].job] = @ + 1]
           /\ Slip(work[r].job)
           /\ GoTo(r, "handle")
  <2>1. RowSound(q, a, m, s + 1, c + 1, h + 1)
    BY <1>1, <1>2 DEF Facts, RowSound, WorkSound
  <2>2. WorkSound("handle", work[r].retries, q, a, m, s + 1, c + 1, h + 1)
    BY <1>1, <1>2, SMTT(30) DEF Facts, RowSound, WorkSound
  <2>3. Goes(r, "handle", q, a, m, s + 1, c + 1, h + 1)
    BY <1>2, <1>3, <1>6, <2>1, <2>2 DEF Goes, Facts, Slip
  <2>4. QED
    BY <1>1, <2>3, GoesStep DEF Busy
<1>7. QED
  BY <1>4, <1>5, <1>6 DEF Credit

LEMMA HandleRows ==
    ASSUME RowsInv, NEW r \in Replicas, HandleError(r)
    PROVE  RowsInv'
<1>1. work[r].at = "handle" /\ work[r].at \in Busy
  BY DEF HandleError, At, Busy
<1>2. PICK q, a, m, s, c, h : Facts(r, q, a, m, s, c, h)
  BY <1>1, FactsHold
<1>3. /\ q \in QueueRecord /\ q.retries = 2 * a - 1 /\ work[r].retries = 2 * a - 2
      /\ a \in 1..3 /\ m = s /\ c = h
  BY <1>1, <1>2 DEF Facts, RowSound, WorkSound
<1>4. UNCHANGED <<paid, Ghosts>> /\ GoTo(r, "release")
  BY DEF HandleError
<1>5. CASE queue' = [queue EXCEPT ![work[r].job] =
                       IF work[r].retries < 3
                       THEN [status |-> "pending", retries |-> @.retries + 1]
                       ELSE [@ EXCEPT !.status = "failed"]]
  <2> DEFINE p == IF work[r].retries < 3
                  THEN [status |-> "pending", retries |-> q.retries + 1]
                  ELSE [q EXCEPT !.status = "failed"]
  <2>1. queue' = [queue EXCEPT ![work[r].job] = p]
    BY <1>2, <1>5 DEF Facts
  <2>2. RowSound(p, a, m, s, c, h)
    <3>1. CASE work[r].retries < 3
      <4>1. a \in 1..2 /\ q.retries + 1 = 2 * a
        BY <1>3, <3>1
      <4>2. p = [status |-> "pending", retries |-> 2 * a]
        BY <3>1, <4>1
      <4>3. QED
        BY <1>2, <1>3, <4>1, <4>2 DEF Facts, RowSound, QueueRecord
    <3>2. CASE ~(work[r].retries < 3)
      <4>1. a = 3
        BY <1>3, <3>2
      <4>2. p \in QueueRecord /\ p.status = "failed"
        BY <1>3, <3>2 DEF QueueRecord
      <4>3. QED
        BY <1>2, <1>3, <4>1, <4>2 DEF Facts, RowSound
    <3>3. QED
      BY <3>1, <3>2
  <2> HIDE DEF p
  <2>3. Goes(r, "release", p, a, m, s, c, h)
    BY <1>2, <1>4, <2>1, <2>2 DEF Goes, Facts, Ghosts, Busy
  <2>4. QED
    BY <1>1, <2>3, GoesStep
<1>6. CASE UNCHANGED queue
  <2>1. Goes(r, "release", q, a, m, s, c, h)
    BY <1>2, <1>4, <1>6 DEF Goes, Facts, Ghosts, Busy
  <2>2. QED
    BY <1>1, <2>1, GoesStep
<1>7. QED
  BY <1>5, <1>6 DEF HandleError

\* A step that only concerns the locks.
LEMMA LockRows ==
    ASSUME RowsInv, UNCHANGED mintVars
    PROVE  RowsInv'
<1>1. RowsTyped'
  BY DEF RowsInv, RowsTyped, mintVars
<1>2. \A j \in Jobs : RowOK(j)'
  BY DEF RowsInv, RowOK, mintVars
<1>3. \A r \in Replicas : WorkOK(r)' /\ Alone(r)'
  BY DEF RowsInv, WorkOK, Alone, mintVars
<1>4. QED
  BY <1>1, <1>2, <1>3 DEF RowsInv

LEMMA RowsNext == RowsInv /\ [LoyaltyNext]_vars => RowsInv'
<1>1. SUFFICES ASSUME RowsInv, [LoyaltyNext]_vars PROVE RowsInv'
  OBVIOUS
<1>2. CASE UNCHANGED vars
  BY <1>1, <1>2, LockRows DEF vars
<1>3. CASE \E j \in Jobs : CompletePayment(j)
  BY <1>1, <1>3, CompletePaymentRows
<1>4. ASSUME NEW r \in Replicas, Work(r) PROVE RowsInv'
  <2>1. CASE StartJob(r)
    BY <1>1, <2>1, StartIdle
  <2>2. CASE TakeSlot(r) \/ LeaveSlot(r)
    BY <1>1, <2>2, TakeRows
  <2>3. CASE SelectRow(r)
    BY <1>1, <2>3, SelectRows
  <2>4. CASE MarkProcessing(r)
    BY <1>1, <2>4, MarkRows
  <2>5. CASE SkipDust(r)
    BY <1>1, <2>5, SkipRows
  <2>6. CASE Mint(r)
    BY <1>1, <2>6, MintRows
  <2>7. CASE CompleteUnminted(r)
    BY <1>1, <2>7, CompleteUnmintedRows
  <2>8. CASE Complete(r)
    BY <1>1, <2>8, CompleteRows
  <2>9. CASE Credit(r)
    BY <1>1, <2>9, CreditRows
  <2>10. CASE HandleError(r)
    BY <1>1, <2>10, HandleRows
  <2>11. QED
    BY <1>4, <2>1, <2>2, <2>3, <2>4, <2>5, <2>6, <2>7, <2>8, <2>9, <2>10 DEF Work
<1>5. ASSUME NEW r \in Replicas, Crash(r) PROVE RowsInv'
  BY <1>1, <1>5, StartIdle
<1>6. CASE TimePasses \/ \E r \in Replicas : Beat(r)
  BY <1>1, <1>6, LockRows DEF TimePasses, Beat
<1>7. QED
  BY <1>1, <1>2, <1>3, <1>4, <1>5, <1>6 DEF LoyaltyNext

-----------------------------------------------------------------------------
(* Locks.                                                                  *)

HoldRecord == [slot : Slots \cup {0}, beat : {"off", "armed", "due"},
               lost : BOOLEAN]

KeyRecord == [owner : Replicas \cup {Unowned}, left : 0..TtlBeats]

Outside == {"off", "acquire"}

\* A replica is in a call of withLock exactly from the moment it has taken a
\* slot to the moment it leaves it, and the call is about that slot.
HoldOK(r) ==
    /\ work[r].at \in Outside => holds[r] = NotIn
    /\ work[r].at \notin Outside => holds[r].slot = work[r].slot
    /\ work[r].at # "off" => work[r].slot \in Slots

LockInv == LockTypeOK /\ \A r \in Replicas : HoldOK(r)

LEMMA FaultsTyped ==
    ASSUME LockTypeOK, Fail \/ UNCHANGED faults
    PROVE  faults' \in 0..MaxFaults
BY LockConstants DEF LockTypeOK, Fail

\* A replica goes from one place inside withLock to another.
LEMMA InsideStep ==
    ASSUME LockInv, RowsTyped, NEW r \in Replicas, work[r].at \notin Outside,
           NEW w, w.at \notin Outside, w.slot = work[r].slot,
           work' = [work EXCEPT ![r] = w],
           UNCHANGED <<keys, holds>>, Fail \/ UNCHANGED faults
    PROVE  LockInv'
<1>1. LockTypeOK'
  BY FaultsTyped DEF LockInv, LockTypeOK, Owns
<1>2. work \in [Replicas -> WorkRecord]
  BY DEF RowsTyped
<1>3. ASSUME NEW p \in Replicas PROVE HoldOK(p)'
  BY <1>2 DEF LockInv, HoldOK, Outside
<1>4. QED
  BY <1>1, <1>3 DEF LockInv

LEMMA GoToInside ==
    ASSUME LockInv, RowsTyped, NEW r \in Replicas, work[r].at \notin Outside,
           NEW where, where \notin Outside, GoTo(r, where),
           UNCHANGED <<keys, holds>>, Fail \/ UNCHANGED faults
    PROVE  LockInv'
<1> DEFINE w == [work[r] EXCEPT !.at = where]
<1>1. work \in [Replicas -> WorkRecord] /\ work[r] \in WorkRecord
  BY DEF RowsTyped
<1>2. w.at = where /\ w.slot = work[r].slot
  BY <1>1 DEF WorkRecord
<1>3. work' = [work EXCEPT ![r] = w]
  BY <1>1 DEF GoTo
<1> HIDE DEF w
<1>4. QED
  BY <1>2, <1>3, InsideStep

\* A replica without a lock goes on to the next slot, or stops.
LEMMA NextSlotHold ==
    ASSUME RowsTyped, NEW r \in Replicas, NextSlot(r), holds'[r] = NotIn,
           \A p \in Replicas : p # r => holds'[p] = holds[p] /\ HoldOK(p)
    PROVE  \A p \in Replicas : HoldOK(p)'
<1>1. work \in [Replicas -> WorkRecord]
  BY DEF RowsTyped
<1>2. CASE work[r].slot + 1 \in Slots
  <2> DEFINE w == [Off EXCEPT !.at = "acquire", !.slot = work[r].slot + 1]
  <2>1. w.at = "acquire" /\ w.slot = work[r].slot + 1
    BY DEF Off
  <2>2. work' = [work EXCEPT ![r] = w]
    BY <1>1, <1>2 DEF NextSlot
  <2> HIDE DEF w
  <2>3. QED
    BY <1>1, <1>2, <2>1, <2>2 DEF HoldOK, Outside
<1>3. CASE work[r].slot + 1 \notin Slots
  <2>1. Off.at = "off"
    BY DEF Off
  <2>2. work' = [work EXCEPT ![r] = Off]
    BY <1>1, <1>3 DEF NextSlot
  <2>3. QED
    BY <1>1, <2>1, <2>2 DEF HoldOK, Outside
<1>4. QED
  BY <1>2, <1>3

LEMMA StartHold ==
    ASSUME LockInv, RowsTyped, NEW r \in Replicas, StartJob(r)
    PROVE  LockInv'
<1> DEFINE w == [Off EXCEPT !.at = "acquire", !.slot = 1]
<1>1. work \in [Replicas -> WorkRecord]
  BY DEF RowsTyped
<1>2. w.at = "acquire" /\ w.slot = 1 /\ 1 \in Slots
  BY MintConstants DEF Off
<1>3. work' = [work EXCEPT ![r] = w] /\ UNCHANGED lockVars /\ work[r].at = "off"
  BY DEF StartJob, At
<1> HIDE DEF w
<1>4. LockTypeOK'
  BY <1>3 DEF LockInv, LockTypeOK, lockVars, Owns
<1>5. ASSUME NEW p \in Replicas PROVE HoldOK(p)'
  BY <1>1, <1>2, <1>3 DEF LockInv, HoldOK, Outside, lockVars
<1>6. QED
  BY <1>4, <1>5 DEF LockInv

LEMMA TakeHold ==
    ASSUME LockInv, RowsTyped, NEW r \in Replicas, TakeSlot(r)
    PROVE  LockInv'
<1> DEFINE s == work[r].slot
<1>1. work \in [Replicas -> WorkRecord] /\ work[r] \in WorkRecord
  BY DEF RowsTyped
<1>2. /\ work[r].at = "acquire" /\ s \in Slots /\ holds[r] = NotIn
      /\ \A p \in Replicas : HoldOK(p)
      /\ keys \in [Slots -> KeyRecord] /\ holds \in [Replicas -> HoldRecord]
      /\ faults \in 0..MaxFaults
      /\ \A i \in Slots : keys[i].left = 0 <=> keys[i].owner = Unowned
  BY DEF TakeSlot, At, LockInv, HoldOK, Outside, LockTypeOK, Owns, KeyRecord, HoldRecord
<1>3. CASE Acquire(r, s) /\ GoTo(r, "claim")
  <2> DEFINE k == [owner |-> r, left |-> TtlBeats]
             h == [slot |-> s, beat |-> "armed", lost |-> FALSE]
             w == [work[r] EXCEPT !.at = "claim"]
  <2>1. k \in KeyRecord /\ k.left # 0 /\ k.owner # Unowned /\ h \in HoldRecord /\ h.slot = s
    BY <1>2, LockConstants DEF KeyRecord, HoldRecord
  <2>2. keys' = [keys EXCEPT ![s] = k] /\ holds' = [holds EXCEPT ![r] = h]
        /\ UNCHANGED faults
    BY <1>3 DEF Acquire
  <2>3. w.at = "claim" /\ w.slot = s
    BY <1>1 DEF WorkRecord
  <2>4. work' = [work EXCEPT ![r] = w]
    BY <1>1, <1>3 DEF GoTo
  <2> HIDE DEF k, h, w, s
  <2>5. LockTypeOK'
    BY <1>2, <2>1, <2>2 DEF LockTypeOK, Owns, KeyRecord, HoldRecord
  <2>6. ASSUME NEW p \in Replicas PROVE HoldOK(p)'
    <3>1. CASE p = r
      BY <1>1, <1>2, <2>1, <2>2, <2>3, <2>4, <3>1 DEF HoldOK, Outside
    <3>2. CASE p # r
      BY <1>1, <1>2, <2>2, <2>4, <3>2 DEF HoldOK
    <3>3. QED
      BY <3>1, <3>2
  <2>7. QED
    BY <2>5, <2>6 DEF LockInv
<1>4. CASE AcquireRefused(r, s) /\ NextSlot(r)
  <2>1. UNCHANGED <<keys, holds>> /\ (Fail \/ UNCHANGED faults)
    BY <1>4 DEF AcquireRefused
  <2>2. LockTypeOK'
    BY <2>1, FaultsTyped DEF LockInv, LockTypeOK, Owns
  <2>3. \A p \in Replicas : HoldOK(p)'
    BY <1>2, <1>4, <2>1, NextSlotHold
  <2>4. QED
    BY <2>2, <2>3 DEF LockInv
<1>5. QED
  BY <1>3, <1>4 DEF TakeSlot

\* The lock half of the invariant, for use by the SMT solver: the types with
\* their names, and the holds of every replica.
LEMMA LockFacts ==
    ASSUME LockInv
    PROVE  /\ keys \in [Slots -> KeyRecord]
           /\ holds \in [Replicas -> HoldRecord]
           /\ faults \in 0..MaxFaults
           /\ \A i \in Slots : keys[i].left = 0 <=> keys[i].owner = Unowned
           /\ \A p \in Replicas : HoldOK(p)
BY DEF LockInv, LockTypeOK, Owns, KeyRecord, HoldRecord

LEMMA LockFactsBack ==
    ASSUME keys' \in [Slots -> KeyRecord],
           holds' \in [Replicas -> HoldRecord],
           faults' \in 0..MaxFaults,
           \A i \in Slots : keys'[i].left = 0 <=> keys'[i].owner = Unowned,
           \A p \in Replicas : HoldOK(p)'
    PROVE  LockInv'
BY DEF LockInv, LockTypeOK, Owns, KeyRecord, HoldRecord

LEMMA NotInTyped == NotIn \in HoldRecord /\ NotIn.slot = 0 /\ NotIn.beat = "off"
BY DEF NotIn, HoldRecord

LEMMA NoKeyTyped == NoKey \in KeyRecord /\ NoKey.left = 0 /\ NoKey.owner = Unowned
BY LockConstants DEF NoKey, KeyRecord

LEMMA LeaveHold ==
    ASSUME LockInv, RowsTyped, NEW r \in Replicas, LeaveSlot(r)
    PROVE  LockInv'
<1> DEFINE s == holds[r].slot
<1>1. /\ keys \in [Slots -> KeyRecord]
      /\ holds \in [Replicas -> HoldRecord]
      /\ faults \in 0..MaxFaults
      /\ \A i \in Slots : keys[i].left = 0 <=> keys[i].owner = Unowned
      /\ \A p \in Replicas : HoldOK(p)
  BY LockFacts
<1>2. work[r].at = "release" /\ holds' = [holds EXCEPT ![r] = NotIn] /\ NextSlot(r)
  BY DEF LeaveSlot, Release, At
<1>3. s \in Slots
  BY <1>1, <1>2 DEF HoldOK, Outside
<1>4. holds' \in [Replicas -> HoldRecord] /\ holds'[r] = NotIn
      /\ \A p \in Replicas : p # r => holds'[p] = holds[p]
  BY <1>1, <1>2, NotInTyped
<1>5. \A p \in Replicas : HoldOK(p)'
  BY <1>1, <1>2, <1>4, NextSlotHold
<1>6. CASE /\ keys' = IF Owns(r, s) THEN [keys EXCEPT ![s] = NoKey] ELSE keys
           /\ UNCHANGED faults
  <2>1. /\ keys' \in [Slots -> KeyRecord]
        /\ \A i \in Slots : keys'[i].left = 0 <=> keys'[i].owner = Unowned
    <3>1. CASE keys' = [keys EXCEPT ![s] = NoKey]
      BY <1>1, <1>3, <3>1, NoKeyTyped
    <3>2. CASE keys' = keys
      BY <1>1, <3>2
    <3>3. QED
      BY <1>6, <3>1, <3>2
  <2>2. QED
    BY <1>1, <1>4, <1>5, <1>6, <2>1, LockFactsBack
<1>7. CASE UNCHANGED keys /\ Fail
  <2>1. faults' \in 0..MaxFaults
    BY <1>7, FaultsTyped DEF LockInv
  <2>2. QED
    BY <1>1, <1>4, <1>5, <1>7, <2>1, LockFactsBack
<1>8. QED
  BY <1>6, <1>7 DEF LeaveSlot, Release

LEMMA CrashHold ==
    ASSUME LockInv, RowsTyped, NEW r \in Replicas, Crash(r)
    PROVE  LockInv'
<1>1. /\ keys \in [Slots -> KeyRecord]
      /\ holds \in [Replicas -> HoldRecord]
      /\ \A i \in Slots : keys[i].left = 0 <=> keys[i].owner = Unowned
      /\ \A p \in Replicas : HoldOK(p)
      /\ work \in [Replicas -> WorkRecord]
  BY LockFacts DEF RowsTyped
<1>2. /\ work' = [work EXCEPT ![r] = Off] /\ holds' = [holds EXCEPT ![r] = NotIn]
      /\ keys' = keys /\ Off.at = "off"
  BY DEF Crash, Off
<1>3. faults' \in 0..MaxFaults
  BY FaultsTyped DEF Crash, LockInv
<1>4. holds' \in [Replicas -> HoldRecord]
  BY <1>1, <1>2, NotInTyped
<1>5. ASSUME NEW p \in Replicas PROVE HoldOK(p)'
  BY <1>1, <1>2 DEF HoldOK, Outside
<1>6. QED
  BY <1>1, <1>2, <1>3, <1>4, <1>5, LockFactsBack

\* A hold changes its heartbeat or its lost flag, but not its slot, and only
\* for a replica inside withLock.
LEMMA SameSlots ==
    ASSUME NEW p \in Replicas, HoldOK(p), work' = work,
           work[p].at \in Outside => holds'[p] = holds[p],
           holds'[p].slot = holds[p].slot
    PROVE  HoldOK(p)'
BY DEF HoldOK

LEMMA BeatHold ==
    ASSUME LockInv, RowsTyped, NEW r \in Replicas, Beat(r)
    PROVE  LockInv'
<1> DEFINE s == holds[r].slot
<1>1. /\ keys \in [Slots -> KeyRecord]
      /\ holds \in [Replicas -> HoldRecord]
      /\ faults \in 0..MaxFaults
      /\ \A i \in Slots : keys[i].left = 0 <=> keys[i].owner = Unowned
      /\ \A p \in Replicas : HoldOK(p)
  BY LockFacts
<1>2. holds[r].beat = "due" /\ work' = work
  BY DEF Beat, Heartbeat, mintVars
<1>3. work[r].at \notin Outside /\ s \in Slots
  BY <1>1, <1>2, NotInTyped DEF HoldOK, Outside
<1>4. holds[r] \in HoldRecord /\ keys[s] \in KeyRecord
  BY <1>1, <1>3
<1>5. ASSUME NEW h, h \in HoldRecord, h.slot = holds[r].slot,
             holds' = [holds EXCEPT ![r] = h]
      PROVE  holds' \in [Replicas -> HoldRecord] /\ \A p \in Replicas : HoldOK(p)'
  <2>1. holds' \in [Replicas -> HoldRecord]
    BY <1>1, <1>5
  <2>2. ASSUME NEW p \in Replicas PROVE HoldOK(p)'
    <3>1. work[p].at \in Outside => holds'[p] = holds[p]
      BY <1>1, <1>3, <1>5
    <3>2. holds'[p].slot = holds[p].slot
      BY <1>1, <1>5
    <3>3. QED
      BY <1>1, <1>2, <3>1, <3>2, SameSlots
  <2>3. QED
    BY <2>1, <2>2
<1>6. CASE /\ Owns(r, s)
           /\ keys' = [keys EXCEPT ![s].left = TtlBeats]
           /\ holds' = [holds EXCEPT ![r].beat = "off"]
           /\ UNCHANGED faults
  <2> DEFINE h == [holds[r] EXCEPT !.beat = "off"]
             k == [keys[s] EXCEPT !.left = TtlBeats]
  <2>1. h \in HoldRecord /\ h.slot = holds[r].slot
    BY <1>4 DEF HoldRecord
  <2>2. holds' = [holds EXCEPT ![r] = h]
    BY <1>1, <1>6
  <2>3. k \in KeyRecord /\ k.owner # Unowned /\ k.left # 0
    BY <1>4, <1>6, LockConstants DEF KeyRecord, Owns
  <2>4. keys' = [keys EXCEPT ![s] = k]
    BY <1>1, <1>3, <1>6
  <2> HIDE DEF h, k, s
  <2>5. /\ keys' \in [Slots -> KeyRecord]
        /\ \A i \in Slots : keys'[i].left = 0 <=> keys'[i].owner = Unowned
    BY <1>1, <1>3, <2>3, <2>4
  <2>6. QED
    BY <1>1, <1>5, <1>6, <2>1, <2>2, <2>5, LockFactsBack
<1>7. CASE /\ Fail \/ UNCHANGED faults
           /\ holds' = [holds EXCEPT ![r].beat = "off", ![r].lost = TRUE]
           /\ UNCHANGED keys
  <2> DEFINE h == [holds[r] EXCEPT !.beat = "off", !.lost = TRUE]
  <2>1. h \in HoldRecord /\ h.slot = holds[r].slot
    BY <1>4 DEF HoldRecord
  <2>2. holds' = [holds EXCEPT ![r] = h]
    BY <1>1, <1>7
  <2>3. faults' \in 0..MaxFaults
    BY <1>7, FaultsTyped DEF LockInv
  <2> HIDE DEF h, s
  <2>4. QED
    BY <1>1, <1>5, <1>7, <2>1, <2>2, <2>3, LockFactsBack
<1>8. QED
  BY <1>6, <1>7 DEF Beat, Heartbeat

LEMMA ElapseHold ==
    ASSUME LockInv, TimePasses
    PROVE  LockInv'
<1>1. /\ keys \in [Slots -> KeyRecord]
      /\ holds \in [Replicas -> HoldRecord]
      /\ faults \in 0..MaxFaults
      /\ \A i \in Slots : keys[i].left = 0 <=> keys[i].owner = Unowned
      /\ \A p \in Replicas : HoldOK(p)
  BY LockFacts
<1>2. /\ keys' = [s \in Slots |-> IF keys[s].left <= 1 THEN NoKey
                                  ELSE [keys[s] EXCEPT !.left = @ - 1]]
      /\ holds' = [p \in Replicas |-> IF holds[p].beat = "armed"
                                      THEN [holds[p] EXCEPT !.beat = "due"]
                                      ELSE holds[p]]
      /\ UNCHANGED <<faults, work>>
  BY DEF TimePasses, Elapse, mintVars
<1>3. ASSUME NEW i \in Slots
      PROVE  keys'[i] \in KeyRecord /\ (keys'[i].left = 0 <=> keys'[i].owner = Unowned)
  <2>1. keys[i] \in KeyRecord
    BY <1>1
  <2>2. CASE keys[i].left <= 1
    BY <1>2, <2>2, NoKeyTyped
  <2>3. CASE ~(keys[i].left <= 1)
    <3> DEFINE k == [keys[i] EXCEPT !.left = @ - 1]
    <3>1. /\ k \in KeyRecord /\ k.owner = keys[i].owner
          /\ k.left # 0 /\ keys[i].left # 0
      BY <2>1, <2>3, LockConstants DEF KeyRecord
    <3>2. keys'[i] = k
      BY <1>2, <2>3
    <3> HIDE DEF k
    <3>3. QED
      BY <1>1, <3>1, <3>2
  <2>4. QED
    BY <2>2, <2>3
<1>4. ASSUME NEW p \in Replicas
      PROVE  holds'[p] \in HoldRecord /\ HoldOK(p)'
  <2>1. holds[p] \in HoldRecord
    BY <1>1
  <2>2. CASE holds[p].beat = "armed"
    <3> DEFINE h == [holds[p] EXCEPT !.beat = "due"]
    <3>1. h \in HoldRecord /\ h.slot = holds[p].slot
      BY <2>1 DEF HoldRecord
    <3>2. holds'[p] = h
      BY <1>2, <2>2
    <3>3. work[p].at \notin Outside
      BY <1>1, <2>2, NotInTyped DEF HoldOK
    <3> HIDE DEF h
    <3>4. QED
      BY <1>1, <1>2, <3>1, <3>2, <3>3, SameSlots
  <2>3. CASE holds[p].beat # "armed"
    <3>1. holds'[p] = holds[p]
      BY <1>2, <2>3
    <3>2. QED
      BY <1>1, <1>2, <2>1, <3>1, SameSlots
  <2>4. QED
    BY <2>2, <2>3
<1>5. keys' \in [Slots -> KeyRecord] /\ holds' \in [Replicas -> HoldRecord]
  BY <1>2, <1>3, <1>4
<1>6. QED
  BY <1>1, <1>2, <1>3, <1>4, <1>5, LockFactsBack

LEMMA LockInitial == LoyaltyInit => LockInv
<1>1. SUFFICES ASSUME LoyaltyInit PROVE LockInv
  OBVIOUS
<1>2. /\ keys = [s \in Slots |-> NoKey] /\ holds = [r \in Replicas |-> NotIn]
      /\ faults = 0 /\ work = [r \in Replicas |-> Off] /\ Off.at = "off"
  BY <1>1 DEF LoyaltyInit, LockInit, Off
<1>3. LockTypeOK
  BY <1>2, NoKeyTyped, NotInTyped, LockConstants
     DEF LockTypeOK, Owns, KeyRecord, HoldRecord
<1>4. \A p \in Replicas : HoldOK(p)
  BY <1>2 DEF HoldOK, Outside
<1>5. QED
  BY <1>3, <1>4 DEF LockInv

\* The steps a replica takes inside withLock, between taking and leaving it.
LEMMA JobHold ==
    ASSUME LockInv, RowsTyped, NEW r \in Replicas,
           \/ MarkProcessing(r) \/ SkipDust(r) \/ Mint(r) \/ CompleteUnminted(r)
           \/ Complete(r) \/ Credit(r) \/ HandleError(r)
    PROVE  LockInv'
<1>1. work[r].at \notin Outside
  BY DEF MarkProcessing, SkipDust, Mint, CompleteUnminted, Complete, Credit,
         HandleError, At, Outside
<1>2. UNCHANGED <<keys, holds>> /\ (Fail \/ UNCHANGED faults)
  BY DEF MarkProcessing, SkipDust, Mint, CompleteUnminted, Complete, Credit,
         HandleError, lockVars
<1>3. \E where \in {"mint", "release", "complete", "handle", "nothing minted",
                    "credit"} : GoTo(r, where)
  BY DEF MarkProcessing, SkipDust, Mint, CompleteUnminted, Complete, Credit,
         HandleError
<1>4. PICK where \in {"mint", "release", "complete", "handle", "nothing minted",
                      "credit"} : GoTo(r, where)
  BY <1>3
<1>5. where \notin Outside
  BY DEF Outside
<1>6. QED
  BY <1>1, <1>2, <1>4, <1>5, GoToInside

LEMMA SelectHold ==
    ASSUME LockInv, RowsTyped, NEW r \in Replicas, SelectRow(r)
    PROVE  LockInv'
<1>1. /\ work[r].at = "claim" /\ work[r].at \notin Outside
      /\ UNCHANGED <<keys, holds>> /\ (Fail \/ UNCHANGED faults)
  BY DEF SelectRow, At, Outside
<1>2. CASE GoTo(r, "release")
  BY <1>1, <1>2, GoToInside DEF Outside
<1>3. ASSUME NEW j \in Claimable,
             work' = [work EXCEPT ![r].at = "mark", ![r].job = j,
                                  ![r].retries = queue[j].retries]
      PROVE  LockInv'
  <2> DEFINE w == [work[r] EXCEPT !.at = "mark", !.job = j,
                                  !.retries = queue[j].retries]
  <2>1. work \in [Replicas -> WorkRecord] /\ work[r] \in WorkRecord
    BY DEF RowsTyped
  <2>2. w.at = "mark" /\ w.slot = work[r].slot
    BY <2>1 DEF WorkRecord
  <2>3. work' = [work EXCEPT ![r] = w]
    BY <1>3, <2>1
  <2> HIDE DEF w
  <2>4. w.at \notin Outside
    BY <2>2 DEF Outside
  <2>5. QED
    BY <1>1, <2>2, <2>3, <2>4, InsideStep
<1>4. QED
  BY <1>2, <1>3 DEF SelectRow

LEMMA QuietHold ==
    ASSUME LockInv, UNCHANGED lockVars, UNCHANGED work
    PROVE  LockInv'
BY DEF LockInv, LockTypeOK, HoldOK, Owns, lockVars

LEMMA LockNext == LockInv /\ RowsTyped /\ [LoyaltyNext]_vars => LockInv'
<1>1. SUFFICES ASSUME LockInv, RowsTyped, [LoyaltyNext]_vars PROVE LockInv'
  OBVIOUS
<1>2. CASE UNCHANGED vars
  BY <1>1, <1>2, QuietHold DEF vars, mintVars
<1>3. CASE \E j \in Jobs : CompletePayment(j)
  BY <1>1, <1>3, QuietHold DEF CompletePayment
<1>4. ASSUME NEW r \in Replicas, Work(r) PROVE LockInv'
  <2>1. CASE StartJob(r)
    BY <1>1, <2>1, StartHold
  <2>2. CASE TakeSlot(r)
    BY <1>1, <2>2, TakeHold
  <2>3. CASE SelectRow(r)
    BY <1>1, <2>3, SelectHold
  <2>4. CASE LeaveSlot(r)
    BY <1>1, <2>4, LeaveHold
  <2>5. CASE \/ MarkProcessing(r) \/ SkipDust(r) \/ Mint(r) \/ CompleteUnminted(r)
             \/ Complete(r) \/ Credit(r) \/ HandleError(r)
    BY <1>1, <2>5, JobHold
  <2>6. QED
    BY <1>4, <2>1, <2>2, <2>3, <2>4, <2>5 DEF Work
<1>5. ASSUME NEW r \in Replicas, Crash(r) PROVE LockInv'
  BY <1>1, <1>5, CrashHold
<1>6. ASSUME NEW r \in Replicas, Beat(r) PROVE LockInv'
  BY <1>1, <1>6, BeatHold
<1>7. CASE TimePasses
  BY <1>1, <1>7, ElapseHold
<1>8. QED
  BY <1>1, <1>2, <1>3, <1>4, <1>5, <1>6, <1>7 DEF LoyaltyNext

-----------------------------------------------------------------------------
(* A key changes hands only through its own replica, or by expiring.       *)

KeyKept(s, r) ==
    (Owns(r, s) /\ keys[s].left > 1 /\ ~Owns(r, s)')
        => (holds[r].slot = s /\ holds'[r].slot = 0)

LEMMA KeyStep ==
    ASSUME LockInv, RowsTyped, [LoyaltyNext]_vars, NEW s \in Slots, NEW r \in Replicas
    PROVE  KeyKept(s, r)
<1>1. /\ keys \in [Slots -> KeyRecord]
      /\ holds \in [Replicas -> HoldRecord]
      /\ \A p \in Replicas : HoldOK(p)
      /\ r # Unowned
  BY LockFacts, LockConstants
<1>2. CASE UNCHANGED keys
  BY <1>2 DEF KeyKept, Owns
<1>3. ASSUME NEW p \in Replicas, TakeSlot(p) PROVE KeyKept(s, r)
  <2>1. CASE Acquire(p, work[p].slot)
    BY <1>1, <2>1 DEF Acquire, KeyKept, Owns
  <2>2. CASE AcquireRefused(p, work[p].slot)
    BY <1>2, <2>2 DEF AcquireRefused
  <2>3. QED
    BY <1>3, <2>1, <2>2 DEF TakeSlot
<1>4. ASSUME NEW p \in Replicas, LeaveSlot(p) PROVE KeyKept(s, r)
  <2>1. holds' = [holds EXCEPT ![p] = NotIn]
    BY <1>4 DEF LeaveSlot, Release
  <2>2. CASE Owns(p, holds[p].slot) /\ keys' = [keys EXCEPT ![holds[p].slot] = NoKey]
    <3>1. CASE holds[p].slot = s
      BY <1>1, <2>1, <2>2, <3>1, NotInTyped DEF KeyKept, Owns
    <3>2. CASE holds[p].slot # s
      BY <1>1, <2>2, <3>2 DEF KeyKept, Owns
    <3>3. QED
      BY <3>1, <3>2
  <2>3. QED
    BY <1>2, <1>4, <2>2 DEF LeaveSlot, Release
<1>5. ASSUME NEW p \in Replicas, Beat(p) PROVE KeyKept(s, r)
  <2>1. CASE keys' = [keys EXCEPT ![holds[p].slot].left = TtlBeats]
    <3>1. keys[s] \in KeyRecord
      BY <1>1
    <3>2. keys'[s].owner = keys[s].owner
      BY <1>1, <2>1, <3>1 DEF KeyRecord
    <3>3. QED
      BY <3>2 DEF KeyKept, Owns
  <2>2. QED
    BY <1>2, <1>5, <2>1 DEF Beat, Heartbeat
<1>6. CASE TimePasses
  <2>1. keys'[s] = IF keys[s].left <= 1 THEN NoKey ELSE [keys[s] EXCEPT !.left = @ - 1]
    BY <1>6 DEF TimePasses, Elapse
  <2>2. keys[s] \in KeyRecord
    BY <1>1
  <2>3. keys[s].left > 1 => ~(keys[s].left <= 1)
    BY <2>2 DEF KeyRecord
  <2>4. keys[s].left > 1 => keys'[s].owner = keys[s].owner
    BY <2>1, <2>2, <2>3 DEF KeyRecord
  <2>5. QED
    BY <2>4 DEF KeyKept, Owns
<1>7. ASSUME NEW p \in Replicas, Work(p) PROVE KeyKept(s, r)
  <2>1. CASE TakeSlot(p) \/ LeaveSlot(p)
    BY <1>3, <1>4, <2>1
  <2>2. CASE ~(TakeSlot(p) \/ LeaveSlot(p))
    <3>1. UNCHANGED keys
      BY <1>7, <2>2 DEF Work, StartJob, SelectRow, MarkProcessing, SkipDust, Mint,
           CompleteUnminted, Complete, Credit, HandleError, lockVars
    <3>2. QED
      BY <1>2, <3>1
  <2>3. QED
    BY <2>1, <2>2
<1>8. ASSUME NEW p \in Replicas, Crash(p) PROVE KeyKept(s, r)
  BY <1>2, <1>8 DEF Crash
<1>9. CASE UNCHANGED vars \/ \E j \in Jobs : CompletePayment(j)
  BY <1>2, <1>9 DEF vars, lockVars, CompletePayment
<1>10. QED
  BY <1>5, <1>6, <1>7, <1>8, <1>9 DEF LoyaltyNext

-----------------------------------------------------------------------------
(* Theorems.                                                               *)

LoyaltyInv == RowsInv /\ LockInv

\* The inductive invariant of the job: its rows, its replicas and its locks.
THEOREM LoyaltyInvariant == LoyaltySpec => []LoyaltyInv
<1>1. LoyaltyInit => LoyaltyInv
  BY RowsInit, LockInitial DEF LoyaltyInv
<1>2. LoyaltyInv /\ [LoyaltyNext]_vars => LoyaltyInv'
  BY RowsNext, LockNext DEF LoyaltyInv, RowsInv
<1>3. QED
  BY <1>1, <1>2, PTL DEF LoyaltySpec

\* Every value of the queue, the lock table and the replicas has its type; in
\* particular a row's retry count never exceeds six, and no row is attempted,
\* minted or credited more often than that (loyaltyMintJob.js, withLock).
THEOREM LoyaltyTypeCorrect == LoyaltySpec => []LoyaltyTypeOK
<1>1. LoyaltyInv => LoyaltyTypeOK
  <2>1. SUFFICES ASSUME LoyaltyInv PROVE LoyaltyTypeOK
    OBVIOUS
  <2>2. RowsTyped /\ LockTypeOK /\ \A j \in Jobs : RowOK(j)
    BY <2>1 DEF LoyaltyInv, RowsInv, LockInv
  <2>3. /\ attempts \in [Jobs -> 0..6] /\ mints \in [Jobs -> 0..6]
        /\ slips \in [Jobs -> 0..6] /\ credits \in [Jobs -> 0..6]
        /\ echoes \in [Jobs -> 0..6]
    <3>1. \A j \in Jobs : attempts[j] \in 0..6 /\ mints[j] \in 0..6
                            /\ slips[j] \in 0..6 /\ credits[j] \in 0..6
                            /\ echoes[j] \in 0..6
      BY <2>2 DEF RowOK, RowSound
    <3>2. QED
      BY <2>2, <3>1 DEF RowsTyped
  <2>4. {attempts, mints, slips, credits, echoes} \subseteq [Jobs -> 0..6]
    BY <2>3
  <2>5. QED
    BY <2>2, <2>4 DEF LoyaltyTypeOK, RowsTyped, QueueRecord, WorkRecord
<1>2. QED
  BY <1>1, LoyaltyInvariant, PTL

\* However many replicas drain the queue, whatever their locks do and whatever
\* fails, answers to committed writes included, a payment's points are minted
\* once, plus once for each mint that processLoyaltyMintQueue took for failed,
\* and loyalty_points gets one row, plus one for each INSERT that was made
\* although it was answered with an error; rows never outnumber mints.
THEOREM LoyaltyMintedOnce == LoyaltySpec => []MintedOncePerOutcome
<1>1. LoyaltyInv => MintedOncePerOutcome
  <2>1. SUFFICES ASSUME LoyaltyInv, NEW j \in Jobs
                 PROVE  /\ mints[j] <= 1 + slips[j]
                        /\ credits[j] <= 1 + echoes[j]
                        /\ credits[j] <= mints[j]
    BY DEF MintedOncePerOutcome
  <2>2. RowSound(queue[j], attempts[j], mints[j], slips[j], credits[j], echoes[j])
    BY <2>1 DEF LoyaltyInv, RowsInv, RowOK
  <2>3. QED
    BY <2>2 DEF RowSound
<1>2. QED
  BY <1>1, LoyaltyInvariant, PTL

\* A row is attempted at most three times, and given up only after three
\* attempts, although retry_count is incremented twice in each and compared
\* with a value read before both (claimNextJob, processSingleJob).
THEOREM LoyaltyThreeAttempts == LoyaltySpec => []ThreeAttempts
<1>1. LoyaltyInv => ThreeAttempts
  BY DEF LoyaltyInv, RowsInv, RowOK, RowSound, ThreeAttempts
<1>2. QED
  BY <1>1, LoyaltyInvariant, PTL

\* However many replicas and slots there are, a lock that has not expired is
\* deleted only by the replica that took it (releaseLock).
THEOREM LoyaltyReleaseOnlyOwn == LoyaltySpec => ReleaseOnlyOwn
<1> DEFINE Kept == \A s \in Slots : \A r \in Replicas :
                      (Owns(r, s) /\ keys[s].left > 1 /\ ~Owns(r, s)')
                         => (holds[r].slot = s /\ holds'[r].slot = 0)
<1>1. LoyaltyInv /\ [LoyaltyNext]_vars => [Kept]_lockVars
  BY KeyStep DEF LoyaltyInv, RowsInv, KeyKept
<1>2. QED
  BY <1>1, LoyaltyInvariant, PTL DEF LoyaltySpec, ReleaseOnlyOwn

-----------------------------------------------------------------------------
(* Recurring payments: arithmetic.                                         *)

LEMMA Quotient ==
    ASSUME NEW a \in Nat, NEW b \in Nat \ {0}
    PROVE  /\ a \div b \in Nat
           /\ (a \div b) * b <= a
           /\ a < (a \div b + 1) * b
<1>1. a \in Int /\ b \in Int /\ b > 0
  OBVIOUS
<1>2. (a \div b) * b <= a
  BY <1>1
<1>3. a < (a \div b + 1) * b
  BY <1>1
<1>4. a \div b \in Int /\ a \div b >= 0
  BY <1>1
<1>5. QED
  BY <1>2, <1>3, <1>4

LEMMA TimesGrows ==
    ASSUME NEW x \in Nat, NEW y \in Nat, NEW b \in Nat, x <= y
    PROVE  x * b <= y * b /\ x * b \in Nat /\ y * b \in Nat
<1>1. x * b \in Nat /\ y * b \in Nat /\ (y - x) * b \in Nat /\ y * b = x * b + (y - x) * b
  OBVIOUS
<1>2. QED
  BY <1>1

\* A closed form is never smaller than what it counts.
LEMMA TimesAtLeast ==
    ASSUME NEW x \in Nat, NEW b \in Nat \ {0}
    PROVE  x <= x * b
OBVIOUS

\* next_anchored_due is after now, and an interval or more after the due date.
LEMMA AnchoredLater ==
    ASSUME NEW s \in Schedule, now \in Nat
    PROVE  /\ NextAnchoredDue(s) \in Nat
           /\ NextAnchoredDue(s) > now
           /\ NextAnchoredDue(s) >= s.next + s.interval
<1> DEFINE i == s.interval
           n == s.next + i
           behind == now - n
           q == behind \div i
<1>1. i \in Nat /\ i # 0 /\ s.next \in Nat
  BY DEF Schedule
<1>2. n \in Nat /\ behind \in Int
  BY <1>1
<1>3. NextAnchoredDue(s) = IF behind < 0 THEN n ELSE n + (q + 1) * i
  BY DEF NextAnchoredDue
<1> HIDE DEF i, n
<1>4. CASE behind < 0
  BY <1>2, <1>3, <1>4 DEF n, i
<1>5. CASE ~(behind < 0)
  <2>1. behind \in Nat /\ i \in Nat \ {0}
    BY <1>1, <1>2, <1>5
  <2>2. q \in Nat /\ behind < (q + 1) * i
    BY <2>1, Quotient
  <2>3. NextAnchoredDue(s) = n + (q + 1) * i
    BY <1>3, <1>5
  <2> DEFINE z == (q + 1) * i
  <2>4. z \in Nat
    BY <2>1, <2>2
  <2>5. behind < z /\ NextAnchoredDue(s) = n + z
    BY <2>2, <2>3
  <2>6. now < n + z
    <3> HIDE DEF z, q
    <3>1. QED BY <1>2, <2>4, <2>5
  <2> HIDE DEF z, q, behind
  <2>7. QED
    BY <1>2, <2>4, <2>5, <2>6 DEF n, i
<1>6. QED
  BY <1>4, <1>5

\* How many windows are over: the last of them has passed its deadline, the
\* next one has not.
LEMMA MissedWindows ==
    ASSUME NEW s \in Schedule, now \in Nat, now > s.next + s.grace
    PROVE  \E q \in Nat :
              /\ NewlyMissed(s) = q + 1
              /\ q * s.interval < now - (s.next + s.grace)
              /\ now - (s.next + s.grace) <= (q + 1) * s.interval
<1> DEFINE a == now - (s.next + s.grace) - 1
           i == s.interval
           q == a \div i
<1>1. s.next \in Nat /\ s.grace \in Nat /\ i \in Nat \ {0}
  BY DEF Schedule
<1>2. a \in Nat /\ now - (s.next + s.grace) = a + 1
  BY <1>1
<1>3. q \in Nat /\ q * i <= a /\ a < (q + 1) * i
  <2> HIDE DEF a, i
  <2>1. QED BY <1>1, <1>2, Quotient
<1>4. q * i \in Nat /\ (q + 1) * i \in Nat
  BY <1>1, <1>3
<1>5. NewlyMissed(s) = q + 1
  BY DEF NewlyMissed
<1> DEFINE u == q * i
           v == (q + 1) * i
           d == now - (s.next + s.grace)
<1>6. u < d /\ d <= v
  <2>1. u \in Nat /\ v \in Nat /\ d = a + 1 /\ u <= a /\ a < v
    BY <1>2, <1>3, <1>4
  <2> HIDE DEF u, v, d, a
  <2>2. QED BY <1>2, <2>1
<1>7. QED
  BY <1>3, <1>5, <1>6

-----------------------------------------------------------------------------
(* The invariant.                                                          *)

RecurringTypeOK ==
    /\ ClockTypeOK
    /\ schedules \in [Schedules -> Schedule]
    /\ missed \in [Schedules -> Nat]
    /\ authorized \in 0..MaxSchedules
    /\ record \in [Schedules -> [created : Nat, paid : Nat]]

\* A schedule, its second count of misses, its history and the time agree.
OnTime(s, m, r, time) ==
    /\ r.created <= time /\ r.paid <= time
    /\ s.done * s.interval <= time - r.created
    /\ s.status = "active" =>
          /\ s.next > r.paid
          /\ s.next >= r.created + (s.done + 1) * s.interval
    /\ s.limit > 0 => s.done <= s.limit
    /\ s.status = "completed" <=> s.limit > 0 /\ s.done = s.limit
    /\ s.status \in {"active", "paused"} => s.misses < s.missLimit
    /\ m = s.misses

UnusedSchedules ==
    \A s \in Schedules : s > authorized => schedules[s] = NoSchedule /\ missed[s] = 0

RecurringInv ==
    /\ RecurringTypeOK
    /\ \A s \in Schedules : OnTime(schedules[s], missed[s], record[s], now)
    /\ UnusedSchedules

LEMMA RecurringFacts ==
    ASSUME RecurringInv, NEW s \in Schedules
    PROVE  /\ now \in Nat /\ MaxTime \in Nat /\ MaxSchedules \in Nat
           /\ schedules[s] \in Schedule /\ missed[s] \in Nat
           /\ record[s] \in [created : Nat, paid : Nat]
           /\ record[s].created \in Nat /\ record[s].paid \in Nat
           /\ OnTime(schedules[s], missed[s], record[s], now)
<1>1. now \in Nat /\ MaxTime \in Nat /\ MaxSchedules \in Nat
  BY MaxTimeAssumption, RecurringConstants DEF RecurringInv, RecurringTypeOK, ClockTypeOK
<1>2. schedules[s] \in Schedule /\ missed[s] \in Nat
      /\ record[s] \in [created : Nat, paid : Nat]
  BY DEF RecurringInv, RecurringTypeOK
<1>3. record[s].created \in Nat /\ record[s].paid \in Nat
  BY <1>2
<1>4. QED
  BY <1>1, <1>2, <1>3 DEF RecurringInv

LEMMA ScheduleFields ==
    \A s \in Schedule :
        /\ s.interval \in Nat /\ s.interval > 0 /\ s.grace \in Nat /\ s.missLimit \in Nat
        /\ s.missLimit > 0 /\ s.limit \in Nat /\ s.next \in Nat /\ s.done \in Nat
        /\ s.misses \in Nat /\ s.status \in Statuses
BY DEF Schedule

LEMMA RecurringInitInv == ASSUME RecurringInit PROVE RecurringInv
<1>1. NoSchedule \in Schedule /\ NoRecord \in [created : Nat, paid : Nat]
  BY DEF NoSchedule, NoRecord, Schedule, Statuses
<1>2. OnTime(NoSchedule, 0, NoRecord, 0)
  BY DEF OnTime, NoSchedule, NoRecord
<1>3. RecurringTypeOK
  BY <1>1, MaxTimeAssumption, RecurringConstants
     DEF RecurringInit, RecurringTypeOK, ClockInit, ClockTypeOK
<1>4. QED
  BY <1>2, <1>3 DEF RecurringInit, RecurringInv, ClockInit, UnusedSchedules

\* A step on one schedule that leaves it on time preserves the invariant.
LEMMA ScheduleStep ==
    ASSUME RecurringInv, NEW s \in Schedules, NEW x \in Schedule, NEW m \in Nat,
           NEW r \in [created : Nat, paid : Nat],
           Store(s, x), missed' = [missed EXCEPT ![s] = m], record' = [record EXCEPT ![s] = r],
           now' = now, authorized' \in 0..MaxSchedules, authorized <= authorized',
           s <= authorized', OnTime(x, m, r, now)
    PROVE  RecurringInv'
<1>1. /\ schedules \in [Schedules -> Schedule] /\ missed \in [Schedules -> Nat]
      /\ record \in [Schedules -> [created : Nat, paid : Nat]] /\ authorized \in 0..MaxSchedules
      /\ schedules' = [schedules EXCEPT ![s] = x] /\ ClockTypeOK
  BY DEF RecurringInv, RecurringTypeOK, Store
<1>2. /\ schedules' \in [Schedules -> Schedule] /\ missed' \in [Schedules -> Nat]
      /\ record' \in [Schedules -> [created : Nat, paid : Nat]]
      /\ schedules'[s] = x /\ missed'[s] = m /\ record'[s] = r
      /\ \A i \in Schedules : i # s =>
            schedules'[i] = schedules[i] /\ missed'[i] = missed[i] /\ record'[i] = record[i]
  BY <1>1
<1>3. RecurringTypeOK'
  BY <1>1, <1>2 DEF RecurringTypeOK, ClockTypeOK
<1>4. \A i \in Schedules : OnTime(schedules'[i], missed'[i], record'[i], now')
  BY <1>2 DEF RecurringInv
<1>5. UnusedSchedules'
  <2>1. SUFFICES ASSUME NEW i \in Schedules, i > authorized'
                  PROVE  schedules'[i] = NoSchedule /\ missed'[i] = 0
    BY DEF UnusedSchedules
  <2>2. i \in Int /\ s \in Int /\ authorized \in Int /\ authorized' \in Int
    BY <1>1, RecurringConstants DEF Schedules
  <2>3. i # s /\ i > authorized
    <3>1. i > authorized' /\ authorized <= authorized' /\ s <= authorized'
      BY <2>1
    <3>2. QED
      BY ONLY <2>2, <3>1
  <2>4. QED
    BY <1>2, <2>3 DEF RecurringInv, UnusedSchedules
<1>6. QED
  BY <1>3, <1>4, <1>5 DEF RecurringInv

LEMMA ExistingSchedule ==
    ASSUME RecurringInv, NEW s \in Schedules, schedules[s].status # "none"
    PROVE  s <= authorized
<1>1. NoSchedule.status = "none"
  BY DEF NoSchedule
<1>2. s \in Int /\ authorized \in Int
  BY RecurringConstants DEF RecurringInv, RecurringTypeOK, Schedules
<1>3. ~(s > authorized)
  BY <1>1 DEF RecurringInv, UnusedSchedules
<1>4. QED
  BY ONLY <1>2, <1>3

\* A step that changes neither the counter nor the time.
LEMMA ExistingScheduleStep ==
    ASSUME RecurringInv, NEW s \in Schedules, schedules[s].status # "none",
           NEW x \in Schedule, NEW m \in Nat, NEW r \in [created : Nat, paid : Nat],
           Store(s, x), missed' = [missed EXCEPT ![s] = m], record' = [record EXCEPT ![s] = r],
           now' = now, authorized' = authorized, OnTime(x, m, r, now)
    PROVE  RecurringInv'
<1>1. authorized \in 0..MaxSchedules /\ authorized' \in 0..MaxSchedules
      /\ authorized <= authorized'
  BY RecurringConstants DEF RecurringInv, RecurringTypeOK
<1>2. s <= authorized'
  BY ExistingSchedule
<1>3. QED
  BY <1>1, <1>2, ScheduleStep

-----------------------------------------------------------------------------
(* What the steps write.                                                   *)

LEMMA CreateStep ==
    ASSUME RecurringInv, NEW i \in Intervals, NEW g \in Graces, NEW l \in MissLimits,
           NEW e \in Executions, CreateRecurring(i, g, l, e)
    PROVE  RecurringInv'
<1> DEFINE s == authorized + 1
           x == [interval |-> i, grace |-> g, missLimit |-> l, limit |-> e,
                 next |-> now + i, done |-> 0, misses |-> 0, status |-> "active"]
           r == [created |-> now, paid |-> now]
<1>1. i \in Nat \ {0} /\ g \in Nat \ {0} /\ l \in Nat \ {0} /\ e \in Nat /\ now \in Nat
      /\ authorized \in Nat /\ MaxSchedules \in Nat /\ authorized < MaxSchedules
  BY RecurringConstants
     DEF RecurringInv, RecurringTypeOK, ClockTypeOK, CreateRecurring
<1>2. s \in Schedules /\ s > authorized /\ s \in 0..MaxSchedules
  BY <1>1 DEF Schedules
<1>3. x \in Schedule /\ r \in [created : Nat, paid : Nat]
  BY <1>1 DEF Schedule, Statuses
<1>4. missed[s] = 0 /\ missed \in [Schedules -> Nat]
  BY <1>2 DEF RecurringInv, RecurringTypeOK, UnusedSchedules
<1>5. Store(s, x) /\ record' = [record EXCEPT ![s] = r] /\ authorized' = s
      /\ now' = now /\ missed' = missed
  BY DEF CreateRecurring
<1>6. OnTime(x, 0, r, now)
  BY <1>1 DEF OnTime
<1>7. missed' = [missed EXCEPT ![s] = 0]
  BY <1>2, <1>4, <1>5
<1>8. authorized <= authorized' /\ s <= authorized'
  BY <1>1, <1>5
<1> HIDE DEF s, x, r
<1>9. QED
  BY <1>2, <1>3, <1>5, <1>6, <1>7, <1>8, ScheduleStep

\* One payment more, in the room the due date left.
LEMMA OneMore ==
    ASSUME NEW done \in Nat, NEW i \in Nat
    PROVE  /\ (done + 1) * i = done * i + i
           /\ (done + 1 + 1) * i = (done + 1) * i + i
           /\ done * i \in Nat /\ (done + 1) * i \in Nat
OBVIOUS

LEMMA ExecuteStep ==
    ASSUME RecurringInv, NEW s \in Schedules, Execute(s)
    PROVE  RecurringInv'
<1> DEFINE o == schedules[s]
           r == record[s]
           last == o.limit > 0 /\ o.done + 1 >= o.limit
           x == [o EXCEPT !.misses = 0, !.done = @ + 1, !.next = NextAnchoredDue(o),
                          !.status = IF last THEN "completed" ELSE "active"]
           y == [r EXCEPT !.paid = now]
<1>1. /\ now \in Nat /\ o \in Schedule /\ r \in [created : Nat, paid : Nat]
      /\ r.created \in Nat /\ OnTime(o, missed[s], r, now)
  BY RecurringFacts
<1>2. /\ o.status = "active" /\ now >= o.next
      /\ o.limit > 0 => o.done < o.limit
      /\ Store(s, x) /\ missed' = [missed EXCEPT ![s] = 0]
      /\ record' = [record EXCEPT ![s].paid = now] /\ now' = now /\ authorized' = authorized
  BY DEF Execute
<1>3. /\ NextAnchoredDue(o) \in Nat /\ NextAnchoredDue(o) > now
      /\ NextAnchoredDue(o) >= o.next + o.interval
  BY <1>1, AnchoredLater
<1>4. /\ o.interval \in Nat /\ o.interval > 0 /\ o.limit \in Nat /\ o.next \in Nat
      /\ o.done \in Nat /\ o.missLimit \in Nat /\ o.missLimit > 0
  BY <1>1, ScheduleFields
<1>5. /\ x.interval = o.interval /\ x.limit = o.limit /\ x.missLimit = o.missLimit
      /\ x.misses = 0 /\ x.done = o.done + 1 /\ x.next = NextAnchoredDue(o)
      /\ x.status = IF last THEN "completed" ELSE "active"
  BY <1>1 DEF Schedule
<1>6. x \in Schedule
  <2>1. o.done + 1 \in Nat
    BY <1>4
  <2> HIDE DEF o, last
  <2>2. QED
    BY <1>1, <1>3, <2>1 DEF Schedule, Statuses
<1>7. y \in [created : Nat, paid : Nat] /\ y.created = r.created /\ y.paid = now
      /\ record' = [record EXCEPT ![s] = y]
  BY <1>1, <1>2
<1>8. OnTime(x, 0, y, now)
  <2> HIDE DEF x, y, o, r
  <2>1. o.next >= r.created + (o.done + 1) * o.interval /\ r.created <= now
    BY <1>1, <1>2 DEF OnTime
  <2>2. /\ (o.done + 1) * o.interval \in Nat
        /\ (o.done + 1 + 1) * o.interval = (o.done + 1) * o.interval + o.interval
    BY <1>4, OneMore
  <2> DEFINE z == (o.done + 1) * o.interval
             w == (o.done + 1 + 1) * o.interval
  <2>3. z \in Nat /\ w = z + o.interval /\ o.next >= r.created + z
    BY <2>1, <2>2
  <2> HIDE DEF z, w
  <2>4. z <= now - r.created /\ NextAnchoredDue(o) >= r.created + w
    BY <1>1, <1>2, <1>3, <1>4, <2>3
  <2>5. x.done * x.interval <= now - y.created
    BY <1>5, <1>7, <2>4 DEF z
  <2>6. x.next >= y.created + (x.done + 1) * x.interval
    BY <1>5, <1>7, <2>4 DEF w
  <2>7. x.next > y.paid /\ y.created <= now /\ y.paid <= now
    BY <1>1, <1>3, <1>5, <1>7, <2>1
  <2>8. x.limit > 0 => x.done <= x.limit
    BY <1>2, <1>4, <1>5
  <2>9. x.status = "completed" <=> x.limit > 0 /\ x.done = x.limit
    BY <1>2, <1>4, <1>5
  <2>10. x.misses < x.missLimit
    BY <1>4, <1>5
  <2>11. QED
    BY <1>5, <2>5, <2>6, <2>7, <2>8, <2>9, <2>10 DEF OnTime
<1> HIDE DEF x, y
<1>9. o.status # "none"
  BY <1>2
<1>10. QED
  BY <1>2, <1>9, <1>6, <1>7, <1>8, ExistingScheduleStep

LEMMA CountMissesStep ==
    ASSUME RecurringInv, NEW s \in Schedules, CountMisses(s)
    PROVE  RecurringInv'
<1> DEFINE o == schedules[s]
           r == record[s]
           n == NewlyMissed(o)
           total == o.misses + n
           x == [o EXCEPT !.misses = total, !.next = @ + n * o.interval,
                          !.status = IF total >= o.missLimit THEN "cancelled" ELSE "active"]
<1>1. /\ now \in Nat /\ o \in Schedule /\ r \in [created : Nat, paid : Nat]
      /\ r.created \in Nat /\ r.paid \in Nat /\ OnTime(o, missed[s], r, now)
  BY RecurringFacts
<1>2. /\ o.status = "active" /\ now > o.next + o.grace
      /\ Store(s, x) /\ missed' = [missed EXCEPT ![s] = total]
      /\ record' = record /\ now' = now /\ authorized' = authorized
  BY DEF CountMisses
<1>3. n \in Nat
  BY <1>1, <1>2, MissedWindows
<1>4. /\ o.interval \in Nat /\ o.interval > 0 /\ o.limit \in Nat /\ o.next \in Nat
      /\ o.done \in Nat /\ o.missLimit \in Nat /\ o.misses \in Nat
  BY <1>1, ScheduleFields
<1> HIDE DEF n
<1>5. n * o.interval \in Nat /\ total \in Nat
  BY <1>3, <1>4
<1> HIDE DEF total
<1>6. /\ x.interval = o.interval /\ x.limit = o.limit /\ x.missLimit = o.missLimit
      /\ x.misses = total /\ x.done = o.done /\ x.next = o.next + n * o.interval
      /\ x.status = IF total >= o.missLimit THEN "cancelled" ELSE "active"
  BY <1>1 DEF Schedule
<1>7. x \in Schedule
  <2>1. o.next + n * o.interval \in Nat
    BY <1>4, <1>5
  <2>2. QED
    BY <1>1, <1>5, <2>1 DEF Schedule, Statuses
<1>8. record' = [record EXCEPT ![s] = r]
  BY <1>1, <1>2 DEF RecurringInv, RecurringTypeOK
<1>9. OnTime(x, total, r, now)
  <2> HIDE DEF x, r, o
  <2> DEFINE z == (o.done + 1) * o.interval
             w == n * o.interval
  <2>1. z \in Nat /\ w \in Nat
    BY <1>3, <1>4
  <2>2. o.next > r.paid /\ o.next >= r.created + z
    BY <1>1, <1>2 DEF OnTime
  <2> HIDE DEF z, w
  <2>3. o.next + w > r.paid /\ o.next + w >= r.created + z
    BY <1>1, <1>4, <2>1, <2>2
  <2>4. x.next > r.paid /\ x.next >= r.created + (x.done + 1) * x.interval
    BY <1>6, <2>3 DEF z, w
  <2>5. x.done * x.interval <= now - r.created /\ r.created <= now /\ r.paid <= now
    BY <1>1, <1>6 DEF OnTime
  <2>6. /\ x.limit > 0 => x.done <= x.limit
        /\ x.status = "completed" <=> x.limit > 0 /\ x.done = x.limit
    BY <1>1, <1>2, <1>6 DEF OnTime
  <2>7. x.status \in {"active", "paused"} => x.misses < x.missLimit
    BY <1>4, <1>5, <1>6
  <2>8. QED
    BY <1>6, <2>4, <2>5, <2>6, <2>7 DEF OnTime
<1> HIDE DEF x
<1>10. o.status # "none" /\ r \in [created : Nat, paid : Nat]
  BY <1>1, <1>2
<1> HIDE DEF r
<1>11. QED
  BY <1>2, <1>5, <1>7, <1>8, <1>9, <1>10, ExistingScheduleStep

\* Cancelling and pausing take nothing but the status, resuming the due date.
LEMMA StatusStep ==
    ASSUME RecurringInv, NEW s \in Schedules,
           CancelRecurring(s) \/ Pause(s) \/ Resume(s)
    PROVE  RecurringInv'
<1> DEFINE o == schedules[s]
           r == record[s]
           m == missed[s]
<1>1. /\ now \in Nat /\ o \in Schedule /\ r \in [created : Nat, paid : Nat] /\ m \in Nat
      /\ r.created \in Nat /\ r.paid \in Nat /\ OnTime(o, m, r, now)
  BY RecurringFacts
<1>2. /\ o.interval \in Nat /\ o.interval > 0 /\ o.limit \in Nat /\ o.next \in Nat
      /\ o.done \in Nat /\ o.missLimit \in Nat /\ o.misses \in Nat
  BY <1>1, ScheduleFields
<1>3. missed \in [Schedules -> Nat]
      /\ record \in [Schedules -> [created : Nat, paid : Nat]]
  BY DEF RecurringInv, RecurringTypeOK
<1>4. missed = [missed EXCEPT ![s] = m] /\ record = [record EXCEPT ![s] = r]
  BY <1>3
<1>5. CASE CancelRecurring(s)
  <2> DEFINE x == [o EXCEPT !.status = "cancelled"]
  <2>1. /\ o.status \in {"active", "paused"} /\ Store(s, x)
        /\ missed' = missed /\ record' = record /\ now' = now /\ authorized' = authorized
    BY <1>5 DEF CancelRecurring
  <2>2. x \in Schedule /\ OnTime(x, m, r, now)
    BY <1>1, <2>1 DEF Schedule, Statuses, OnTime
  <2> HIDE DEF x
  <2>3. o.status # "none" /\ missed' = [missed EXCEPT ![s] = m]
        /\ record' = [record EXCEPT ![s] = r]
    BY <1>4, <2>1
  <2> HIDE DEF m, r
  <2>4. QED
    BY <1>1, <2>1, <2>2, <2>3, ExistingScheduleStep
<1>6. CASE Pause(s)
  <2> DEFINE x == [o EXCEPT !.status = "paused"]
  <2>1. /\ o.status = "active" /\ Store(s, x)
        /\ missed' = missed /\ record' = record /\ now' = now /\ authorized' = authorized
    BY <1>6 DEF Pause
  <2>2. x \in Schedule /\ OnTime(x, m, r, now)
    BY <1>1, <2>1 DEF Schedule, Statuses, OnTime
  <2> HIDE DEF x
  <2>3. o.status # "none" /\ missed' = [missed EXCEPT ![s] = m]
        /\ record' = [record EXCEPT ![s] = r]
    BY <1>4, <2>1
  <2> HIDE DEF m, r
  <2>4. QED
    BY <1>1, <2>1, <2>2, <2>3, ExistingScheduleStep
<1>7. CASE Resume(s)
  <2> DEFINE x == [o EXCEPT !.status = "active", !.next = now + o.interval]
  <2>1. /\ o.status = "paused" /\ Store(s, x)
        /\ missed' = missed /\ record' = record /\ now' = now /\ authorized' = authorized
    BY <1>7 DEF Resume
  <2>2. x \in Schedule
    <3>1. now + o.interval \in Nat
      BY <1>1, <1>2
    <3>2. QED
      BY <1>1, <3>1 DEF Schedule, Statuses
  <2>3. /\ x.interval = o.interval /\ x.limit = o.limit /\ x.missLimit = o.missLimit
        /\ x.misses = o.misses /\ x.done = o.done /\ x.next = now + o.interval
        /\ x.status = "active"
    BY <1>1 DEF Schedule
  <2> HIDE DEF x
  <2>4. OnTime(x, m, r, now)
    <3> HIDE DEF o, r, m
    <3>1. /\ r.created <= now /\ r.paid <= now /\ o.done * o.interval <= now - r.created
          /\ o.misses < o.missLimit /\ m = o.misses
          /\ o.limit > 0 => o.done <= o.limit
          /\ ~(o.limit > 0 /\ o.done = o.limit)
      BY <1>1, <2>1 DEF OnTime
    <3> DEFINE z == o.done * o.interval
               w == (o.done + 1) * o.interval
    <3>2. z \in Nat /\ w = z + o.interval /\ z <= now - r.created
      BY <1>2, <3>1, OneMore
    <3> HIDE DEF z, w
    <3>3. now + o.interval > r.paid /\ now + o.interval >= r.created + w
      BY <1>1, <1>2, <3>1, <3>2
    <3>4. x.next > r.paid /\ x.next >= r.created + (x.done + 1) * x.interval
      BY <2>3, <3>3 DEF w
    <3>5. QED
      BY <2>3, <3>1, <3>4 DEF OnTime
  <2>5. o.status # "none" /\ missed' = [missed EXCEPT ![s] = m]
        /\ record' = [record EXCEPT ![s] = r]
    BY <1>4, <2>1
  <2> HIDE DEF m, r
  <2>6. QED
    BY <1>1, <2>1, <2>2, <2>4, <2>5, ExistingScheduleStep
<1>8. QED
  BY <1>5, <1>6, <1>7

LEMMA RecurringNextInv ==
    ASSUME RecurringInv, [RecurringNext]_recurringVars
    PROVE  RecurringInv'
<1>1. CASE \E i \in Intervals, g \in Graces, l \in MissLimits, e \in Executions :
              CreateRecurring(i, g, l, e)
  BY <1>1, CreateStep
<1>2. CASE \E s \in Schedules : Execute(s)
  BY <1>2, ExecuteStep
<1>3. CASE \E s \in Schedules : CountMisses(s)
  BY <1>3, CountMissesStep
<1>4. CASE \E s \in Schedules : CancelRecurring(s) \/ Pause(s) \/ Resume(s)
  BY <1>4, StatusStep
<1>5. CASE UNCHANGED scheduleVars /\ now' \in {now, now + 1} /\ ClockTypeOK'
  <2>1. /\ schedules' = schedules /\ missed' = missed /\ authorized' = authorized
        /\ record' = record
    BY <1>5 DEF scheduleVars
  <2>2. SUFFICES ASSUME NEW s \in Schedules
                 PROVE  OnTime(schedules[s], missed[s], record[s], now')
    BY <1>5, <2>1 DEF RecurringInv, RecurringTypeOK, UnusedSchedules
  <2> DEFINE o == schedules[s]
             r == record[s]
             z == o.done * o.interval
  <2>3. /\ now \in Nat /\ o \in Schedule /\ r.created \in Nat /\ r.paid \in Nat
        /\ OnTime(o, missed[s], r, now)
    BY RecurringFacts
  <2>4. z \in Nat
    BY <2>3, ScheduleFields
  <2>5. r.created <= now /\ r.paid <= now /\ z <= now - r.created
    BY <2>3 DEF OnTime
  <2> HIDE DEF o, r, z
  <2>6. r.created <= now' /\ r.paid <= now' /\ z <= now' - r.created
    BY <1>5, <2>3, <2>4, <2>5
  <2>7. OnTime(o, missed[s], r, now')
    BY <2>3, <2>6 DEF OnTime, z
  <2>8. QED
    BY <2>7 DEF o, r
<1>6. CASE Tick /\ UNCHANGED scheduleVars
  <2>1. now' \in {now, now + 1} /\ ClockTypeOK'
    BY <1>6, MaxTimeAssumption DEF RecurringInv, RecurringTypeOK, ClockTypeOK, Tick
  <2>2. QED
    BY <1>5, <1>6, <2>1
<1>7. CASE UNCHANGED recurringVars
  BY <1>5, <1>7 DEF recurringVars, RecurringInv, RecurringTypeOK, ClockTypeOK
<1>8. QED
  BY <1>1, <1>2, <1>3, <1>4, <1>6, <1>7 DEF RecurringNext

LEMMA RecurringInvariant == RecurringSpec => []RecurringInv
<1>1. RecurringInit => RecurringInv
  BY RecurringInitInv
<1>2. RecurringInv /\ [RecurringNext]_recurringVars => RecurringInv'
  BY RecurringNextInv
<1>3. QED
  BY <1>1, <1>2, PTL DEF RecurringSpec

-----------------------------------------------------------------------------
(* What follows from it.                                                   *)

LEMMA OnTimeKept ==
    ASSUME RecurringInv
    PROVE  PaidPerInterval /\ NoBurst /\ EndsAsAuthorized
<1>1. \A s \in Schedules : OnTime(schedules[s], missed[s], record[s], now)
  BY DEF RecurringInv
<1>2. PaidPerInterval
  BY <1>1 DEF PaidPerInterval, OnTime
<1>3. NoBurst
  BY <1>1 DEF NoBurst, OnTime
<1>4. EndsAsAuthorized
  BY <1>1 DEF EndsAsAuthorized, OnTime
<1>5. QED
  BY <1>2, <1>3, <1>4

\* The windows whose deadline is over are those before the one counted to.
LEMMA WindowsOver ==
    ASSUME RecurringInv, NEW s \in Schedules, CountMisses(s)
    PROVE  CountedExactly(s)
<1> DEFINE o == schedules[s]
           i == o.interval
           n == NewlyMissed(o)
           d == now - (o.next + o.grace)
<1>1. now \in Nat /\ o \in Schedule /\ schedules \in [Schedules -> Schedule]
  BY RecurringFacts DEF RecurringInv, RecurringTypeOK
<1>2. now > o.next + o.grace
  BY DEF CountMisses
<1>3. i \in Nat /\ i > 0 /\ o.next \in Nat /\ o.grace \in Nat /\ o.misses \in Nat
  BY <1>1, ScheduleFields
<1>4. PICK q \in Nat : n = q + 1 /\ q * i < d /\ d <= (q + 1) * i
  BY <1>1, <1>2, MissedWindows
<1>5. schedules'[s].misses = o.misses + n /\ schedules'[s].next = o.next + n * i
  BY <1>1 DEF CountMisses, Store, Schedule
<1> DEFINE over == {k \in 0..now : o.next + k * i + o.grace < now}
<1>6. \A k \in Nat : k * i \in Nat
  BY <1>3
<1>7. d \in Int /\ d <= now
  BY <1>1, <1>3
<1>8. ASSUME NEW k \in Nat PROVE o.next + k * i + o.grace < now <=> k * i < d
  <2> DEFINE u == k * i
  <2>1. u \in Nat
    BY <1>6
  <2> HIDE DEF u, i, o
  <2>2. o.next + u + o.grace < now <=> u < d
    BY <1>1, <1>3, <2>1
  <2>3. QED
    BY <2>2 DEF u
<1>9. q \in over
  <2>1. q <= q * i /\ q * i \in Nat
    <3> HIDE DEF i
    <3>1. QED BY <1>3, <1>6, TimesAtLeast
  <2> DEFINE u == q * i
  <2>2. u < d /\ q <= u /\ u \in Nat
    BY <1>4, <2>1
  <2>3. q <= now
    <3> HIDE DEF u, d
    <3>1. QED BY <1>1, <1>7, <2>2
  <2>4. q \in 0..now
    BY <1>1, <2>3
  <2>5. o.next + q * i + o.grace < now
    BY <1>4, <1>8
  <2>6. QED
    BY <2>4, <2>5
<1>10. ASSUME NEW k \in Nat, k > q PROVE k \notin over
  <2>1. (q + 1) * i <= k * i /\ (q + 1) * i \in Nat /\ k * i \in Nat
    <3> HIDE DEF i
    <3>1. q + 1 \in Nat /\ q + 1 <= k
      BY <1>10
    <3>2. QED
      BY <1>3, <3>1, TimesGrows
  <2> DEFINE u == (q + 1) * i
             v == k * i
  <2>2. u \in Nat /\ v \in Nat /\ u <= v /\ d <= u
    BY <1>4, <2>1
  <2>3. ~(v < d)
    <3> HIDE DEF u, v, d
    <3>1. QED BY <1>7, <2>2
  <2>4. QED
    BY <1>8, <2>3
<1>11. \A j \in over : j <= q
  <2>1. SUFFICES ASSUME NEW j \in over PROVE j <= q
    OBVIOUS
  <2>2. j \in Nat
    BY <1>1
  <2>3. ~(j > q)
    BY <1>10, <2>1, <2>2
  <2> HIDE DEF over
  <2>4. QED
    BY <2>2, <2>3
<1>12. q + 1 \notin over
  <2>1. q + 1 \in Nat /\ q + 1 > q
    OBVIOUS
  <2> HIDE DEF over
  <2>2. QED
    BY <1>10, <2>1
<1>13. schedules'[s].misses = o.misses + q + 1 /\ schedules'[s].next = o.next + (q + 1) * i
  <2> DEFINE a == schedules'[s].misses
  <2>1. a = o.misses + (q + 1) /\ schedules'[s].next = o.next + (q + 1) * i
    BY <1>4, <1>5
  <2> HIDE DEF a, o
  <2>2. a = o.misses + q + 1
    BY <1>3, <2>1
  <2>3. QED
    BY <2>1, <2>2 DEF a, o
<1>14. QED
  BY <1>9, <1>11, <1>12, <1>13 DEF CountedExactly

\* Nothing but a late execution makes more misses.
LEMMA OnlyCounted ==
    ASSUME RecurringInv, [RecurringNext]_recurringVars, NEW s \in Schedules
    PROVE  CountedExactly(s)
<1>1. SUFFICES ASSUME ~CountMisses(s) PROVE ~(schedules'[s].misses > schedules[s].misses)
  BY WindowsOver DEF CountedExactly
<1>2. /\ schedules \in [Schedules -> Schedule] /\ schedules[s] \in Schedule
      /\ schedules[s].misses \in Nat /\ authorized \in Nat
      /\ NoSchedule.misses = 0
  BY RecurringFacts, ScheduleFields, RecurringConstants
     DEF RecurringInv, RecurringTypeOK, NoSchedule
<1>3. CASE schedules'[s] = schedules[s]
  BY <1>2, <1>3
<1>4. CASE \E i \in Intervals, g \in Graces, l \in MissLimits, e \in Executions :
              CreateRecurring(i, g, l, e)
  <2>1. PICK x : Store(authorized + 1, x) /\ x.misses = 0
    BY <1>4 DEF CreateRecurring
  <2>2. schedules'[s] = schedules[s] \/ schedules'[s] = x
    BY <1>2, <2>1 DEF Store
  <2>3. QED
    BY <1>2, <2>1, <2>2
<1>5. ASSUME NEW i \in Schedules, Execute(i) PROVE schedules'[s] = schedules[s]
                                                   \/ schedules'[s].misses = 0
  BY <1>2, <1>5 DEF Execute, Store, Schedule
<1>6. ASSUME NEW i \in Schedules, CountMisses(i) PROVE schedules'[s] = schedules[s]
  BY <1>1, <1>2, <1>6 DEF CountMisses, Store
<1>7. ASSUME NEW i \in Schedules, CancelRecurring(i) \/ Pause(i) \/ Resume(i)
      PROVE  schedules'[s].misses = schedules[s].misses
  <2>1. PICK x : Store(i, x) /\ x.misses = schedules[i].misses
    <3>1. schedules[i] \in Schedule
      BY <1>2, <1>7
    <3>2. CASE CancelRecurring(i)
      BY <3>1, <3>2 DEF CancelRecurring, Schedule
    <3>3. CASE Pause(i)
      BY <3>1, <3>3 DEF Pause, Schedule
    <3>4. CASE Resume(i)
      <4> DEFINE x == [schedules[i] EXCEPT !.status = "active",
                                           !.next = now + schedules[i].interval]
      <4>1. Store(i, x)
        BY <3>4 DEF Resume
      <4>2. x.misses = schedules[i].misses
        BY <3>1 DEF Schedule
      <4> HIDE DEF x
      <4>3. QED
        BY <4>1, <4>2
    <3>5. QED
      BY <1>7, <3>2, <3>3, <3>4
  <2>2. QED
    BY <1>2, <1>7, <2>1 DEF Store
<1>8. CASE UNCHANGED scheduleVars \/ UNCHANGED recurringVars
  BY <1>3, <1>8 DEF scheduleVars, recurringVars
<1>9. QED
  BY <1>2, <1>3, <1>4, <1>5, <1>6, <1>7, <1>8 DEF RecurringNext

\* Pausing, resuming, executing late and missing windows in any order: the
\* sender pays no more often than the schedule says and for no longer, what was
\* just paid is not due, and every missed window is counted once
\* (execute_payment, next_anchored_due, resume_recurring).
THEOREM ScheduleAlwaysKept == RecurringSpec => ScheduleKept
<1>1. RecurringInv => PaidPerInterval /\ NoBurst /\ EndsAsAuthorized
  BY OnTimeKept
<1>2. RecurringInv /\ [RecurringNext]_recurringVars
        => [\A s \in Schedules : CountedExactly(s)]_recurringVars
  BY OnlyCounted
<1>3. QED
  BY <1>1, <1>2, RecurringInvariant, PTL DEF RecurringSpec, ScheduleKept, MissesExact

-----------------------------------------------------------------------------
(* Savings vaults: arithmetic.                                             *)

\* Truncating division, without the division.
LEMMA WholePart ==
    ASSUME NEW a \in Nat, NEW b \in Nat, b > 0
    PROVE  a \div b \in Nat /\ (a \div b) * b <= a
<1>1. a \in Int /\ b \in Int /\ b > 0
  OBVIOUS
<1>2. (a \div b) * b <= a
  BY <1>1
<1>3. a \div b \in Int /\ a \div b >= 0
  BY <1>1
<1>4. QED
  BY <1>2, <1>3

LEMMA FactorsGrow ==
    ASSUME NEW a \in Nat, NEW b \in Nat, NEW x \in Nat, NEW y \in Nat, a <= x, b <= y
    PROVE  a * b \in Nat /\ x * y \in Nat /\ a * b <= x * y
<1>1. a * b \in Nat /\ x * y \in Nat /\ x * b \in Nat
  OBVIOUS
<1>2. (x - a) * b \in Nat /\ x * b = a * b + (x - a) * b
  OBVIOUS
<1>3. (y - b) * x \in Nat /\ x * y = x * b + (y - b) * x
  OBVIOUS
<1>4. a * b <= x * b
  BY <1>1, <1>2
<1>5. x * b <= x * y
  BY <1>1, <1>3
<1>6. QED
  BY <1>1, <1>4, <1>5

\* A share of a sum, rounded down, is no more than the sum.
LEMMA ShareBound ==
    ASSUME NEW a \in Nat, NEW s \in Nat, NEW b \in Nat, b > 0, s <= b
    PROVE  (a * s) \div b \in Nat /\ (a * s) \div b <= a
<1> DEFINE q == (a * s) \div b
<1>1. a * s \in Nat /\ a * b \in Nat /\ a * s <= a * b
  <2>1. a <= a
    OBVIOUS
  <2>2. QED
    BY <2>1, FactorsGrow
<1> DEFINE p == a * s
<1>2. q \in Nat /\ q * b <= p
  <2> HIDE DEF p
  <2>1. p \div b \in Nat /\ (p \div b) * b <= p
    BY <1>1, WholePart DEF p
  <2>2. QED
    BY <2>1 DEF p
<1>3. q * b \in Nat /\ q * b <= a * b
  <2> DEFINE u == q * b
             w == a * b
  <2>1. u \in Nat /\ w \in Nat /\ p \in Nat /\ u <= p /\ p <= w
    BY <1>1, <1>2
  <2> HIDE DEF u, w, p
  <2>2. u <= w
    BY <2>1
  <2>3. QED
    BY <2>1, <2>2 DEF u, w
<1> HIDE DEF q
<1>4. ~(q > a)
  <2>1. SUFFICES ASSUME q > a PROVE FALSE
    OBVIOUS
  <2>2. (a + 1) * b <= q * b
    <3>1. a + 1 \in Nat /\ a + 1 <= q /\ b <= b
      BY <1>2, <2>1
    <3>2. QED
      BY <1>2, <3>1, FactorsGrow
  <2>3. (a + 1) * b = a * b + b
    OBVIOUS
  <2> DEFINE u == q * b
             w == a * b
  <2>4. u \in Nat /\ w \in Nat /\ u <= w /\ w + b <= u
    BY <1>1, <1>3, <2>2, <2>3
  <2> HIDE DEF u, w
  <2>5. QED
    BY <2>4
<1>5. q \in Nat /\ q <= a
  BY <1>2, <1>4
<1>6. QED
  BY <1>5 DEF q

\* Interest up to t1 is bounded by what k earns in that time, and the interest
\* from t1 to t2 is of no more than k.
LEMMA EarnedOnce ==
    ASSUME NEW k \in Nat, NEW j \in Nat, NEW unit \in Nat, NEW c \in Nat,
           NEW t0 \in Nat, NEW t1 \in Nat, NEW t2 \in Nat,
           unit > 0, j <= k, t0 <= t1, t1 <= t2, c * unit <= k * (t1 - t0)
    PROVE  /\ (j * (t2 - t1)) \div unit \in Nat
           /\ (c + (j * (t2 - t1)) \div unit) * unit <= k * (t2 - t0)
<1> DEFINE s == t2 - t1
           e == (j * s) \div unit
           d == t1 - t0
<1>1. s \in Nat /\ d \in Nat /\ t2 - t0 = d + s
  OBVIOUS
<1> HIDE DEF s, d
<1>2. j * s \in Nat /\ k * s \in Nat /\ j * s <= k * s
  <2>1. s <= s
    BY <1>1
  <2>2. QED
    BY <1>1, <2>1, FactorsGrow
<1>3. e \in Nat /\ e * unit <= j * s
  <2> DEFINE p == j * s
  <2> HIDE DEF p
  <2>1. p \div unit \in Nat /\ (p \div unit) * unit <= p
    BY <1>2, WholePart DEF p
  <2>2. QED
    BY <2>1 DEF p
<1> HIDE DEF e
<1>4. (c + e) * unit = c * unit + e * unit /\ c * unit \in Nat /\ e * unit \in Nat
  BY <1>3
<1>5. k * (d + s) = k * d + k * s /\ k * d \in Nat
  BY <1>1
<1>6. c * unit <= k * d
  BY DEF d
<1> DEFINE a == c * unit
           b == e * unit
           x == k * d
           y == k * s
           z == j * s
<1>7. a \in Nat /\ b \in Nat /\ x \in Nat /\ y \in Nat /\ z \in Nat
      /\ a <= x /\ b <= z /\ z <= y
  BY <1>2, <1>3, <1>4, <1>5, <1>6
<1>8. a + b <= x + y
  <2> HIDE DEF a, b, x, y, z
  <2>1. QED BY <1>7
<1>9. (c + e) * unit <= k * (t2 - t0)
  BY <1>1, <1>4, <1>5, <1>8
<1>10. QED
  BY <1>3, <1>9 DEF e, s

\* A sum whose summands are split is split.
LEMMA TotalOfParts ==
    ASSUME NEW f, NEW g, NEW h, NEW n \in Nat,
           \A i \in 1..n : g[i] \in Nat /\ h[i] \in Nat /\ f[i] = g[i] + h[i]
    PROVE  Total(f, n) = Total(g, n) + Total(h, n)
<1> DEFINE S == {k \in Nat : k <= n =>
                     /\ Total(f, k) = Total(g, k) + Total(h, k)
                     /\ Total(g, k) \in Nat /\ Total(h, k) \in Nat}
<1>1. 0 \in S
  BY TotalZero
<1>2. ASSUME NEW k \in Nat, k \in S PROVE k + 1 \in S
  <2>1. SUFFICES ASSUME k + 1 <= n
                 PROVE  /\ Total(f, k + 1) = Total(g, k + 1) + Total(h, k + 1)
                        /\ Total(g, k + 1) \in Nat /\ Total(h, k + 1) \in Nat
    OBVIOUS
  <2>2. k <= n /\ k + 1 \in 1..n
    BY <2>1
  <2>3. /\ Total(f, k + 1) = Total(f, k) + f[k + 1]
        /\ Total(g, k + 1) = Total(g, k) + g[k + 1]
        /\ Total(h, k + 1) = Total(h, k) + h[k + 1]
    BY TotalStep
  <2>4. /\ Total(f, k) = Total(g, k) + Total(h, k)
        /\ Total(g, k) \in Nat /\ Total(h, k) \in Nat
    BY <1>2, <2>2
  <2>5. g[k + 1] \in Nat /\ h[k + 1] \in Nat /\ f[k + 1] = g[k + 1] + h[k + 1]
    BY <2>2
  <2>6. QED
    BY <2>3, <2>4, <2>5
<1>3. \A k \in Nat : k \in S
  <2> HIDE DEF S
  <2>1. \A k \in Nat : k \in S => k + 1 \in S
    BY <1>2
  <2>2. QED
    BY <1>1, <2>1, SetInduction
<1>4. QED
  BY <1>3

-----------------------------------------------------------------------------
(* The invariant.                                                          *)

VaultRecord ==
    [owner : Savers \cup {"none"}, balance : Nat, unlock : Nat, since : Nat, accrued : Nat]
StoryRecord == [deposit : Nat, since : Nat, credited : Nat]
Alarm == [on : BOOLEAN, at : Nat]

SavingsTypeOK ==
    /\ ClockTypeOK
    /\ vaults \in [VaultIds -> VaultRecord]
    /\ story \in [VaultIds -> StoryRecord]
    /\ opened \in 0..MaxVaults
    /\ rate \in 0..MaxRate
    /\ reserve \in Nat /\ totalLocked \in Nat /\ vaultFunds \in Nat
    /\ emergency \in [announced : Alarm, activated : Alarm]

\* A vault x with the story st: no more interest than the deposit earns at the
\* highest rate, and while it is open, than it had earned when it was last
\* accrued.
Earns(x, st, time) ==
    /\ st.since <= time
    /\ st.credited * RateUnit <= st.deposit * MaxRate * (time - st.since)
    /\ x.balance <= st.deposit
    /\ x # NoVault =>
          /\ st.since <= x.since /\ x.since <= time
          /\ st.credited * RateUnit <= st.deposit * MaxRate * (x.since - st.since)

FreshVaults == \A v \in VaultIds : v > opened => vaults[v] = NoVault

\* What is open when an emergency is on was opened before.
Warns(alarm) ==
    alarm.on => /\ alarm.at <= now
                /\ \A v \in VaultIds : IsOpen(v) => story[v].since <= alarm.at

SavingsInv ==
    /\ SavingsTypeOK
    /\ \A v \in VaultIds : Earns(vaults[v], story[v], now)
    /\ FreshVaults
    /\ SavingsCovered
    /\ Warns(emergency.announced) /\ Warns(emergency.activated)

LEMMA VaultFields ==
    \A x \in VaultRecord : /\ x.balance \in Nat /\ x.since \in Nat /\ x.accrued \in Nat
                           /\ x.unlock \in Nat /\ x.owner \in Savers \cup {"none"}
BY DEF VaultRecord

LEMMA StoryFields ==
    \A st \in StoryRecord : st.deposit \in Nat /\ st.since \in Nat /\ st.credited \in Nat
BY DEF StoryRecord

LEMMA SavingsInitInv == ASSUME SavingsInit PROVE SavingsInv
<1>1. NoVault \in VaultRecord /\ Calm \in Alarm /\ Calm.on = FALSE /\ NoVault.balance = 0
  BY DEF NoVault, Calm, VaultRecord, Alarm
<1> DEFINE st == [deposit |-> 0, since |-> 0, credited |-> 0]
<1>2. st \in StoryRecord
  BY DEF StoryRecord
<1>3. MaxRate \in Nat /\ RateUnit \in Nat /\ MaxVaults \in Nat
  BY SavingsConstants
<1>4. Earns(NoVault, st, 0)
  BY <1>1, <1>3 DEF Earns
<1>5. SavingsTypeOK
  BY <1>1, <1>2, <1>3, MaxTimeAssumption
     DEF SavingsInit, SavingsTypeOK, ClockInit, ClockTypeOK
<1>6. \A v \in VaultIds : Earns(vaults[v], story[v], now)
  BY <1>4 DEF SavingsInit, ClockInit
<1>7. SavingsCovered
  <2>1. \A v \in 1..MaxVaults : Principals[v] = 0
    BY <1>1 DEF SavingsInit, Principals, VaultIds
  <2>2. Total(Principals, MaxVaults) = 0
    BY <1>3, <2>1, TotalOfZeros
  <2>3. QED
    BY <2>2 DEF SavingsInit, SavingsCovered
<1>8. FreshVaults /\ Warns(emergency.announced) /\ Warns(emergency.activated)
  BY <1>1 DEF SavingsInit, FreshVaults, Warns
<1>9. QED
  BY <1>5, <1>6, <1>7, <1>8 DEF SavingsInv

\* A step on one vault preserves the invariant if it stores a record that is in
\* order, keeps the money together, and opens no vault during an emergency.
LEMMA VaultStep ==
    ASSUME SavingsInv, NEW v \in VaultIds, NEW x \in VaultRecord, NEW st \in StoryRecord,
           vaults' = [vaults EXCEPT ![v] = x], story' = [story EXCEPT ![v] = st],
           Earns(x, st, now), now' = now, rate' = rate, emergency' = emergency,
           opened' \in 0..MaxVaults, opened <= opened', v <= opened',
           totalLocked' = (totalLocked - vaults[v].balance) + x.balance,
           reserve' \in Nat, vaultFunds' \in Nat, vaultFunds' >= totalLocked' + reserve',
           \/ AcceptingDeposits
           \/ IsOpen(v) /\ st.since = story[v].since
    PROVE  SavingsInv'
<1>1. /\ vaults \in [VaultIds -> VaultRecord] /\ story \in [VaultIds -> StoryRecord]
      /\ opened \in 0..MaxVaults /\ rate \in 0..MaxRate /\ ClockTypeOK
      /\ emergency \in [announced : Alarm, activated : Alarm] /\ totalLocked \in Nat
      /\ totalLocked = Total(Principals, MaxVaults)
  BY DEF SavingsInv, SavingsTypeOK, SavingsCovered
<1>2. /\ vaults' \in [VaultIds -> VaultRecord] /\ story' \in [VaultIds -> StoryRecord]
      /\ vaults'[v] = x /\ story'[v] = st
      /\ \A i \in VaultIds : i # v => vaults'[i] = vaults[i] /\ story'[i] = story[i]
  BY <1>1
<1>3. MaxVaults \in Nat /\ v \in 1..MaxVaults
  BY SavingsConstants DEF VaultIds
<1>4. totalLocked' = Total(Principals', MaxVaults) /\ totalLocked' \in Nat
  <2> DEFINE f == Principals
             g == Principals'
  <2>1. \A i \in 1..MaxVaults : /\ f[i] = vaults[i].balance /\ g[i] = vaults'[i].balance
                                /\ f[i] \in Nat /\ g[i] \in Nat
    BY <1>1, <1>2, VaultFields DEF Principals, VaultIds
  <2>2. \A i \in 1..MaxVaults : i # v => g[i] = f[i]
    BY <1>2, <2>1 DEF VaultIds
  <2>3. f[v] = vaults[v].balance /\ g[v] = x.balance
    BY <1>2, <1>3, <2>1
  <2> HIDE DEF f, g
  <2>4. Total(g, MaxVaults) = (Total(f, MaxVaults) - f[v]) + g[v]
    BY <1>3, <2>1, <2>2, TotalUpdate
  <2>5. Total(g, MaxVaults) \in Nat
    BY <1>3, <2>1, TotalNat
  <2>6. QED
    BY <1>1, <2>3, <2>4, <2>5 DEF f, g
<1>5. SavingsTypeOK'
  BY <1>1, <1>2, <1>4 DEF SavingsTypeOK, ClockTypeOK
<1>6. SavingsCovered'
  BY <1>4 DEF SavingsCovered
<1>7. \A i \in VaultIds : Earns(vaults'[i], story'[i], now')
  BY <1>2 DEF SavingsInv
<1>8. FreshVaults'
  <2>1. SUFFICES ASSUME NEW i \in VaultIds, i > opened' PROVE vaults'[i] = NoVault
    BY DEF FreshVaults
  <2>2. i \in Int /\ v \in Int /\ opened \in Int /\ opened' \in Int
    BY <1>1, <1>3 DEF VaultIds
  <2>3. i > opened' /\ opened <= opened' /\ v <= opened'
    BY <2>1
  <2>4. i # v /\ i > opened
    BY ONLY <2>2, <2>3
  <2>5. QED
    BY <1>2, <2>4 DEF SavingsInv, FreshVaults
<1>9. ASSUME NEW alarm, Warns(alarm), alarm.on => ~AcceptingDeposits
      PROVE  alarm.on => /\ alarm.at <= now'
                         /\ \A i \in VaultIds : IsOpen(i)' => story'[i].since <= alarm.at
  BY <1>2, <1>9 DEF Warns, IsOpen
<1>10. Warns(emergency.announced)' /\ Warns(emergency.activated)'
  BY <1>9 DEF SavingsInv, Warns, AcceptingDeposits
<1>11. QED
  BY <1>5, <1>6, <1>7, <1>8, <1>10 DEF SavingsInv

-----------------------------------------------------------------------------
(* What the invariant says of one vault.                                   *)

LEMMA SavingsFacts ==
    ASSUME SavingsInv, NEW v \in VaultIds
    PROVE  /\ vaults[v] \in VaultRecord /\ story[v] \in StoryRecord
           /\ Earns(vaults[v], story[v], now)
           /\ now \in Nat /\ rate \in Nat /\ rate <= MaxRate /\ MaxRate \in Nat
           /\ RateUnit \in Nat /\ RateUnit > 0 /\ MaxVaults \in Nat
           /\ reserve \in Nat /\ totalLocked \in Nat /\ vaultFunds \in Nat
           /\ vaultFunds >= totalLocked + reserve
           /\ opened \in 0..MaxVaults /\ opened \in Nat
<1>1. vaults[v] \in VaultRecord /\ story[v] \in StoryRecord
  BY DEF SavingsInv, SavingsTypeOK
<1>2. MaxRate \in Nat /\ RateUnit \in Nat /\ RateUnit > 0 /\ MaxVaults \in Nat
  BY SavingsConstants
<1>3. /\ now \in Nat /\ rate \in Nat /\ rate <= MaxRate
      /\ reserve \in Nat /\ totalLocked \in Nat /\ vaultFunds \in Nat
      /\ opened \in 0..MaxVaults /\ opened \in Nat
  BY <1>2, MaxTimeAssumption DEF SavingsInv, SavingsTypeOK, ClockTypeOK
<1>4. QED
  BY <1>1, <1>2, <1>3 DEF SavingsInv, SavingsCovered

LEMMA OpenExists ==
    ASSUME SavingsInv, NEW v \in VaultIds, IsOpen(v)
    PROVE  v <= opened
<1>1. v \in Int /\ opened \in Int
  BY SavingsConstants, SavingsFacts DEF VaultIds
<1>2. ~(v > opened)
  BY DEF SavingsInv, FreshVaults, IsOpen
<1>3. QED
  BY ONLY <1>1, <1>2

\* Accruing keeps a vault in order, whoever calls it and when.
LEMMA AccruedEarns ==
    ASSUME SavingsInv, NEW v \in VaultIds, IsOpen(v)
    PROVE  /\ Earned(v) \in Nat
           /\ Accrued(v) \in VaultRecord
           /\ Accrued(v).balance = vaults[v].balance
           /\ Accrued(v).since = now
           /\ Accrued(v).accrued = vaults[v].accrued + Earned(v)
           /\ (story[v].credited + Earned(v)) * RateUnit
                  <= story[v].deposit * MaxRate * (now - story[v].since)
<1> DEFINE x == vaults[v]
           st == story[v]
           k == st.deposit * MaxRate
           j == x.balance * rate
<1>1. /\ x \in VaultRecord /\ st \in StoryRecord /\ Earns(x, st, now) /\ now \in Nat
      /\ rate \in Nat /\ rate <= MaxRate /\ MaxRate \in Nat
      /\ RateUnit \in Nat /\ RateUnit > 0
  BY SavingsFacts
<1>2. /\ x.balance \in Nat /\ x.since \in Nat /\ x.accrued \in Nat
      /\ st.deposit \in Nat /\ st.since \in Nat /\ st.credited \in Nat
  BY <1>1, VaultFields, StoryFields
<1>3. /\ st.since <= x.since /\ x.since <= now /\ x.balance <= st.deposit
      /\ st.credited * RateUnit <= k * (x.since - st.since)
  BY <1>1 DEF Earns, IsOpen
<1>4. k \in Nat /\ j \in Nat /\ j <= k
  BY <1>1, <1>2, <1>3, FactorsGrow
<1>5. Earned(v) = (j * (now - x.since)) \div RateUnit
  BY DEF Earned
<1> HIDE DEF x, st, k, j
<1>6. /\ Earned(v) \in Nat
      /\ (st.credited + Earned(v)) * RateUnit <= k * (now - st.since)
  <2> DEFINE c == st.credited
             t0 == st.since
             t1 == x.since
             t2 == now
             unit == RateUnit
  <2>1. /\ k \in Nat /\ j \in Nat /\ unit \in Nat /\ c \in Nat
        /\ t0 \in Nat /\ t1 \in Nat /\ t2 \in Nat
        /\ unit > 0 /\ j <= k /\ t0 <= t1 /\ t1 <= t2 /\ c * unit <= k * (t1 - t0)
    BY <1>1, <1>2, <1>3, <1>4
  <2> HIDE DEF c, t0, t1, t2, unit
  <2>2. /\ (j * (t2 - t1)) \div unit \in Nat
        /\ (c + (j * (t2 - t1)) \div unit) * unit <= k * (t2 - t0)
    BY <2>1, EarnedOnce
  <2>3. QED
    BY <1>5, <2>2 DEF c, t0, t1, t2, unit
<1>7. x.accrued + Earned(v) \in Nat
  BY <1>2, <1>6
<1>8. Accrued(v) = [x EXCEPT !.accrued = x.accrued + Earned(v), !.since = now]
  BY DEF Accrued, x
<1>9. /\ Accrued(v) \in VaultRecord
      /\ Accrued(v).balance = x.balance
      /\ Accrued(v).since = now
      /\ Accrued(v).accrued = x.accrued + Earned(v)
  BY <1>1, <1>7, <1>8 DEF VaultRecord
<1>10. QED
  BY <1>6, <1>9 DEF x, st, k

\* The history of a vault after NoteYield.
LEMMA NotedYield ==
    ASSUME NEW st \in StoryRecord, NEW e \in Nat
    PROVE  LET n == [st EXCEPT !.credited = @ + e]
           IN  /\ n \in StoryRecord /\ n.deposit = st.deposit /\ n.since = st.since
               /\ n.credited = st.credited + e
<1>1. st.credited + e \in Nat
  BY StoryFields
<1>2. QED
  BY <1>1 DEF StoryRecord

-----------------------------------------------------------------------------
(* The steps.                                                              *)

LEMMA OpenStep ==
    ASSUME SavingsInv, NEW u \in Savers, NEW sum \in SavedSums, NEW lock \in Locks,
           OpenVault(u, sum, lock)
    PROVE  SavingsInv'
<1> DEFINE v == opened + 1
           x == [owner |-> u, balance |-> sum, unlock |-> now + lock, since |-> now,
                 accrued |-> 0]
           st == [deposit |-> sum, since |-> now, credited |-> 0]
<1>1. /\ sum \in Nat /\ lock \in Nat /\ MaxVaults \in Nat /\ MaxRate \in Nat
      /\ RateUnit \in Nat
  BY SavingsConstants
<1>2. /\ now \in Nat /\ opened \in Nat /\ reserve \in Nat /\ totalLocked \in Nat
      /\ vaultFunds \in Nat /\ vaultFunds >= totalLocked + reserve
  BY <1>1, MaxTimeAssumption
     DEF SavingsInv, SavingsTypeOK, ClockTypeOK, SavingsCovered
<1>3. /\ AcceptingDeposits /\ opened < MaxVaults /\ opened' = v
      /\ vaults' = [vaults EXCEPT ![v] = x] /\ story' = [story EXCEPT ![v] = st]
      /\ totalLocked' = totalLocked + sum /\ vaultFunds' = vaultFunds + sum
      /\ reserve' = reserve /\ now' = now /\ rate' = rate /\ emergency' = emergency
  BY DEF OpenVault, SameSettings
<1>4. v \in VaultIds /\ v > opened /\ v \in 0..MaxVaults /\ opened <= v /\ v <= v
  BY <1>1, <1>2, <1>3 DEF VaultIds
<1>5. vaults[v] = NoVault /\ NoVault.balance = 0
  BY <1>4 DEF SavingsInv, FreshVaults, NoVault
<1>6. x \in VaultRecord /\ st \in StoryRecord
  BY <1>1, <1>2 DEF VaultRecord, StoryRecord
<1>7. Earns(x, st, now)
  <2>1. /\ st.since = now /\ st.credited = 0 /\ st.deposit = sum
        /\ x.balance = sum /\ x.since = now
    OBVIOUS
  <2>2. 0 * RateUnit <= sum * MaxRate * (now - now)
    BY <1>1, <1>2
  <2> HIDE DEF x, st
  <2>3. QED
    BY <1>1, <1>2, <2>1, <2>2 DEF Earns
<1>8. totalLocked' = (totalLocked - vaults[v].balance) + x.balance
  BY <1>1, <1>2, <1>3, <1>5
<1>9. reserve' \in Nat /\ vaultFunds' \in Nat /\ vaultFunds' >= totalLocked' + reserve'
  BY <1>1, <1>2, <1>3
<1> HIDE DEF v, x, st
<1>10. QED
  BY <1>3, <1>4, <1>6, <1>7, <1>8, <1>9, VaultStep

LEMMA AccrueStep ==
    ASSUME SavingsInv, NEW v \in VaultIds, AccrueInterest(v)
    PROVE  SavingsInv'
<1> DEFINE x == Accrued(v)
           st == [story[v] EXCEPT !.credited = @ + Earned(v)]
<1>1. /\ IsOpen(v) /\ vaults' = [vaults EXCEPT ![v] = x]
      /\ story' = [story EXCEPT ![v] = st]
      /\ now' = now /\ rate' = rate /\ emergency' = emergency /\ opened' = opened
      /\ reserve' = reserve /\ totalLocked' = totalLocked /\ vaultFunds' = vaultFunds
  BY DEF AccrueInterest, NoteYield, SameSettings
<1>2. /\ Earned(v) \in Nat /\ x \in VaultRecord
      /\ x.balance = vaults[v].balance /\ x.since = now
      /\ (story[v].credited + Earned(v)) * RateUnit
             <= story[v].deposit * MaxRate * (now - story[v].since)
  BY <1>1, AccruedEarns
<1>3. /\ vaults[v] \in VaultRecord /\ story[v] \in StoryRecord
      /\ Earns(vaults[v], story[v], now) /\ now \in Nat
      /\ opened \in 0..MaxVaults /\ opened \in Nat /\ reserve \in Nat
      /\ totalLocked \in Nat /\ vaultFunds \in Nat /\ vaultFunds >= totalLocked + reserve
  BY SavingsFacts
<1>4. /\ st \in StoryRecord /\ st.deposit = story[v].deposit /\ st.since = story[v].since
      /\ st.credited = story[v].credited + Earned(v)
  BY <1>2, <1>3, NotedYield
<1>5. v <= opened
  BY <1>1, OpenExists
<1> HIDE DEF x, st
<1>6. Earns(x, st, now)
  BY <1>2, <1>3, <1>4 DEF Earns
<1>7. vaults[v].balance \in Nat
  BY <1>3, VaultFields
<1>8. totalLocked' = (totalLocked - vaults[v].balance) + x.balance
  BY <1>1, <1>2, <1>3, <1>7
<1>9. opened' \in 0..MaxVaults /\ opened <= opened' /\ v <= opened'
  BY <1>1, <1>3, <1>5
<1>10. reserve' \in Nat /\ vaultFunds' \in Nat /\ vaultFunds' >= totalLocked' + reserve'
  BY <1>1, <1>3
<1>11. QED
  BY <1>1, <1>2, <1>4, <1>6, <1>8, <1>9, <1>10, VaultStep

\* What is left of a vault, and of the money, after a withdrawal.
LEMMA WithdrawStep ==
    ASSUME SavingsInv, NEW v \in VaultIds, NEW sum \in TakenSums, WithdrawFrom(v, sum)
    PROVE  SavingsInv'
<1> DEFINE fine == IF now < vaults[v].unlock THEN (sum * Penalty) \div 10000 ELSE 0
           net == sum - fine
           a == Accrued(v)
           owing == (a.accrued * sum) \div vaults[v].balance
           earned == Smaller(owing, reserve)
           left == [a EXCEPT !.balance = @ - sum, !.accrued = @ - earned]
           x == IF left.balance = 0 /\ left.accrued = 0 THEN NoVault ELSE left
           st == [story[v] EXCEPT !.credited = @ + Earned(v)]
<1>1. /\ IsOpen(v) /\ sum <= vaults[v].balance /\ fine <= sum
      /\ vaults' = [vaults EXCEPT ![v] = x]
      /\ story' = [story EXCEPT ![v] = st]
      /\ net + earned <= vaultFunds /\ vaultFunds' = vaultFunds - net - earned
      /\ reserve' = reserve - earned /\ totalLocked' = totalLocked - sum
      /\ now' = now /\ rate' = rate /\ emergency' = emergency /\ opened' = opened
  BY DEF WithdrawFrom, SettleInterest, NoteYield, SameSettings
<1>2. /\ Earned(v) \in Nat /\ a \in VaultRecord
      /\ a.balance = vaults[v].balance /\ a.since = now
      /\ (story[v].credited + Earned(v)) * RateUnit
             <= story[v].deposit * MaxRate * (now - story[v].since)
  BY <1>1, AccruedEarns
<1>3. /\ vaults[v] \in VaultRecord /\ story[v] \in StoryRecord
      /\ Earns(vaults[v], story[v], now) /\ now \in Nat
      /\ opened \in 0..MaxVaults /\ opened \in Nat /\ reserve \in Nat
      /\ totalLocked \in Nat /\ vaultFunds \in Nat /\ vaultFunds >= totalLocked + reserve
  BY SavingsFacts
<1>4. /\ st \in StoryRecord /\ st.deposit = story[v].deposit /\ st.since = story[v].since
      /\ st.credited = story[v].credited + Earned(v)
  BY <1>2, <1>3, NotedYield
<1>5. sum \in Nat /\ sum > 0 /\ Penalty \in Nat
  BY SavingsConstants
<1>6. fine \in Nat /\ fine <= sum
  <2>1. sum * Penalty \in Nat
    BY <1>5
  <2>2. (sum * Penalty) \div 10000 \in Nat
    BY <2>1
  <2> DEFINE q == (sum * Penalty) \div 10000
  <2> HIDE DEF q
  <2>3. QED
    BY <1>1, <2>2 DEF q
<1> HIDE DEF fine, a
<1>7. a.accrued \in Nat /\ a.balance \in Nat /\ vaults[v].balance \in Nat
  BY <1>2, <1>3, VaultFields
<1>8. owing \in Nat /\ owing <= a.accrued
  <2>1. vaults[v].balance > 0
    BY <1>1, <1>5, <1>7
  <2>2. QED
    BY <1>1, <1>5, <1>7, <2>1, ShareBound
<1> HIDE DEF owing
<1>9. earned \in Nat /\ earned <= reserve /\ earned <= a.accrued
  BY <1>3, <1>7, <1>8 DEF Smaller
<1> HIDE DEF earned
<1>10. /\ left \in VaultRecord /\ left.balance = a.balance - sum /\ left.since = now
  <2>1. a.balance - sum \in Nat /\ a.accrued - earned \in Nat
    BY <1>1, <1>2, <1>5, <1>7, <1>9
  <2>2. QED
    BY <1>2, <2>1 DEF VaultRecord
<1>11. NoVault \in VaultRecord /\ NoVault.balance = 0
  BY DEF NoVault, VaultRecord
<1> HIDE DEF left
<1>12. /\ x \in VaultRecord /\ x.balance = vaults[v].balance - sum
       /\ x # NoVault => x.since = now
  BY <1>2, <1>10, <1>11
<1> HIDE DEF x, st
<1>13. Earns(x, st, now)
  <2>1. x.balance <= st.deposit
    <3>1. vaults[v].balance <= story[v].deposit /\ story[v].deposit \in Nat
      BY <1>3, StoryFields DEF Earns
    <3>2. QED
      BY <1>4, <1>5, <1>7, <1>12, <3>1
  <2>2. st.since <= now /\ st.since \in Nat
    BY <1>3, <1>4, StoryFields DEF Earns
  <2>3. st.credited * RateUnit <= st.deposit * MaxRate * (now - st.since)
    BY <1>2, <1>4
  <2>4. QED
    BY <1>3, <1>12, <2>1, <2>2, <2>3 DEF Earns
<1>14. totalLocked' = (totalLocked - vaults[v].balance) + x.balance
  BY <1>1, <1>3, <1>5, <1>7, <1>12
<1>15. v <= opened
  BY <1>1, OpenExists
<1>16. opened' \in 0..MaxVaults /\ opened <= opened' /\ v <= opened'
  BY <1>1, <1>3, <1>15
<1>17. reserve' \in Nat /\ vaultFunds' \in Nat /\ vaultFunds' >= totalLocked' + reserve'
  BY <1>1, <1>3, <1>5, <1>6, <1>9
<1>18. QED
  BY <1>1, <1>4, <1>12, <1>13, <1>14, <1>16, <1>17, VaultStep

\* Closing a saver's vaults takes their principal out of the sum, and no more
\* interest than there is in the reserve.
LEMMA CloseStep ==
    ASSUME SavingsInv, NEW u \in Savers, CloseAll(u)
    PROVE  SavingsInv'
<1> DEFINE mine == {v \in VaultIds : IsOpen(v) /\ vaults[v].owner = u}
           f == [v \in VaultIds |-> IF v \in mine THEN vaults[v].balance ELSE 0]
           g == [v \in VaultIds |-> IF v \in mine THEN Accrued(v).accrued ELSE 0]
           principal == Total(f, MaxVaults)
           owing == Total(g, MaxVaults)
           earned == Smaller(owing, reserve)
           told(v) == [story[v] EXCEPT !.credited = @ + Earned(v)]
<1>1. /\ principal + earned <= vaultFunds
      /\ vaults' = [v \in VaultIds |-> IF v \in mine THEN NoVault ELSE vaults[v]]
      /\ story' = [v \in VaultIds |-> IF v \in mine THEN told(v) ELSE story[v]]
      /\ reserve' = reserve - earned /\ totalLocked' = totalLocked - principal
      /\ vaultFunds' = vaultFunds - principal - earned
      /\ now' = now /\ opened' = opened /\ rate' = rate /\ emergency' = emergency
  BY DEF CloseAll, SameSettings
<1>2. /\ vaults \in [VaultIds -> VaultRecord] /\ story \in [VaultIds -> StoryRecord]
      /\ opened \in 0..MaxVaults /\ rate \in 0..MaxRate /\ ClockTypeOK
      /\ emergency \in [announced : Alarm, activated : Alarm]
      /\ reserve \in Nat /\ totalLocked \in Nat /\ vaultFunds \in Nat
      /\ totalLocked = Total(Principals, MaxVaults)
      /\ vaultFunds >= totalLocked + reserve
  BY DEF SavingsInv, SavingsTypeOK, SavingsCovered
<1>3. MaxVaults \in Nat /\ VaultIds = 1..MaxVaults
  BY SavingsConstants DEF VaultIds
<1>4. NoVault \in VaultRecord /\ NoVault.balance = 0
  BY DEF NoVault, VaultRecord
<1>5. ASSUME NEW v \in VaultIds, v \in mine
      PROVE  /\ told(v) \in StoryRecord /\ Earns(NoVault, told(v), now)
             /\ Accrued(v).accrued \in Nat
  <2> DEFINE n == told(v)
  <2>1. /\ Earned(v) \in Nat /\ Accrued(v) \in VaultRecord
        /\ (story[v].credited + Earned(v)) * RateUnit
               <= story[v].deposit * MaxRate * (now - story[v].since)
    BY <1>5, AccruedEarns
  <2>2. story[v] \in StoryRecord /\ Earns(vaults[v], story[v], now)
    BY SavingsFacts
  <2>3. /\ n \in StoryRecord /\ n.deposit = story[v].deposit /\ n.since = story[v].since
        /\ n.credited = story[v].credited + Earned(v)
    BY <2>1, <2>2, NotedYield
  <2>4. n.deposit \in Nat
    BY <2>3, StoryFields
  <2> HIDE DEF n
  <2>5. Earns(NoVault, n, now)
    BY <1>4, <2>1, <2>2, <2>3, <2>4 DEF Earns
  <2>6. Accrued(v).accrued \in Nat
    BY <2>1, VaultFields
  <2>7. QED
    BY <2>3, <2>5, <2>6 DEF n
<1>6. principal \in Nat /\ owing \in Nat
  <2>1. \A v \in 1..MaxVaults : f[v] \in Nat
    BY <1>2, <1>3, VaultFields
  <2>2. \A v \in 1..MaxVaults : g[v] \in Nat
    BY <1>3, <1>5
  <2> HIDE DEF f, g
  <2>3. QED
    BY <1>3, <2>1, <2>2, TotalNat
<1> HIDE DEF told, owing
<1>7. earned \in Nat /\ earned <= reserve
  BY <1>2, <1>6 DEF Smaller
<1>8. Total(Principals, MaxVaults) = Total(Principals', MaxVaults) + principal
      /\ Total(Principals', MaxVaults) \in Nat
  <2> DEFINE p == Principals
             q == Principals'
  <2>1. \A v \in 1..MaxVaults : /\ p[v] = vaults[v].balance /\ q[v] = vaults'[v].balance
                                /\ p[v] \in Nat
    BY <1>2, <1>3, VaultFields DEF Principals
  <2>2. ASSUME NEW v \in 1..MaxVaults
        PROVE  q[v] \in Nat /\ f[v] \in Nat /\ p[v] = q[v] + f[v]
    <3>1. CASE v \in mine
      <4>1. vaults'[v] = NoVault /\ f[v] = p[v]
        BY <1>1, <1>3, <2>1, <3>1
      <4>2. QED
        BY <1>4, <2>1, <4>1
    <3>2. CASE v \notin mine
      <4>1. vaults'[v] = vaults[v] /\ f[v] = 0
        BY <1>1, <1>3, <3>2
      <4>2. QED
        BY <2>1, <4>1
    <3>3. QED
      BY <3>1, <3>2
  <2> HIDE DEF p, q, f
  <2>3. Total(p, MaxVaults) = Total(q, MaxVaults) + Total(f, MaxVaults)
    BY <1>3, <2>2, TotalOfParts
  <2>4. Total(q, MaxVaults) \in Nat
    BY <1>3, <2>2, TotalNat
  <2>5. QED
    BY <2>3, <2>4 DEF p, q
<1> HIDE DEF principal, earned
<1>9. totalLocked' = Total(Principals', MaxVaults) /\ totalLocked' \in Nat
  <2> DEFINE a == Total(Principals, MaxVaults)
             b == Total(Principals', MaxVaults)
  <2>1. a = b + principal /\ b \in Nat /\ totalLocked' = a - principal
    BY <1>1, <1>2, <1>8
  <2> HIDE DEF a, b
  <2>2. totalLocked' = b
    BY <1>6, <2>1
  <2>3. QED
    BY <2>1, <2>2 DEF b
<1>10. reserve' \in Nat /\ vaultFunds' \in Nat /\ vaultFunds' >= totalLocked' + reserve'
  BY <1>1, <1>2, <1>6, <1>7, <1>9
<1>11. \A v \in VaultIds :
          \/ v \in mine /\ vaults'[v] = NoVault /\ story'[v] = told(v)
          \/ vaults'[v] = vaults[v] /\ story'[v] = story[v]
  BY <1>1
<1>12. vaults' \in [VaultIds -> VaultRecord] /\ story' \in [VaultIds -> StoryRecord]
  <2>1. \A v \in VaultIds : vaults'[v] \in VaultRecord /\ story'[v] \in StoryRecord
    BY <1>2, <1>4, <1>5, <1>11
  <2>2. vaults' = [v \in VaultIds |-> vaults'[v]] /\ story' = [v \in VaultIds |-> story'[v]]
    BY <1>1
  <2>3. QED
    BY <2>1, <2>2
<1>13. SavingsTypeOK'
  BY <1>1, <1>2, <1>9, <1>10, <1>12 DEF SavingsTypeOK, ClockTypeOK
<1>14. \A v \in VaultIds : Earns(vaults'[v], story'[v], now')
  BY <1>1, <1>5, <1>11 DEF SavingsInv
<1>15. FreshVaults'
  BY <1>1, <1>11 DEF SavingsInv, FreshVaults
<1>16. SavingsCovered'
  BY <1>9, <1>10 DEF SavingsCovered
<1>17. \A v \in VaultIds : IsOpen(v)' => IsOpen(v) /\ story'[v] = story[v]
  BY <1>11 DEF IsOpen
<1>18. Warns(emergency.announced)' /\ Warns(emergency.activated)'
  BY <1>1, <1>17 DEF SavingsInv, Warns
<1>19. QED
  BY <1>13, <1>14, <1>15, <1>16, <1>18 DEF SavingsInv

\* What changes no vault: the money grows in step, the rate stays below its
\* maximum, and an emergency starts now or ends.
LEMMA SettingsStep ==
    ASSUME SavingsInv, SameVaults, now' = now,
           rate' \in 0..MaxRate, reserve' \in Nat, vaultFunds' \in Nat,
           vaultFunds' >= totalLocked + reserve',
           emergency' \in [announced : Alarm, activated : Alarm],
           \/ emergency'.announced = emergency.announced
           \/ emergency'.announced \in {Calm, [on |-> TRUE, at |-> now]},
           \/ emergency'.activated = emergency.activated
           \/ emergency'.activated \in {Calm, [on |-> TRUE, at |-> now]}
    PROVE  SavingsInv'
<1>1. vaults' = vaults /\ opened' = opened /\ totalLocked' = totalLocked /\ story' = story
  BY DEF SameVaults
<1>2. SavingsTypeOK'
  BY <1>1 DEF SavingsInv, SavingsTypeOK, ClockTypeOK
<1>3. FreshVaults' /\ \A v \in VaultIds : Earns(vaults'[v], story'[v], now')
  BY <1>1 DEF SavingsInv, FreshVaults
<1>4. SavingsCovered'
  <2>1. Principals' = Principals
    BY <1>1 DEF Principals
  <2>2. QED
    BY <1>1, <2>1 DEF SavingsInv, SavingsCovered
<1>5. \A v \in VaultIds : (IsOpen(v)' <=> IsOpen(v)) /\ story'[v] = story[v]
  BY <1>1 DEF IsOpen
<1>6. Calm.on = FALSE /\ now \in Nat
      /\ \A v \in VaultIds : story[v].since \in Nat /\ story[v].since <= now
  <2>1. \A v \in VaultIds : story[v].since \in Nat
    BY StoryFields DEF SavingsInv, SavingsTypeOK
  <2>2. now \in Nat
    BY MaxTimeAssumption DEF SavingsInv, SavingsTypeOK, ClockTypeOK
  <2>3. QED
    BY <2>1, <2>2 DEF SavingsInv, Earns, Calm
<1>7. \A alarm \in {Calm, [on |-> TRUE, at |-> now]} : Warns(alarm)
  BY <1>6 DEF Warns
<1>8. Warns(emergency'.announced) /\ Warns(emergency'.activated)
  BY <1>7 DEF SavingsInv
<1>9. Warns(emergency.announced)' /\ Warns(emergency.activated)'
  BY <1>5, <1>8 DEF Warns
<1>10. QED
  BY <1>2, <1>3, <1>4, <1>9 DEF SavingsInv

LEMMA AdminSteps ==
    ASSUME SavingsInv,
           \/ \E bps \in Rates : SetInterestRate(bps)
           \/ \E sum \in FundingSums : FundReserve(sum) \/ DistributeYield(sum)
           \/ \E min \in MinLocks : SetBounds(min, DefaultMaxLock)
           \/ \E kind \in {"announced", "activated"} : Announce(kind) \/ TakeBack(kind)
    PROVE  SavingsInv'
<1>1. /\ reserve \in Nat /\ totalLocked \in Nat /\ vaultFunds \in Nat
      /\ vaultFunds >= totalLocked + reserve /\ rate \in 0..MaxRate
      /\ emergency \in [announced : Alarm, activated : Alarm] /\ now \in Nat
      /\ MaxRate \in Nat
  BY MaxTimeAssumption, SavingsConstants
     DEF SavingsInv, SavingsTypeOK, SavingsCovered, ClockTypeOK
<1>2. ASSUME NEW bps \in Rates, SetInterestRate(bps) PROVE SavingsInv'
  <2>1. bps \in 0..MaxRate
    BY <1>2, SavingsConstants DEF SetInterestRate
  <2>2. /\ SameVaults /\ now' = now /\ rate' \in 0..MaxRate /\ reserve' = reserve
        /\ vaultFunds' = vaultFunds /\ emergency' = emergency
    BY <1>2, <2>1 DEF SetInterestRate
  <2>3. QED
    BY <1>1, <2>2, SettingsStep
<1>3. ASSUME NEW sum \in FundingSums, FundReserve(sum) \/ DistributeYield(sum)
      PROVE  SavingsInv'
  <2>1. sum \in Nat
    BY SavingsConstants
  <2>2. /\ SameVaults /\ now' = now /\ rate' = rate /\ emergency' = emergency
        /\ vaultFunds' = vaultFunds + sum /\ reserve' \in {reserve, reserve + sum}
    BY <1>3 DEF FundReserve, DistributeYield, SameSettings
  <2>3. reserve' \in Nat /\ vaultFunds' \in Nat /\ vaultFunds' >= totalLocked + reserve'
    <3>1. CASE reserve' = reserve
      BY <1>1, <2>1, <2>2, <3>1
    <3>2. CASE reserve' = reserve + sum
      BY <1>1, <2>1, <2>2, <3>2
    <3>3. QED
      BY <2>2, <3>1, <3>2
  <2>4. QED
    BY <1>1, <2>2, <2>3, SettingsStep
<1>4. ASSUME NEW min \in MinLocks, SetBounds(min, DefaultMaxLock) PROVE SavingsInv'
  <2>1. /\ SameVaults /\ now' = now /\ rate' = rate /\ reserve' = reserve
        /\ vaultFunds' = vaultFunds /\ emergency' = emergency
    BY <1>4 DEF SetBounds
  <2>2. QED
    BY <1>1, <2>1, SettingsStep
<1>5. ASSUME NEW kind \in {"announced", "activated"}, Announce(kind) \/ TakeBack(kind)
      PROVE  SavingsInv'
  <2>1. PICK alarm \in {Calm, [on |-> TRUE, at |-> now]} :
           emergency' = [emergency EXCEPT ![kind] = alarm]
    BY <1>5 DEF Announce, TakeBack, Declares
  <2>2. /\ SameVaults /\ now' = now /\ rate' = rate /\ reserve' = reserve
        /\ vaultFunds' = vaultFunds
    BY <1>5 DEF Announce, TakeBack, Declares
  <2>3. alarm \in Alarm
    <3>1. Calm \in Alarm /\ [on |-> TRUE, at |-> now] \in Alarm
      BY <1>1 DEF Calm, Alarm
    <3>2. QED
      BY <2>1, <3>1
  <2>4. /\ emergency' \in [announced : Alarm, activated : Alarm]
        /\ emergency'.announced = emergency.announced \/ emergency'.announced = alarm
        /\ emergency'.activated = emergency.activated \/ emergency'.activated = alarm
    <3>1. CASE kind = "announced"
      BY <1>1, <2>1, <2>3, <3>1
    <3>2. CASE kind = "activated"
      BY <1>1, <2>1, <2>3, <3>2
    <3>3. QED
      BY <3>1, <3>2
  <2>5. QED
    BY <1>1, <2>1, <2>2, <2>4, SettingsStep
<1>6. QED
  BY <1>2, <1>3, <1>4, <1>5

\* Time only makes room.
LEMMA TimeStep ==
    ASSUME SavingsInv, UNCHANGED vaultVars, now' \in {now, now + 1}, ClockTypeOK'
    PROVE  SavingsInv'
<1>1. /\ vaults' = vaults /\ opened' = opened /\ rate' = rate /\ reserve' = reserve
      /\ totalLocked' = totalLocked /\ emergency' = emergency
      /\ vaultFunds' = vaultFunds /\ story' = story
  BY DEF vaultVars
<1>2. SavingsTypeOK' /\ FreshVaults'
  BY <1>1 DEF SavingsInv, SavingsTypeOK, FreshVaults
<1>3. SavingsCovered'
  <2>1. Principals' = Principals
    BY <1>1 DEF Principals
  <2>2. QED
    BY <1>1, <2>1 DEF SavingsInv, SavingsCovered
<1>4. ASSUME NEW v \in VaultIds PROVE Earns(vaults[v], story[v], now')
  <2> DEFINE x == vaults[v]
             st == story[v]
             k == st.deposit * MaxRate
  <2>1. /\ x \in VaultRecord /\ st \in StoryRecord /\ Earns(x, st, now) /\ now \in Nat
        /\ MaxRate \in Nat /\ RateUnit \in Nat
    BY SavingsFacts
  <2>2. st.deposit \in Nat /\ st.since \in Nat /\ st.credited \in Nat /\ x.since \in Nat
    BY <2>1, VaultFields, StoryFields
  <2>3. st.since <= now /\ st.credited * RateUnit <= k * (now - st.since) /\ k \in Nat
    BY <2>1, <2>2, FactorsGrow DEF Earns
  <2>4. now - st.since \in Nat /\ now' - st.since \in Nat /\ now' \in Nat
        /\ now - st.since <= now' - st.since
    BY <2>1, <2>2, <2>3
  <2> DEFINE d == now - st.since
             e == now' - st.since
  <2>5. k * d \in Nat /\ k * e \in Nat /\ k * d <= k * e
    <3>1. d \in Nat /\ e \in Nat /\ d <= e /\ k <= k
      BY <2>3, <2>4
    <3> HIDE DEF d, e, k
    <3>2. QED
      BY <2>3, <3>1, FactorsGrow
  <2>6. st.credited * RateUnit \in Nat
    BY <2>1, <2>2
  <2> DEFINE a == st.credited * RateUnit
             b == k * d
             c == k * e
  <2>7. a \in Nat /\ b \in Nat /\ c \in Nat /\ a <= b /\ b <= c
    BY <2>3, <2>5, <2>6
  <2>8. a <= c
    <3> HIDE DEF a, b, c
    <3>1. QED BY <2>7
  <2>9. st.credited * RateUnit <= k * (now' - st.since)
    BY <2>8
  <2>10. st.since <= now'
    BY <2>1, <2>2, <2>3
  <2>11. x # NoVault => x.since <= now'
    BY <2>1, <2>2 DEF Earns
  <2> HIDE DEF x, st
  <2>12. Earns(x, st, now')
    BY <2>1, <2>9, <2>10, <2>11 DEF Earns, k
  <2>13. QED
    BY <2>12 DEF x, st
<1>5. ASSUME NEW alarm \in Alarm, Warns(alarm)
      PROVE  alarm.on => /\ alarm.at <= now'
                         /\ \A v \in VaultIds : IsOpen(v)' => story'[v].since <= alarm.at
  <2>1. now \in Nat /\ alarm.at \in Nat
    BY MaxTimeAssumption DEF SavingsInv, SavingsTypeOK, ClockTypeOK, Alarm
  <2>2. QED
    BY <1>1, <1>5, <2>1 DEF Warns, IsOpen
<1>6. emergency.announced \in Alarm /\ emergency.activated \in Alarm
  BY DEF SavingsInv, SavingsTypeOK
<1>7. Warns(emergency.announced)' /\ Warns(emergency.activated)'
  BY <1>1, <1>5, <1>6 DEF SavingsInv, Warns
<1>8. QED
  BY <1>1, <1>2, <1>3, <1>4, <1>7 DEF SavingsInv

LEMMA SavingsNextInv ==
    ASSUME SavingsInv, [SavingsNext]_savingsVars
    PROVE  SavingsInv'
<1>1. CASE \E u \in Savers, sum \in SavedSums, lock \in Locks : OpenVault(u, sum, lock)
  BY <1>1, OpenStep
<1>2. CASE \E u \in Savers : CloseAll(u)
  BY <1>2, CloseStep
<1>3. CASE \E v \in VaultIds, sum \in TakenSums : WithdrawFrom(v, sum)
  BY <1>3, WithdrawStep
<1>4. CASE \E v \in VaultIds : AccrueInterest(v)
  BY <1>4, AccrueStep
<1>5. CASE Tick /\ UNCHANGED vaultVars
  <2>1. now' \in {now, now + 1} /\ ClockTypeOK'
    BY <1>5, MaxTimeAssumption DEF SavingsInv, SavingsTypeOK, ClockTypeOK, Tick
  <2>2. QED
    BY <1>5, <2>1, TimeStep
<1>6. CASE UNCHANGED savingsVars
  <2>1. UNCHANGED vaultVars /\ now' = now
    BY <1>6 DEF savingsVars
  <2>2. now' \in {now, now + 1} /\ ClockTypeOK'
    BY <2>1 DEF SavingsInv, SavingsTypeOK, ClockTypeOK
  <2>3. QED
    BY <2>1, <2>2, TimeStep
<1>7. QED
  BY <1>1, <1>2, <1>3, <1>4, <1>5, <1>6, AdminSteps DEF SavingsNext

LEMMA SavingsInvariant == SavingsSpec => []SavingsInv
<1>1. SavingsInit => SavingsInv
  BY SavingsInitInv
<1>2. SavingsInv /\ [SavingsNext]_savingsVars => SavingsInv'
  BY SavingsNextInv
<1>3. QED
  BY <1>1, <1>2, PTL DEF SavingsSpec

\* However interest is accrued, rates are changed, vaults are emptied in parts
\* and emergencies are declared, taken back and carried out: the contract can
\* pay every principal and its reserve, no second earns twice, and no vault is
\* closed that was not open for the 48 hours of the warning (withdraw,
\* accrue_interest_internal, close_all_vaults).
THEOREM SavingsAlwaysSafe == SavingsSpec => []SavingsSafe
<1>1. SavingsInv => SavingsSafe
  <2>1. SUFFICES ASSUME SavingsInv PROVE SavingsSafe
    OBVIOUS
  <2>2. SavingsCovered
    BY <2>1 DEF SavingsInv
  <2>3. InterestCountedOnce
    BY <2>1 DEF SavingsInv, Earns, InterestCountedOnce
  <2>4. DepositorsWarned
    <3>1. SUFFICES ASSUME NEW v \in VaultIds, IsOpen(v),
                          NEW kind \in {"announced", "activated"}, Over(kind)
                   PROVE  story[v].since + EmergencyDelay <= now
      BY DEF DepositorsWarned
    <3> DEFINE alarm == emergency[kind]
    <3>2. Warns(alarm) /\ alarm.at \in Nat
      BY <2>1 DEF SavingsInv, SavingsTypeOK, Alarm
    <3>3. alarm.on /\ now >= alarm.at + EmergencyDelay
      BY <3>1 DEF Over
    <3>4. now \in Nat /\ EmergencyDelay \in Nat /\ story[v].since \in Nat
      BY <2>1, MaxTimeAssumption, SavingsConstants, StoryFields
         DEF SavingsInv, SavingsTypeOK, ClockTypeOK
    <3> HIDE DEF alarm
    <3>5. story[v].since <= alarm.at
      BY <3>1, <3>2, <3>3 DEF Warns
    <3>6. QED
      BY <3>2, <3>3, <3>4, <3>5
  <2>5. QED
    BY <2>2, <2>3, <2>4 DEF SavingsSafe
<1>2. QED
  BY <1>1, SavingsInvariant, PTL
-----------------------------------------------------------------------------
(* Confirmations.                                                          *)

\* What a worker was told of a payment, and what it writes, is what happened
\* unless the payment is one that a node did not know in time.
Truthful(p, how) ==
    /\ how \in {"successful", "completed"} => outcomes[p] = "successful"
    /\ how \in {"unsuccessful", "failed"} => outcomes[p] = "unsuccessful" \/ p \in unknown

ConfirmInv ==
    /\ ConfirmTypeOK
    /\ \A p \in Payments :
          /\ statuses[p] = "none" <=> outcomes[p] = "none"
          /\ Truthful(p, statuses[p])
    /\ \A w \in Workers :
          /\ \A p \in batches[w] : statuses[p] # "none"
          /\ lookups[w] # "none" => batches[w] # {} /\ Truthful(Row(w), lookups[w])

LEMMA Smallest ==
    ASSUME NEW T, T \subseteq Nat, T # {}
    PROVE  \E x \in T : \A y \in T : x <= y
<1>1. PICK x \in T : \A y \in T : ~ (<<y, x>> \in OpToRel(<, Nat))
  BY NatLessThanWellFounded, WFMin
<1>2. ASSUME NEW y \in T PROVE x <= y
  <2>1. x \in Nat /\ y \in Nat
    OBVIOUS
  <2>2. ~(y < x)
    BY <1>1, <2>1 DEF OpToRel
  <2> QED
    BY <2>1, <2>2
<1> QED
  BY <1>2

LEMMA RowInBatch ==
    ASSUME ConfirmInv, NEW w \in Workers, batches[w] # {}
    PROVE  /\ Row(w) \in batches[w] /\ Row(w) \in Payments /\ statuses[Row(w)] # "none"
           /\ outcomes[Row(w)] # "none"
<1>1. batches[w] \subseteq Payments /\ Payments \subseteq Nat
  BY DEF ConfirmInv, ConfirmTypeOK, Payments
<1>2. \E p \in batches[w] : \A q \in batches[w] : p <= q
  BY <1>1, Smallest
<1>3. Row(w) \in batches[w]
  BY <1>2 DEF Row
<1> QED
  BY <1>1, <1>3 DEF ConfirmInv

\* A step that changes neither outcomes nor statuses: it reads a batch, asks
\* for a row of one, or gives one up.
LEMMA WorkerStep ==
    ASSUME ConfirmInv, NEW w \in Workers, NEW batch, NEW lookup,
           batch \subseteq Payments, \A p \in batch : statuses[p] # "none",
           batches' = [batches EXCEPT ![w] = batch],
           lookup \in {"none", "successful", "unsuccessful"},
           lookups' = [lookups EXCEPT ![w] = lookup],
           lookup # "none" => batch = batches[w] /\ batch # {},
           unknown \subseteq unknown', unknown' \subseteq lapsed,
           lookup = "successful" => outcomes[Row(w)] = "successful",
           lookup = "unsuccessful" =>
              outcomes[Row(w)] = "unsuccessful" \/ Row(w) \in unknown',
           errors' \in 0..MaxErrors,
           UNCHANGED outcomes, UNCHANGED statuses, UNCHANGED lapsed
    PROVE  ConfirmInv'
<1>1. ConfirmTypeOK /\ ConfirmTypeOK'
  BY DEF ConfirmInv, ConfirmTypeOK
<1>2. \A p \in Payments : /\ statuses'[p] = "none" <=> outcomes'[p] = "none"
                          /\ Truthful(p, statuses[p])'
  BY <1>1 DEF ConfirmInv, Truthful
<1>3. ASSUME NEW v \in Workers
      PROVE  /\ \A p \in batches'[v] : statuses'[p] # "none"
             /\ lookups'[v] # "none" => batches'[v] # {} /\ Truthful(Row(v), lookups[v])'
  <2>1. CASE v # w
    <3>1. batches'[v] = batches[v] /\ lookups'[v] = lookups[v]
      BY <1>1, <2>1 DEF ConfirmTypeOK
    <3>2. Row(v)' = Row(v)
      BY <3>1 DEF Row
    <3>3. lookups[v] # "none" => batches[v] # {} /\ Truthful(Row(v), lookups[v])
      BY DEF ConfirmInv
    <3> QED
      BY <3>1, <3>2, <3>3 DEF ConfirmInv, Truthful
  <2>2. CASE v = w
    <3>1. batches'[v] = batch /\ lookups'[v] = lookup
      BY <1>1, <2>2 DEF ConfirmTypeOK
    <3>2. lookup # "none" => Row(v)' = Row(w)
      BY <2>2, <3>1 DEF Row
    <3> QED
      BY <2>2, <3>1, <3>2 DEF Truthful
  <2> QED
    BY <2>1, <2>2
<1> QED
  BY <1>1, <1>2, <1>3 DEF ConfirmInv

LEMMA ErrCounts ==
    ASSUME ConfirmInv PROVE (Err \/ UNCHANGED errors) => errors' \in 0..MaxErrors
BY ConfirmationConstants DEF Err, ConfirmInv, ConfirmTypeOK

LEMMA RecordPaymentKeeps ==
    ASSUME ConfirmInv, NEW p \in Payments, RecordPayment(p)
    PROVE  ConfirmInv'
<1>1. ConfirmTypeOK
  BY DEF ConfirmInv
<1>2. Payments \subseteq Int
  BY DEF Payments
<1>3. statuses[p] = "none" /\ outcomes[p] = "none"
  BY <1>2 DEF ConfirmInv, RecordPayment
<1>4. PICK how \in {"successful", "unsuccessful"} :
         /\ outcomes' = [outcomes EXCEPT ![p] = how]
         /\ statuses' = [statuses EXCEPT ![p] = "confirming"]
         /\ UNCHANGED <<lapsed, batches, lookups, unknown, errors>>
  BY DEF RecordPayment
<1>5. ConfirmTypeOK'
  BY <1>1, <1>4 DEF ConfirmTypeOK
<1>6. ASSUME NEW q \in Payments, NEW told, Truthful(q, told), q # p
      PROVE  Truthful(q, told)'
  BY <1>1, <1>4, <1>6 DEF Truthful, ConfirmTypeOK
<1>7. \A q \in Payments : /\ statuses'[q] = "none" <=> outcomes'[q] = "none"
                          /\ Truthful(q, statuses[q])'
  <2> SUFFICES ASSUME NEW q \in Payments
               PROVE  /\ statuses'[q] = "none" <=> outcomes'[q] = "none"
                      /\ Truthful(q, statuses[q])'
    OBVIOUS
  <2>1. CASE q = p
    BY <1>1, <1>4, <2>1 DEF ConfirmTypeOK, Truthful
  <2>2. CASE q # p
    BY <1>1, <1>4, <2>2 DEF ConfirmInv, ConfirmTypeOK, Truthful
  <2> QED
    BY <2>1, <2>2
<1>8. ASSUME NEW v \in Workers
      PROVE  /\ \A q \in batches'[v] : statuses'[q] # "none"
             /\ lookups'[v] # "none" => batches'[v] # {} /\ Truthful(Row(v), lookups[v])'
  <2>1. \A q \in batches[v] : q # p /\ statuses[q] # "none" /\ q \in Payments
    BY <1>1, <1>3 DEF ConfirmInv, ConfirmTypeOK
  <2>2. \A q \in batches'[v] : statuses'[q] # "none"
    BY <1>1, <1>4, <2>1 DEF ConfirmTypeOK
  <2>3. ASSUME lookups[v] # "none" PROVE batches[v] # {} /\ Truthful(Row(v), lookups[v])'
    <3>1. batches[v] # {} /\ Truthful(Row(v), lookups[v])
      BY <2>3 DEF ConfirmInv
    <3>2. Row(v) \in batches[v] /\ Row(v)' = Row(v) /\ lookups'[v] = lookups[v]
      BY <1>4, <3>1, RowInBatch DEF Row
    <3>3. Row(v) # p /\ Row(v) \in Payments
      BY <2>1, <3>2
    <3> QED
      BY <1>1, <1>4, <3>1, <3>2, <3>3 DEF Truthful, ConfirmTypeOK
  <2> QED
    BY <1>4, <2>2, <2>3
<1> QED
  BY <1>5, <1>7, <1>8 DEF ConfirmInv

LEMMA LapseKeeps ==
    ASSUME ConfirmInv, NEW p \in Payments, Lapse(p)
    PROVE  ConfirmInv'
<1>1. /\ UNCHANGED outcomes /\ UNCHANGED statuses /\ UNCHANGED batches
      /\ UNCHANGED lookups /\ UNCHANGED unknown /\ UNCHANGED errors
      /\ lapsed' = lapsed \cup {p}
  BY DEF Lapse
<1>2. ConfirmTypeOK'
  BY <1>1 DEF ConfirmInv, ConfirmTypeOK
<1>3. \A v \in Workers : Row(v)' = Row(v)
  BY <1>1 DEF Row
<1> QED
  BY <1>1, <1>2, <1>3 DEF ConfirmInv, Truthful

LEMMA ReadBatchKeeps ==
    ASSUME ConfirmInv, NEW w \in Workers, ReadBatch(w)
    PROVE  ConfirmInv'
<1>1. PICK batch : batch = Oldest(Confirming)
  OBVIOUS
<1>2. batch \subseteq Payments /\ \A p \in batch : statuses[p] # "none"
  BY <1>1 DEF Oldest, Confirming
<1>3. /\ batches' = [batches EXCEPT ![w] = batch]
      /\ UNCHANGED lookups /\ UNCHANGED unknown /\ UNCHANGED errors
      /\ UNCHANGED outcomes /\ UNCHANGED statuses /\ UNCHANGED lapsed
  BY <1>1 DEF ReadBatch, Fixed
<1>4. lookups[w] = "none"
  BY DEF ConfirmInv, ReadBatch
<1>5. lookups' = [lookups EXCEPT ![w] = "none"]
  BY <1>3, <1>4 DEF ConfirmInv, ConfirmTypeOK
<1>6. unknown' \subseteq lapsed /\ errors' \in 0..MaxErrors
  BY <1>3 DEF ConfirmInv, ConfirmTypeOK
<1> QED
  BY <1>2, <1>3, <1>5, <1>6, WorkerStep

LEMMA LookupKeeps ==
    ASSUME ConfirmInv, NEW w \in Workers, Lookup(w)
    PROVE  ConfirmInv'
<1>1. /\ batches[w] # {} /\ lookups[w] = "none"
      /\ UNCHANGED outcomes /\ UNCHANGED statuses /\ UNCHANGED lapsed
      /\ batches \in [Workers -> SUBSET Payments]
      /\ lookups \in [Workers -> {"none", "successful", "unsuccessful"}]
      /\ unknown \subseteq lapsed
      /\ outcomes[Row(w)] \in {"successful", "unsuccessful"}
      /\ \A p \in batches[w] : statuses[p] # "none"
  BY RowInBatch DEF Lookup, Fixed, ConfirmInv, ConfirmTypeOK
<1>2. errors' \in 0..MaxErrors
  BY ErrCounts DEF Lookup
<1>3. batches = [batches EXCEPT ![w] = batches[w]] /\ lookups = [lookups EXCEPT ![w] = "none"]
  BY <1>1
<1>4. CASE lookups' = [lookups EXCEPT ![w] = outcomes[Row(w)]] /\ UNCHANGED <<batches, unknown>>
  BY <1>1, <1>2, <1>3, <1>4, WorkerStep
<1>5. CASE /\ Row(w) \in lapsed
           /\ lookups' = [lookups EXCEPT ![w] = "unsuccessful"]
           /\ unknown' = unknown \cup {Row(w)}
           /\ UNCHANGED batches
  BY <1>1, <1>2, <1>3, <1>5, WorkerStep, ZenonT(30)
<1>6. CASE Dealt(w) /\ UNCHANGED <<lookups, unknown>>
  <2>1. PICK batch : batch = batches[w] \ {Row(w)}
    OBVIOUS
  <2>2. /\ batches' = [batches EXCEPT ![w] = batch] /\ batch \subseteq Payments
        /\ \A p \in batch : statuses[p] # "none"
    BY <1>1, <1>6, <2>1 DEF Dealt
  <2> QED
    BY <1>1, <1>2, <1>3, <1>6, <2>2, WorkerStep
<1> QED
  BY <1>4, <1>5, <1>6 DEF Lookup

\* The status written: the first one only, and the one the lookup gave.
LEMMA FinalStatus ==
    ASSUME ConfirmInv, NEW w \in Workers, SetFinalStatus(w)
    PROVE  /\ Row(w) \in batches[w] /\ Row(w) \in Payments
           /\ \/ UNCHANGED statuses
              \/ \E told \in {"completed", "failed"} :
                    /\ statuses[Row(w)] = "confirming" /\ Truthful(Row(w), told)
                    /\ statuses' = [statuses EXCEPT ![Row(w)] = told]
<1>1. /\ lookups[w] \in {"successful", "unsuccessful"}
      /\ batches[w] # {} /\ Truthful(Row(w), lookups[w])
  BY DEF ConfirmInv, ConfirmTypeOK, SetFinalStatus
<1>2. Row(w) \in batches[w] /\ Row(w) \in Payments
  BY <1>1, RowInBatch
<1>3. PICK p \in Payments : p = Row(w)
  BY <1>2
<1>4. statuses \in [Payments -> {"none", "confirming", "completed", "failed"}]
  BY DEF ConfirmInv, ConfirmTypeOK
<1>5. CASE statuses' = [statuses EXCEPT ![Row(w)] =
                IF @ # "confirming" THEN @
                ELSE IF lookups[w] = "successful" THEN "completed" ELSE "failed"]
  <2>1. CASE statuses[p] # "confirming"
    <3>1. statuses' = statuses
      BY <1>3, <1>4, <1>5, <2>1
    <3> QED
      BY <1>2, <3>1
  <2>2. CASE statuses[p] = "confirming"
    <3>1. PICK told \in {"completed", "failed"} :
             /\ told = IF lookups[w] = "successful" THEN "completed" ELSE "failed"
      OBVIOUS
    <3>2. statuses' = [statuses EXCEPT ![Row(w)] = told]
      BY <1>3, <1>4, <1>5, <2>2, <3>1
    <3>3. Truthful(Row(w), told)
      BY <1>1, <3>1 DEF Truthful
    <3> QED
      BY <1>2, <1>3, <2>2, <3>2, <3>3
  <2> QED
    BY <2>1, <2>2
<1> QED
  BY <1>2, <1>5 DEF SetFinalStatus

LEMMA SetFinalStatusKeeps ==
    ASSUME ConfirmInv, NEW w \in Workers, SetFinalStatus(w)
    PROVE  ConfirmInv'
<1>1. ConfirmTypeOK
  BY DEF ConfirmInv
<1>2. /\ batches' = [batches EXCEPT ![w] = batches[w] \ {Row(w)}]
      /\ lookups' = [lookups EXCEPT ![w] = "none"]
      /\ UNCHANGED outcomes /\ UNCHANGED lapsed /\ UNCHANGED unknown
      /\ errors' \in 0..MaxErrors
  BY ErrCounts DEF SetFinalStatus, Fixed, Dealt
<1>3. PICK p \in Payments : p = Row(w)
  BY FinalStatus
<1>4. /\ statuses' \in [Payments -> {"none", "confirming", "completed", "failed"}]
      /\ \A q \in Payments : /\ statuses'[q] = "none" <=> statuses[q] = "none"
                             /\ Truthful(q, statuses'[q])
  <2>1. CASE UNCHANGED statuses
    BY <1>1, <2>1 DEF ConfirmInv, ConfirmTypeOK
  <2>2. ASSUME NEW told \in {"completed", "failed"},
               statuses[p] = "confirming", Truthful(p, told),
               statuses' = [statuses EXCEPT ![p] = told]
        PROVE  /\ statuses' \in [Payments -> {"none", "confirming", "completed", "failed"}]
               /\ \A q \in Payments : /\ statuses'[q] = "none" <=> statuses[q] = "none"
                                      /\ Truthful(q, statuses'[q])
    <3>1. \A q \in Payments : Truthful(q, statuses[q])
      BY DEF ConfirmInv
    <3>2. \A q \in Payments : statuses'[q] = IF q = p THEN told ELSE statuses[q]
      BY <1>1, <2>2 DEF ConfirmTypeOK
    <3>3. \A q \in Payments : Truthful(q, statuses'[q])
      BY <2>2, <3>1, <3>2
    <3> QED
      BY <1>1, <2>2, <3>2, <3>3 DEF ConfirmTypeOK
  <2> QED
    BY <1>3, <2>1, <2>2, FinalStatus
<1>5. ConfirmTypeOK'
  BY <1>1, <1>2, <1>4 DEF ConfirmTypeOK
<1>6. \A q \in Payments : /\ statuses'[q] = "none" <=> outcomes'[q] = "none"
                          /\ Truthful(q, statuses[q])'
  BY <1>2, <1>4 DEF ConfirmInv, Truthful
<1>7. ASSUME NEW v \in Workers
      PROVE  /\ \A q \in batches'[v] : statuses'[q] # "none"
             /\ lookups'[v] # "none" => batches'[v] # {} /\ Truthful(Row(v), lookups[v])'
  <2>1. batches'[v] \subseteq batches[v] /\ batches[v] \subseteq Payments
    BY <1>1, <1>2 DEF ConfirmTypeOK
  <2>2. \A q \in batches'[v] : statuses'[q] # "none"
    BY <1>4, <2>1 DEF ConfirmInv
  <2>3. CASE v = w
    BY <1>1, <1>2, <2>2, <2>3 DEF ConfirmTypeOK
  <2>4. CASE v # w
    <3>1. batches'[v] = batches[v] /\ lookups'[v] = lookups[v]
      BY <1>1, <1>2, <2>4 DEF ConfirmTypeOK
    <3>2. Row(v)' = Row(v)
      BY <3>1 DEF Row
    <3>3. lookups[v] # "none" => batches[v] # {} /\ Truthful(Row(v), lookups[v])
      BY DEF ConfirmInv
    <3> QED
      BY <1>2, <2>2, <3>1, <3>2, <3>3 DEF Truthful
  <2> QED
    BY <2>3, <2>4
<1> QED
  BY <1>5, <1>6, <1>7 DEF ConfirmInv

LEMMA AbandonBatchKeeps ==
    ASSUME ConfirmInv, NEW w \in Workers, AbandonBatch(w)
    PROVE  ConfirmInv'
<1>1. /\ batches' = [batches EXCEPT ![w] = {}] /\ lookups' = [lookups EXCEPT ![w] = "none"]
      /\ UNCHANGED unknown /\ UNCHANGED outcomes /\ UNCHANGED statuses /\ UNCHANGED lapsed
      /\ errors' \in 0..MaxErrors
  BY ErrCounts DEF AbandonBatch, Fixed
<1>2. unknown' \subseteq lapsed
  BY <1>1 DEF ConfirmInv, ConfirmTypeOK
<1> QED
  BY <1>1, <1>2, WorkerStep

LEMMA ConfirmStarts == ConfirmInit => ConfirmInv
BY ConfirmationConstants DEF ConfirmInit, ConfirmInv, ConfirmTypeOK, Truthful

LEMMA ConfirmStep == ConfirmInv /\ [ConfirmNext]_confirmVars => ConfirmInv'
<1> SUFFICES ASSUME ConfirmInv, [ConfirmNext]_confirmVars PROVE ConfirmInv'
  OBVIOUS
<1>1. CASE ConfirmNext
  BY <1>1, RecordPaymentKeeps, LapseKeeps, ReadBatchKeeps, LookupKeeps,
     SetFinalStatusKeeps, AbandonBatchKeeps DEF ConfirmNext, Confirms
<1>2. CASE UNCHANGED confirmVars
  <2>1. \A v : Row(v)' = Row(v)
    BY <1>2 DEF Row, confirmVars
  <2> QED
    BY <1>2, <2>1 DEF ConfirmInv, ConfirmTypeOK, Truthful, confirmVars
<1> QED
  BY <1>1, <1>2

LEMMA ConfirmInvariant == ConfirmSpec => []ConfirmInv
BY ConfirmStarts, ConfirmStep, PTL DEF ConfirmSpec

\* What the user is told of a payment is what the ledger did, unless a node
\* that had not seen it was asked when its time was over, and the first status
\* told is the last: whatever batches the workers hold, however old, and
\* whatever different answers they got (the job's UPDATE has the condition
\* status = 'confirming').
THEOREM ToldOnce == ConfirmSpec => ConfirmedOnce
<1> DEFINE Stays == \A p \in Payments :
               statuses[p] \in {"completed", "failed"} => statuses'[p] = statuses[p]
<1>1. ConfirmInv => ConfirmTypeOK /\ ConfirmedAsHappened
  BY DEF ConfirmInv, ConfirmedAsHappened, Truthful
<1>2. ASSUME ConfirmInv, [ConfirmNext]_confirmVars PROVE Stays
  <2>1. CASE UNCHANGED statuses
    BY <2>1
  <2>2. ASSUME NEW p \in Payments, RecordPayment(p) PROVE Stays
    <3>1. statuses[p] = "none"
      BY <2>2 DEF RecordPayment, Payments
    <3> QED
      BY <1>2, <2>2, <3>1 DEF RecordPayment, ConfirmInv, ConfirmTypeOK
  <2>3. ASSUME NEW w \in Workers, SetFinalStatus(w) PROVE Stays
    BY <1>2, <2>3, FinalStatus DEF ConfirmInv, ConfirmTypeOK
  <2> QED
    BY <1>2, <2>1, <2>2, <2>3
       DEF ConfirmNext, Confirms, Lapse, ReadBatch, Lookup, AbandonBatch, Fixed, confirmVars
<1>3. ConfirmInv /\ [ConfirmNext]_confirmVars => [Stays]_confirmVars
  BY <1>2
<1> HIDE DEF Stays
<1>4. [][ConfirmNext]_confirmVars /\ []ConfirmInv => [][Stays]_confirmVars
  BY <1>3, PTL
<1>5. [][Stays]_confirmVars => FirstStatusStays
  BY DEF FirstStatusStays, Stays
<1> QED
  BY <1>1, <1>4, <1>5, ConfirmInvariant, PTL DEF ConfirmSpec, ConfirmedOnce

-----------------------------------------------------------------------------
(* Claimable balances.                                                     *)

Handler == [by : Listeners, effect : Nat, at : {"reconcile", "save"}]

\* The two rows of a balance, in one of the states they pass through together.
Agreed ==
    {[balance |-> "none", tx |-> "none"], [balance |-> "active", tx |-> "pending_claim"],
     [balance |-> "expired", tx |-> "expired"], [balance |-> "claimed", tx |-> "completed"],
     [balance |-> "reclaimed", tx |-> "reclaimed"]}

\* The rows of balance b, given what the ledger says of it.
RowsRight(pair, coin) ==
    /\ pair \in Agreed
    /\ pair # NoRows => coin # "none"
    /\ pair.tx = "reclaimed" => coin \in {"returned", "clawed"}

\* An effect names a balance that has been taken, and a handler that reconciles
\* is about such an effect.
BalancesInv ==
    /\ coins \in [Balances -> {"none", "open", "claimed", "returned", "clawed"}]
    /\ due \subseteq Balances
    /\ tables \in [Balances -> Agreed]
    /\ \A b \in Balances : RowsRight(tables[b], coins[b])
    /\ feed \in Seq(Balances \cup {Other})
    /\ \A i \in DOMAIN feed : feed[i] # Other => Taken(feed[i])
    /\ streams \in [Listeners -> [open : BOOLEAN, seen : 0..Len(feed)]]
    /\ handling \subseteq Handler
    /\ \A h \in handling :
          /\ h.effect \in DOMAIN feed
          /\ h.at = "reconcile" => feed[h.effect] # Other
    /\ cursor \in 0..Len(feed)
    /\ losses \in 0..MaxLosses /\ snags \in 0..MaxSnags

LEMMA SnagCounts ==
    ASSUME BalancesInv PROVE (Snag \/ UNCHANGED snags) => snags' \in 0..MaxSnags
BY BalanceConstants DEF Snag, BalancesInv

\* A step of the ledger: one effect, and one balance that was not taken yet.
LEMMA LedgerStep ==
    ASSUME BalancesInv, NEW effect \in Balances \cup {Other}, Emit(effect),
           coins' \in [Balances -> {"none", "open", "claimed", "returned", "clawed"}],
           \A b \in Balances : \/ coins'[b] = coins[b]
                               \/ coins[b] \in {"none", "open"} /\ coins'[b] # "none",
           effect # Other => Taken(effect)',
           UNCHANGED <<due, tables, Streaming, losses, snags>>
    PROVE  BalancesInv'
<1>1. /\ UNCHANGED due /\ UNCHANGED tables /\ UNCHANGED streams /\ UNCHANGED handling
      /\ UNCHANGED cursor /\ UNCHANGED losses /\ UNCHANGED snags
  BY DEF Streaming
<1>2. feed \in Seq(Balances \cup {Other}) /\ feed' = Append(feed, effect)
  BY DEF BalancesInv, Emit
<1>3. /\ feed' \in Seq(Balances \cup {Other})
      /\ Len(feed) \in Nat /\ Len(feed') = Len(feed) + 1
      /\ \A i \in DOMAIN feed : i \in DOMAIN feed' /\ feed'[i] = feed[i]
      /\ \A i \in DOMAIN feed' : i \in DOMAIN feed \/ feed'[i] = effect
  BY <1>2
<1>4. \A b \in Balances : Taken(b) => Taken(b)'
  BY DEF Taken
<1>5. \A i \in DOMAIN feed : feed[i] \in Balances \cup {Other}
  BY <1>2
<1>6. ASSUME NEW i \in DOMAIN feed', feed'[i] # Other PROVE Taken(feed[i])'
  <2>1. CASE i \in DOMAIN feed
    <3>1. feed'[i] = feed[i] /\ feed[i] \in Balances /\ Taken(feed[i])
      BY <1>3, <1>5, <1>6, <2>1 DEF BalancesInv
    <3> QED
      BY <1>4, <3>1 DEF Taken
  <2>2. CASE feed'[i] = effect
    BY <1>6, <2>2 DEF Taken
  <2> QED
    BY <1>3, <2>1, <2>2
<1>7. \A b \in Balances : RowsRight(tables'[b], coins'[b])
  BY <1>1 DEF BalancesInv, RowsRight
<1>8. \A b \in Balances : RowsRight(tables[b], coins[b])'
  BY <1>7 DEF RowsRight, NoRows, Agreed
<1>9. /\ streams' \in [Listeners -> [open : BOOLEAN, seen : 0..Len(feed')]]
      /\ cursor' \in 0..Len(feed')
  <2>1. /\ streams \in [Listeners -> [open : BOOLEAN, seen : 0..Len(feed)]]
        /\ cursor \in 0..Len(feed)
    BY DEF BalancesInv
  <2>2. 0..Len(feed) \subseteq 0..Len(feed')
    BY <1>3
  <2> QED
    BY <1>1, <2>1, <2>2
<1>10. \A h \in handling' : /\ h.effect \in DOMAIN feed'
                            /\ h.at = "reconcile" => feed'[h.effect] # Other
  BY <1>1, <1>3 DEF BalancesInv
<1> QED
  BY <1>1, <1>3, <1>6, <1>8, <1>9, <1>10 DEF BalancesInv

\* A step of the tables, and of at most one handler, to its next await.
LEMMA TablesStep ==
    ASSUME BalancesInv,
           tables' \in [Balances -> Agreed],
           \A b \in Balances : RowsRight(tables'[b], coins[b]),
           handling' \subseteq Handler,
           \A h \in handling' : /\ h.effect \in DOMAIN feed
                                /\ h.at = "reconcile" => h \in handling,
           snags' \in 0..MaxSnags,
           UNCHANGED <<coins, due, feed, streams, cursor, losses>>
    PROVE  BalancesInv'
<1>1. /\ UNCHANGED coins /\ UNCHANGED due /\ UNCHANGED feed /\ UNCHANGED streams
      /\ UNCHANGED cursor /\ UNCHANGED losses
  OBVIOUS
<1>2. \A b \in Balances : RowsRight(tables[b], coins[b])'
  BY <1>1 DEF RowsRight, NoRows, Agreed
<1>3. \A i \in DOMAIN feed' : feed'[i] # Other => Taken(feed[i])'
  BY <1>1 DEF BalancesInv, Taken
<1> QED
  BY <1>1, <1>2, <1>3 DEF BalancesInv

\* A step of the streams.
LEMMA StreamsStep ==
    ASSUME BalancesInv,
           streams' \in [Listeners -> [open : BOOLEAN, seen : 0..Len(feed)]],
           handling' \subseteq Handler,
           \A h \in handling' : \/ h \in handling
                                \/ /\ h.effect \in DOMAIN feed
                                   /\ h.at = "reconcile" => feed[h.effect] # Other,
           cursor' \in 0..Len(feed), losses' \in 0..MaxLosses, snags' \in 0..MaxSnags,
           UNCHANGED <<coins, due, tables, feed>>
    PROVE  BalancesInv'
<1>1. UNCHANGED coins /\ UNCHANGED due /\ UNCHANGED tables /\ UNCHANGED feed
  OBVIOUS
<1>2. \A b \in Balances : RowsRight(tables[b], coins[b])'
  BY <1>1 DEF BalancesInv, RowsRight, NoRows, Agreed
<1>3. \A i \in DOMAIN feed' : feed'[i] # Other => Taken(feed[i])'
  BY <1>1 DEF BalancesInv, Taken
<1> QED
  BY <1>1, <1>2, <1>3 DEF BalancesInv

LEMMA LedgerKeeps ==
    ASSUME BalancesInv,
           \/ OtherEffect
           \/ \E b \in Balances : \/ CreateBalance(b)
                                  \/ \E how \in {"claimed", "returned", "clawed"} : Take(b, how)
    PROVE  BalancesInv'
<1>1. coins \in [Balances -> {"none", "open", "claimed", "returned", "clawed"}]
  BY DEF BalancesInv
<1>2. CASE OtherEffect
  BY <1>1, <1>2, LedgerStep DEF OtherEffect
<1>3. ASSUME NEW b \in Balances, CreateBalance(b) PROVE BalancesInv'
  <2>1. /\ coins' \in [Balances -> {"none", "open", "claimed", "returned", "clawed"}]
        /\ \A c \in Balances : \/ coins'[c] = coins[c]
                               \/ coins[c] \in {"none", "open"} /\ coins'[c] # "none"
    BY <1>1, <1>3 DEF CreateBalance
  <2> QED
    BY <1>3, <2>1, LedgerStep DEF CreateBalance
<1>4. ASSUME NEW b \in Balances, NEW how \in {"claimed", "returned", "clawed"}, Take(b, how)
      PROVE  BalancesInv'
  <2>1. /\ coins' \in [Balances -> {"none", "open", "claimed", "returned", "clawed"}]
        /\ \A c \in Balances : \/ coins'[c] = coins[c]
                               \/ coins[c] \in {"none", "open"} /\ coins'[c] # "none"
        /\ Taken(b)'
    BY <1>1, <1>4 DEF Take, Taken
  <2> QED
    BY <1>4, <2>1, LedgerStep DEF Take
<1> QED
  BY <1>2, <1>3, <1>4

\* What the expiry job and the reconciliation make of a balance's rows.
LEMMA NewRows ==
    ASSUME NEW pair \in Agreed, NEW coin \in {"none", "open", "claimed", "returned", "clawed"},
           RowsRight(pair, coin)
    PROVE  /\ pair.balance = "active" =>
                 RowsRight([balance |-> "expired", tx |-> "expired"], coin)
           /\ coin \in {"returned", "clawed"} =>
                 RowsRight([balance |-> "reclaimed", tx |-> "reclaimed"], coin)
           /\ coin # "none" => RowsRight([balance |-> "claimed", tx |-> "completed"], coin)
           /\ coin # "none" => RowsRight([balance |-> "active", tx |-> "pending_claim"], coin)
BY DEF Agreed, RowsRight, NoRows

LEMMA RowsKeep ==
    ASSUME BalancesInv, ExpireRows \/ \E b \in Balances : InsertRows(b) \/ Expiry(b)
    PROVE  BalancesInv'
<1>1. /\ tables \in [Balances -> Agreed] /\ handling \subseteq Handler
      /\ coins \in [Balances -> {"none", "open", "claimed", "returned", "clawed"}]
      /\ \A b \in Balances : RowsRight(tables[b], coins[b])
      /\ \A h \in handling : h.effect \in DOMAIN feed
      /\ snags \in 0..MaxSnags
  BY DEF BalancesInv
<1>2. CASE ExpireRows
  <2>1. \A b \in Balances : \/ tables'[b] = tables[b]
                            \/ /\ tables[b].balance = "active"
                               /\ tables'[b] = [balance |-> "expired", tx |-> "expired"]
    <3>1. \A b \in Balances : tables[b].balance = "active" => tables[b].tx = "pending_claim"
      BY <1>1 DEF Agreed
    <3> QED
      BY <1>2, <3>1 DEF ExpireRows
  <2>2. \A b \in Balances : RowsRight(tables'[b], coins[b])
    BY <1>1, <2>1, NewRows
  <2>3. tables' \in [Balances -> Agreed]
    BY <1>2, <2>2 DEF ExpireRows, RowsRight
  <2>4. /\ UNCHANGED handling /\ UNCHANGED snags
        /\ UNCHANGED <<coins, due, feed, streams, cursor, losses>>
    BY <1>2 DEF ExpireRows, Streaming
  <2> QED
    BY <1>1, <2>2, <2>3, <2>4, TablesStep
<1>3. ASSUME NEW b \in Balances, InsertRows(b) PROVE BalancesInv'
  <2>1. RowsRight([balance |-> "active", tx |-> "pending_claim"], coins[b])
    BY <1>1, <1>3, NewRows DEF InsertRows
  <2>2. PICK pair : pair = [balance |-> "active", tx |-> "pending_claim"]
    OBVIOUS
  <2>3. tables' = [tables EXCEPT ![b] = pair] /\ RowsRight(pair, coins[b]) /\ pair \in Agreed
    BY <1>3, <2>1, <2>2 DEF InsertRows, RowsRight
  <2>4. /\ tables' \in [Balances -> Agreed]
        /\ \A c \in Balances : RowsRight(tables'[c], coins[c])
    BY <1>1, <2>3
  <2>5. /\ UNCHANGED handling /\ UNCHANGED snags
        /\ UNCHANGED <<coins, due, feed, streams, cursor, losses>>
    BY <1>3 DEF InsertRows, Streaming
  <2> QED
    BY <1>1, <2>4, <2>5, TablesStep
<1>4. ASSUME NEW b \in Balances, Expiry(b) PROVE BalancesInv'
  <2>1. /\ UNCHANGED coins /\ UNCHANGED tables /\ UNCHANGED feed /\ UNCHANGED streams
        /\ UNCHANGED handling /\ UNCHANGED cursor /\ UNCHANGED losses /\ UNCHANGED snags
        /\ due' \subseteq Balances
    BY <1>4 DEF Expiry, Streaming, BalancesInv
  <2>2. \A c \in Balances : RowsRight(tables[c], coins[c])'
    BY <1>1, <2>1 DEF RowsRight, NoRows, Agreed
  <2>3. \A i \in DOMAIN feed' : feed'[i] # Other => Taken(feed[i])'
    BY <2>1 DEF BalancesInv, Taken
  <2> QED
    BY <2>1, <2>2, <2>3 DEF BalancesInv
<1> QED
  BY <1>2, <1>3, <1>4

\* The rows a handler writes: none that are settled, and as the ledger has it.
LEMMA Reconciles ==
    ASSUME BalancesInv, NEW h \in handling, Reconcile(h)
    PROVE  \/ UNCHANGED tables
           \/ \E b \in Balances, pair \in Agreed :
                 /\ tables[b].balance \in {"active", "expired"}
                 /\ tables' = [tables EXCEPT ![b] = pair]
                 /\ RowsRight(pair, coins[b])
                 /\ pair.tx \in {"completed", "reclaimed"}
                 /\ pair.tx = "reclaimed" => coins[b] \in {"clawed", "returned"}
                 /\ tables[b].balance = "expired" /\ pair.tx = "completed" =>
                       coins[b] = "claimed"
<1>1. /\ feed \in Seq(Balances \cup {Other}) /\ h.effect \in DOMAIN feed
      /\ feed[h.effect] # Other
  BY DEF BalancesInv, Reconcile
<1>2. PICK b \in Balances : b = feed[h.effect]
  BY <1>1
<1>3. /\ Taken(b) /\ tables \in [Balances -> Agreed] /\ RowsRight(tables[b], coins[b])
      /\ coins[b] \in {"none", "open", "claimed", "returned", "clawed"}
  BY <1>1, <1>2 DEF BalancesInv
<1>4. CASE tables' = [tables EXCEPT ![b] =
                IF @.balance \in {"active", "expired"} THEN Outcome(b) ELSE @]
  <2>1. CASE tables[b].balance \notin {"active", "expired"}
    BY <1>3, <1>4, <2>1
  <2>2. CASE tables[b].balance \in {"active", "expired"}
    <3>1. PICK pair : pair = Outcome(b)
      OBVIOUS
    <3>2. tables' = [tables EXCEPT ![b] = pair]
      BY <1>3, <1>4, <2>2, <3>1
    <3>3. CASE coins[b] = "clawed" \/ (tables[b].balance = "expired" /\ coins[b] = "returned")
      <4>1. pair = [balance |-> "reclaimed", tx |-> "reclaimed"]
        BY <3>1, <3>3 DEF Outcome
      <4>2. RowsRight(pair, coins[b]) /\ pair.tx = "reclaimed"
        BY <1>3, <3>3, <4>1, NewRows
      <4> QED
        BY <2>2, <3>2, <3>3, <4>2 DEF RowsRight
    <3>4. CASE ~(coins[b] = "clawed" \/ (tables[b].balance = "expired" /\ coins[b] = "returned"))
      <4>1. pair = [balance |-> "claimed", tx |-> "completed"]
        BY <3>1, <3>4 DEF Outcome
      <4>2. RowsRight(pair, coins[b]) /\ pair.tx = "completed"
        BY <1>3, <4>1, NewRows DEF Taken
      <4>3. tables[b].balance = "expired" => coins[b] = "claimed"
        BY <1>3, <3>4 DEF Taken
      <4> QED
        BY <2>2, <3>2, <4>2, <4>3 DEF RowsRight
    <3> QED
      BY <3>3, <3>4
  <2> QED
    BY <2>1, <2>2
<1> QED
  BY <1>2, <1>4 DEF Reconcile

LEMMA ReconcileKeeps ==
    ASSUME BalancesInv, NEW h \in handling, Reconcile(h)
    PROVE  BalancesInv'
<1>1. /\ tables \in [Balances -> Agreed] /\ handling \subseteq Handler
      /\ \A b \in Balances : RowsRight(tables[b], coins[b])
      /\ \A g \in handling : g.effect \in DOMAIN feed
  BY DEF BalancesInv
<1>2. /\ tables' \in [Balances -> Agreed]
      /\ \A b \in Balances : RowsRight(tables'[b], coins[b])
  BY <1>1, Reconciles
<1>3. PICK moved : moved = [h EXCEPT !.at = "save"]
  OBVIOUS
<1>4. moved \in Handler /\ moved.at = "save" /\ moved.effect = h.effect
  BY <1>1, <1>3 DEF Handler
<1>5. \A g \in handling' : g \in handling \/ g = moved
  BY <1>3 DEF Reconcile
<1>6. /\ handling' \subseteq Handler
      /\ \A g \in handling' : /\ g.effect \in DOMAIN feed
                              /\ g.at = "reconcile" => g \in handling
  BY <1>1, <1>4, <1>5
<1>7. snags' \in 0..MaxSnags /\ UNCHANGED <<coins, due, feed, streams, cursor, losses>>
  BY SnagCounts DEF Reconcile
<1> QED
  BY <1>2, <1>6, <1>7, TablesStep

LEMMA StreamsKeep ==
    ASSUME BalancesInv,
           \/ \E l \in Listeners :
                 OpenStream(l) \/ Deliver(l) \/ LoseStream(l) \/ ListenerDies(l)
           \/ \E h \in handling : SaveCursor(h)
           \/ CursorExpires
    PROVE  BalancesInv'
<1>1. /\ feed \in Seq(Balances \cup {Other}) /\ Len(feed) \in Nat
      /\ streams \in [Listeners -> [open : BOOLEAN, seen : 0..Len(feed)]]
      /\ handling \subseteq Handler /\ cursor \in 0..Len(feed)
      /\ \A h \in handling : h.effect \in DOMAIN feed
      /\ losses \in 0..MaxLosses /\ snags \in 0..MaxSnags
      /\ DOMAIN feed = 1..Len(feed)
  BY DEF BalancesInv
<1>2. PICK yes, no \in BOOLEAN : yes /\ ~no
  OBVIOUS
<1>3. yes = TRUE /\ no = FALSE
  BY <1>2
<1>4. ASSUME NEW l \in Listeners, OpenStream(l) PROVE BalancesInv'
  <2>1. PICK seen \in 0..Len(feed) : streams' = [streams EXCEPT ![l] = [open |-> TRUE, seen |-> seen]]
    <3>1. Len(feed) \in 0..Len(feed)
      BY <1>1
    <3>2. PICK from : from = IF cursor = 0 THEN Len(feed) ELSE cursor
      OBVIOUS
    <3>3. from \in 0..Len(feed)
      BY <1>1, <3>1, <3>2
    <3>4. \/ streams' = [streams EXCEPT ![l] = [open |-> TRUE, seen |-> from]]
          \/ streams' = [streams EXCEPT ![l] = [open |-> TRUE, seen |-> Len(feed)]]
      BY <1>4, <3>2, Zenon DEF OpenStream
    <3> QED
      BY <3>1, <3>3, <3>4, Zenon
  <2>2. streams' = [streams EXCEPT ![l] = [open |-> yes, seen |-> seen]]
    BY <1>3, <2>1, Zenon
  <2>3. streams' \in [Listeners -> [open : BOOLEAN, seen : 0..Len(feed)]]
    BY <1>1, <2>2
  <2>4. snags' \in 0..MaxSnags
    BY <1>4, SnagCounts DEF OpenStream
  <2> QED
    BY <1>1, <1>4, <2>3, <2>4, StreamsStep DEF OpenStream
<1>5. ASSUME NEW l \in Listeners, Deliver(l) PROVE BalancesInv'
  <2>1. PICK i, at : /\ i = streams[l].seen + 1
                     /\ at = IF feed[i] = Other THEN "save" ELSE "reconcile"
    OBVIOUS
  <2>2. /\ i \in 1..Len(feed)
        /\ streams' = [streams EXCEPT ![l].seen = i]
        /\ handling' = handling \cup {[by |-> l, effect |-> i, at |-> at]}
        /\ UNCHANGED <<coins, due, tables, feed, cursor, losses, snags>>
    BY <1>1, <1>5, <2>1 DEF Deliver
  <2>3. streams' \in [Listeners -> [open : BOOLEAN, seen : 0..Len(feed)]]
    <3>1. PICK stream : stream = [streams[l] EXCEPT !.seen = i]
      OBVIOUS
    <3>2. i \in 0..Len(feed)
      BY <1>1, <2>2
    <3>3. stream \in [open : BOOLEAN, seen : 0..Len(feed)]
      BY <1>1, <3>1, <3>2
    <3>4. streams' = [streams EXCEPT ![l] = stream]
      BY <2>2, <3>1, Zenon
    <3> QED
      BY <1>1, <3>3, <3>4
  <2>4. PICK h : h = [by |-> l, effect |-> i, at |-> at]
    OBVIOUS
  <2>5. /\ h \in Handler /\ h.effect = i
        /\ h.at = "reconcile" => feed[h.effect] # Other
    BY <1>1, <2>1, <2>2, <2>4 DEF Handler
  <2>6. handling' = handling \cup {h}
    BY <2>2, <2>4
  <2> QED
    BY <1>1, <2>2, <2>3, <2>5, <2>6, StreamsStep
<1>6. ASSUME NEW l \in Listeners, LoseStream(l) \/ ListenerDies(l) PROVE BalancesInv'
  <2>1. streams' = [streams EXCEPT ![l].open = no]
    BY <1>3, <1>6, Zenon DEF LoseStream, ListenerDies
  <2>2. streams' \in [Listeners -> [open : BOOLEAN, seen : 0..Len(feed)]]
    BY <1>1, <2>1
  <2>3. /\ UNCHANGED <<coins, due, tables, feed>> /\ UNCHANGED cursor
        /\ handling' \subseteq handling
    BY <1>6 DEF LoseStream, ListenerDies
  <2>4. losses' \in 0..MaxLosses
    BY <1>1, <1>6, BalanceConstants DEF LoseStream, ListenerDies
  <2>5. snags' \in 0..MaxSnags
    BY <1>6, SnagCounts DEF LoseStream, ListenerDies
  <2> QED
    BY <1>1, <2>2, <2>3, <2>4, <2>5, StreamsStep
<1>7. ASSUME NEW h \in handling, SaveCursor(h) PROVE BalancesInv'
  <2>1. /\ UNCHANGED <<coins, due, tables, feed>> /\ UNCHANGED streams /\ UNCHANGED losses
        /\ handling' \subseteq handling /\ cursor' \in {cursor, h.effect}
    BY <1>7 DEF SaveCursor
  <2>2. h.effect \in 0..Len(feed)
    BY <1>1
  <2>3. snags' \in 0..MaxSnags
    BY <1>7, SnagCounts DEF SaveCursor
  <2> QED
    BY <1>1, <2>1, <2>2, <2>3, StreamsStep
<1>8. ASSUME CursorExpires PROVE BalancesInv'
  <2>1. /\ UNCHANGED <<coins, due, tables, feed>> /\ UNCHANGED streams /\ UNCHANGED losses
        /\ UNCHANGED handling /\ cursor' = 0
    BY <1>8 DEF CursorExpires
  <2>2. cursor' \in 0..Len(feed) /\ snags' \in 0..MaxSnags
    BY <1>1, <1>8, <2>1, SnagCounts DEF CursorExpires
  <2> QED
    BY <1>1, <2>1, <2>2, StreamsStep
<1> QED
  BY <1>4, <1>5, <1>6, <1>7, <1>8

LEMMA BalancesStart == BalancesInit => BalancesInv
<1> SUFFICES ASSUME BalancesInit PROVE BalancesInv
  OBVIOUS
<1>1. PICK no \in BOOLEAN : ~no
  OBVIOUS
<1>2. no = FALSE
  BY <1>1
<1>3. streams = [l \in Listeners |-> [open |-> no, seen |-> 0]]
  BY <1>2, Zenon DEF BalancesInit
<1>4. <<>> \in Seq(Balances \cup {Other}) /\ Len(<<>>) = 0 /\ DOMAIN <<>> = {}
  OBVIOUS
<1>5. streams \in [Listeners -> [open : BOOLEAN, seen : 0..Len(feed)]]
  BY <1>3, <1>4 DEF BalancesInit
<1>6. NoRows \in Agreed /\ NoRows.tx # "reclaimed"
  BY DEF NoRows, Agreed
<1>7. \A b \in Balances : RowsRight(tables[b], coins[b])
  BY <1>6 DEF BalancesInit, RowsRight
<1> QED
  BY <1>4, <1>5, <1>6, <1>7, BalanceConstants DEF BalancesInit, BalancesInv

LEMMA BalancesStep == BalancesInv /\ [BalancesNext]_balanceVars => BalancesInv'
<1> SUFFICES ASSUME BalancesInv, [BalancesNext]_balanceVars PROVE BalancesInv'
  OBVIOUS
<1>1. CASE BalancesNext
  BY <1>1, LedgerKeeps, RowsKeep, ReconcileKeeps, StreamsKeep DEF BalancesNext
<1>2. CASE UNCHANGED balanceVars
  <2>1. /\ UNCHANGED <<coins, due, feed, streams, cursor, losses>>
        /\ UNCHANGED tables /\ UNCHANGED handling /\ UNCHANGED snags
    BY <1>2 DEF balanceVars
  <2> QED
    BY <2>1, TablesStep DEF BalancesInv
<1> QED
  BY <1>1, <1>2

LEMMA BalancesInvariant == BalancesSpec => []BalancesInv
BY BalancesStart, BalancesStep, PTL DEF BalancesSpec

\* How a step changes the rows of a balance, if it does.
Recorded(b) ==
    /\ tables'[b].tx = "reclaimed" => coins[b] # "claimed"
    /\ tables[b].tx = "expired" /\ tables'[b].tx = "completed" => coins[b] = "claimed"
    /\ tables[b].tx \in {"completed", "reclaimed"} => tables'[b] = tables[b]

LEMMA RecordedTruly ==
    ASSUME BalancesInv, BalancesNext PROVE \A b \in Balances : Recorded(b)
<1>1. /\ tables \in [Balances -> Agreed]
      /\ \A b \in Balances : RowsRight(tables[b], coins[b])
  BY DEF BalancesInv
<1>2. \A b \in Balances : tables'[b] = tables[b] => Recorded(b)
  BY <1>1 DEF RowsRight, Agreed, Recorded
<1>3. CASE UNCHANGED tables
  BY <1>2, <1>3
<1>4. ASSUME NEW b \in Balances, InsertRows(b) PROVE \A c \in Balances : Recorded(c)
  <2>1. PICK pair : pair = [balance |-> "active", tx |-> "pending_claim"]
    OBVIOUS
  <2>2. tables' = [tables EXCEPT ![b] = pair] /\ tables[b].tx = "none"
    BY <1>4, <2>1 DEF InsertRows, NoRows
  <2>3. tables'[b] = pair /\ \A c \in Balances : c # b => tables'[c] = tables[c]
    BY <1>1, <2>2
  <2> QED
    BY <1>2, <2>1, <2>2, <2>3 DEF Recorded
<1>5. CASE ExpireRows
  <2>1. \A b \in Balances : tables[b].balance = "active" => tables[b].tx = "pending_claim"
    BY <1>1 DEF Agreed
  <2>2. \A b \in Balances : \/ tables'[b] = tables[b]
                            \/ tables[b].tx = "pending_claim" /\ tables'[b].tx = "expired"
    BY <1>5, <2>1 DEF ExpireRows
  <2> QED
    BY <1>2, <2>2 DEF Recorded
<1>6. ASSUME NEW h \in handling, Reconcile(h) PROVE \A c \in Balances : Recorded(c)
  <2>1. SUFFICES ASSUME ~UNCHANGED tables PROVE \A c \in Balances : Recorded(c)
    BY <1>3
  <2>2. PICK b \in Balances, pair \in Agreed :
           /\ tables[b].balance \in {"active", "expired"}
           /\ tables' = [tables EXCEPT ![b] = pair]
           /\ pair.tx = "reclaimed" => coins[b] \in {"clawed", "returned"}
           /\ tables[b].balance = "expired" /\ pair.tx = "completed" => coins[b] = "claimed"
    BY <1>6, <2>1, Reconciles
  <2>3. tables'[b] = pair /\ \A c \in Balances : c # b => tables'[c] = tables[c]
    BY <1>1, <2>2
  <2>4. tables[b] \in Agreed
    BY <1>1
  <2>5. /\ tables[b].tx \notin {"completed", "reclaimed"}
        /\ tables[b].tx = "expired" => tables[b].balance = "expired"
    BY <2>2, <2>4 DEF Agreed
  <2>6. Recorded(b)
    BY <2>2, <2>3, <2>5 DEF Recorded
  <2> QED
    BY <1>2, <2>3, <2>6
<1> QED
  BY <1>3, <1>4, <1>5, <1>6
     DEF BalancesNext, CreateBalance, Expiry, Take, OtherEffect, OpenStream, Deliver,
         LoseStream, ListenerDies, SaveCursor, CursorExpires

\* The two rows of a balance tell one story through every interleaving of the
\* expiry job with the listeners, the story that the ledger tells (money that
\* the recipient has is never shown as reclaimed, and what was shown as expired
\* is completed only after a claim), and its end stays: whichever effects are
\* replayed, by whichever listeners, after whatever failures.
THEOREM BalancesToldTruly == BalancesSpec => BalancesRecorded
<1> DEFINE Told == \A b \in Balances :
                      /\ tables'[b].tx = "reclaimed" => coins[b] # "claimed"
                      /\ (tables[b].tx = "expired" /\ tables'[b].tx = "completed")
                            => coins[b] = "claimed"
           Stays == \A b \in Balances :
                       tables[b].tx \in {"completed", "reclaimed"} => tables'[b] = tables[b]
<1>1. BalancesInv => BalanceTypeOK /\ TablesAgree
  <2> SUFFICES ASSUME BalancesInv PROVE BalanceTypeOK /\ TablesAgree
    OBVIOUS
  <2>1. tables \in [Balances -> Agreed] /\ \A b \in Balances : RowsRight(tables[b], coins[b])
    BY DEF BalancesInv
  <2>2. Agreed \subseteq [balance : {"none", "active", "expired", "claimed", "reclaimed"},
                          tx : {"none", "pending_claim", "expired", "completed", "reclaimed"}]
    BY DEF Agreed
  <2>3. /\ tables \in [Balances ->
              [balance : {"none", "active", "expired", "claimed", "reclaimed"},
               tx : {"none", "pending_claim", "expired", "completed", "reclaimed"}]]
        /\ \A b \in Balances : tables[b] # NoRows => coins[b] # "none"
    BY <2>1, <2>2 DEF RowsRight
  <2>4. \A h \in handling : /\ h.by \in Listeners /\ h.effect \in DOMAIN feed
                            /\ h.at \in {"reconcile", "save"}
    BY DEF BalancesInv, Handler
  <2>5. BalanceTypeOK
    BY <2>3, <2>4 DEF BalancesInv, BalanceTypeOK
  <2>6. TablesAgree
    BY <2>1 DEF TablesAgree, Agreed
  <2> QED
    BY <2>5, <2>6
<1>2. BalancesInv /\ [BalancesNext]_balanceVars => [Told /\ Stays]_balanceVars
  BY RecordedTruly DEF Recorded
<1> HIDE DEF Told, Stays
<1>3. [][BalancesNext]_balanceVars /\ []BalancesInv => [][Told]_balanceVars /\ [][Stays]_balanceVars
  BY <1>2, PTL
<1>4. [][Told]_balanceVars => OutcomeTold
  BY DEF OutcomeTold, Told
<1>5. [][Stays]_balanceVars => SettledStays
  BY DEF SettledStays, Stays
<1> QED
  BY <1>1, <1>3, <1>4, <1>5, BalancesInvariant, PTL DEF BalancesSpec, BalancesRecorded

-----------------------------------------------------------------------------
(* Fee configurations.                                                     *)

Config == [pair : Pairs, from : Nat, active : BOOLEAN]

ConfigTable == [Rows -> Config \cup {Blank}]

Kept == [row : Rows \cup {NoRow}, left : 0..CacheMinutes]

Places == {"rest", "read", "write", "activate", "query", "fill", "quoted"}

Clerks == Admins \cup Quotes \cup {Job}

Task == [at : Places, pair : Pairs \cup {"none"}, found : [Pairs -> Rows \cup {NoRow}]]

\* Row i of table, read at time t and last turned off at off[i], has been in
\* force within the last k minutes.
Recent(table, off, t, i, k) ==
    /\ table[i] \in Config /\ table[i].from <= t
    /\ table[i].active \/ t - off[i] <= k

\* The cache keeps no row longer than CacheMinutes after it was turned off: the
\* time a row has been kept is at least the time that it has been off.
CacheRecent(table, off, t, store) ==
    \A p \in Pairs : store[p].row # NoRow =>
        /\ store[p].left > 0
        /\ Recent(table, off, t, store[p].row, CacheMinutes - store[p].left)

\* What a task has read a moment ago, what a quote has been given, and what the
\* job is going to turn on.
TaskRecent(table, off, t, task) ==
    /\ task.at \in {"query", "fill"} => task.pair \in Pairs
    /\ \A p \in Pairs : task.found[p] # NoRow =>
          /\ task.at \in {"write", "fill"} => Recent(table, off, t, task.found[p], 0)
          /\ task.at = "quoted" => Recent(table, off, t, task.found[p], CacheMinutes - 1)
          /\ task.at = "activate" => table[task.found[p]] \in Config

FeeInv ==
    /\ configs \in ConfigTable
    /\ minute \in Nat
    /\ offSince \in [Rows -> Nat] /\ \A i \in Rows : offSince[i] <= minute
    /\ cached \in [Pairs -> Kept]
    /\ tasks \in [Clerks -> Task]
    /\ CacheRecent(configs, offSince, minute, cached)
    /\ \A t \in DOMAIN tasks : TaskRecent(configs, offSince, minute, tasks[t])

\* Rows that are in use keep what they say, and one that is turned off is
\* turned off now.
Grows(table, off) ==
    \A i \in Rows : Used(i) =>
        /\ table[i] \in Config /\ table[i].from = configs[i].from
        /\ \/ table[i].active
           \/ configs[i].active /\ off[i] = minute
           \/ ~configs[i].active /\ off[i] = offSince[i]

LEMMA FeeNumbers ==
    /\ MaxRows \in Nat /\ MaxMinutes \in Nat /\ CacheMinutes \in Nat /\ CacheMinutes > 0
    /\ "none" \notin Pairs /\ Rows \subseteq Nat /\ NoRow \notin Rows
BY FeeConstants DEF Rows, NoRow

LEMMA FeeFacts ==
    ASSUME FeeInv
    PROVE  /\ configs \in ConfigTable /\ minute \in Nat /\ offSince \in [Rows -> Nat]
           /\ \A i \in Rows : /\ configs[i] \in Config \cup {Blank}
                              /\ Used(i) => configs[i] \in Config
                              /\ offSince[i] \in Nat /\ offSince[i] <= minute
           /\ cached \in [Pairs -> Kept]
           /\ tasks \in [Clerks -> Task]
           /\ CacheRecent(configs, offSince, minute, cached)
           /\ \A t \in Clerks :
                 tasks[t] \in Task /\ TaskRecent(configs, offSince, minute, tasks[t])
BY DEF FeeInv, ConfigTable, Used

LEMMA ConfigIsUsed == Blank \notin Config /\ \A c \in Config : c.pair \in Pairs
BY FeeNumbers DEF Blank, Config

\* What was recent stays so while rows grow.
LEMMA RecentGrows ==
    ASSUME FeeInv, NEW table, NEW off, Grows(table, off), NEW i \in Rows, NEW k \in Nat,
           Recent(configs, offSince, minute, i, k)
    PROVE  Recent(table, off, minute, i, k)
<1>1. Used(i)
  BY ConfigIsUsed DEF Recent, Used
<1>2. minute \in Nat
  BY FeeFacts
<1> QED
  BY <1>1, <1>2 DEF Recent, Grows

LEMMA TaskRecentGrows ==
    ASSUME FeeInv, NEW table, NEW off, Grows(table, off), NEW task \in Task,
           TaskRecent(configs, offSince, minute, task)
    PROVE  TaskRecent(table, off, minute, task)
<1>1. \A p \in Pairs : task.found[p] \in Rows \cup {NoRow}
  BY DEF Task
<1>2. 0 \in Nat /\ CacheMinutes - 1 \in Nat
  BY FeeNumbers
<1>3. ASSUME NEW p \in Pairs, task.found[p] # NoRow
      PROVE  /\ task.at \in {"write", "fill"} => Recent(table, off, minute, task.found[p], 0)
             /\ task.at = "quoted" => Recent(table, off, minute, task.found[p], CacheMinutes - 1)
             /\ task.at = "activate" => table[task.found[p]] \in Config
  <2>1. task.found[p] \in Rows
    BY <1>1, <1>3
  <2>2. task.at = "activate" => table[task.found[p]] \in Config
    BY <1>3, <2>1, ConfigIsUsed DEF TaskRecent, Grows, Used
  <2> QED
    BY <1>2, <1>3, <2>1, <2>2, RecentGrows DEF TaskRecent
<1> QED
  BY <1>3 DEF TaskRecent

LEMMA CacheRecentGrows ==
    ASSUME FeeInv, NEW table, NEW off, Grows(table, off), NEW store \in [Pairs -> Kept],
           CacheRecent(configs, offSince, minute, store)
    PROVE  CacheRecent(table, off, minute, store)
<1>1. ASSUME NEW p \in Pairs, store[p].row # NoRow
      PROVE  Recent(table, off, minute, store[p].row, CacheMinutes - store[p].left)
  <2>1. store[p].row \in Rows /\ store[p].left \in 0..CacheMinutes
    BY <1>1 DEF Kept
  <2>2. CacheMinutes - store[p].left \in Nat
    BY <2>1, FeeNumbers
  <2> QED
    BY <1>1, <2>1, <2>2, RecentGrows DEF CacheRecent
<1> QED
  BY <1>1 DEF CacheRecent

\* A step within a minute: the table grows, and what is cached and found anew
\* was read just now.
LEMMA FeeStep ==
    ASSUME FeeInv, UNCHANGED minute,
           configs' \in ConfigTable, offSince' \in [Rows -> Nat],
           \A i \in Rows : offSince'[i] <= minute,
           Grows(configs', offSince'),
           cached' \in [Pairs -> Kept], CacheRecent(configs, offSince, minute, cached'),
           tasks' \in [Clerks -> Task],
           \A t \in Clerks :
              tasks'[t] = tasks[t] \/ TaskRecent(configs, offSince, minute, tasks'[t])
    PROVE  FeeInv'
<1>1. \A t \in Clerks : TaskRecent(configs, offSince, minute, tasks'[t])
  BY FeeFacts
<1>2. \A t \in Clerks : TaskRecent(configs', offSince', minute, tasks'[t])
  BY <1>1, TaskRecentGrows
<1>3. CacheRecent(configs', offSince', minute, cached')
  BY CacheRecentGrows
<1>4. /\ CacheRecent(configs, offSince, minute, cached)'
      /\ (\A t \in DOMAIN tasks : TaskRecent(configs, offSince, minute, tasks[t]))'
  BY <1>2, <1>3
<1>5. minute' \in Nat /\ (\A i \in Rows : offSince[i] <= minute)'
  BY FeeFacts
<1> QED
  BY <1>4, <1>5 DEF FeeInv

\* ... of a task, on the table as it is.
LEMMA TaskStep ==
    ASSUME FeeInv, UNCHANGED <<configs, minute, offSince>>,
           NEW t \in Clerks, NEW task \in Task,
           tasks' = [tasks EXCEPT ![t] = task],
           TaskRecent(configs, offSince, minute, task),
           cached' \in [Pairs -> Kept], CacheRecent(configs, offSince, minute, cached')
    PROVE  FeeInv'
<1>1. /\ tasks' \in [Clerks -> Task]
      /\ \A u \in Clerks :
            tasks'[u] = tasks[u] \/ TaskRecent(configs, offSince, minute, tasks'[u])
  BY FeeFacts
<1>2. Grows(configs, offSince)
  BY FeeFacts DEF Grows
<1>3. UNCHANGED configs /\ UNCHANGED minute /\ UNCHANGED offSince
  OBVIOUS
<1>4. /\ configs' \in ConfigTable /\ offSince' \in [Rows -> Nat]
      /\ \A i \in Rows : offSince'[i] <= minute
      /\ Grows(configs', offSince')
  BY <1>2, <1>3, FeeFacts
<1> QED
  BY <1>1, <1>3, <1>4, FeeStep

\* ... of a transaction, after which its task has to read the rows again.
LEMMA CommitStep ==
    ASSUME FeeInv, UNCHANGED <<minute, cached>>, NEW table \in ConfigTable,
           \A i \in Rows : Used(i) => table[i] \in Config /\ table[i].from = configs[i].from,
           Commit(table),
           NEW t \in Clerks, tasks' = [tasks EXCEPT ![t].at = "read"]
    PROVE  FeeInv'
<1>1. /\ configs' \in ConfigTable /\ offSince' \in [Rows -> Nat]
      /\ \A i \in Rows : offSince'[i] <= minute
  BY FeeFacts DEF Commit
<1>2. Grows(configs', offSince')
  BY DEF Commit, Grows
<1>3. PICK task : task = [tasks[t] EXCEPT !.at = "read"]
  OBVIOUS
<1>4. task \in Task /\ task.at = "read"
  BY <1>3, FeeFacts DEF Task, Places
<1>5. TaskRecent(configs, offSince, minute, task)
  BY <1>4 DEF TaskRecent
<1>6. tasks' = [tasks EXCEPT ![t] = task]
  BY <1>3, Zenon
<1>7. /\ tasks' \in [Clerks -> Task]
      /\ \A u \in Clerks :
            tasks'[u] = tasks[u] \/ TaskRecent(configs, offSince, minute, tasks'[u])
  BY <1>4, <1>5, <1>6, FeeFacts
<1>8. UNCHANGED minute /\ cached' \in [Pairs -> Kept]
      /\ CacheRecent(configs, offSince, minute, cached')
  BY FeeFacts
<1> QED
  BY <1>1, <1>2, <1>7, <1>8, FeeStep

\* The UPDATEs keep what a row says but whether it is active.
LEMMA Flagged ==
    ASSUME NEW c \in Config, NEW flag \in BOOLEAN, NEW d, d = [c EXCEPT !.active = flag]
    PROVE  d \in Config /\ d.pair = c.pair /\ d.from = c.from
BY DEF Config

LEMMA TurnedOff ==
    ASSUME FeeInv, NEW p \in Pairs, NEW also, also \in Rows => Used(also)
    PROVE  /\ TurnOff(p, also) \in ConfigTable
           /\ \A i \in Rows : Used(i) => /\ TurnOff(p, also)[i] \in Config
                                         /\ TurnOff(p, also)[i].from = configs[i].from
<1>1. PICK no \in BOOLEAN : ~no
  OBVIOUS
<1>2. no = FALSE
  BY <1>1
<1>3. TurnOff(p, also) = [i \in Rows |-> IF configs[i].pair = p \/ i = also
                                         THEN [configs[i] EXCEPT !.active = no] ELSE configs[i]]
  BY <1>2, Zenon DEF TurnOff
<1>4. \A i \in Rows : TurnOff(p, also)[i] = IF configs[i].pair = p \/ i = also
                         THEN [configs[i] EXCEPT !.active = no] ELSE configs[i]
  BY <1>3
<1>5. ASSUME NEW i \in Rows
      PROVE  /\ TurnOff(p, also)[i] \in Config \cup {Blank}
             /\ Used(i) => /\ TurnOff(p, also)[i] \in Config
                           /\ TurnOff(p, also)[i].from = configs[i].from
  <2>1. CASE Used(i)
    <3>1. configs[i] \in Config
      BY <2>1, FeeFacts
    <3> QED
      BY <1>1, <1>4, <3>1, Flagged, ZenonT(30)
  <2>2. CASE ~Used(i)
    <3>1. configs[i] = Blank /\ configs[i].pair # p /\ i # also
      BY <2>2, FeeNumbers DEF Used, Blank
    <3> QED
      BY <1>4, <2>2, <3>1
  <2> QED
    BY <2>1, <2>2
<1>6. TurnOff(p, also) \in ConfigTable
  <2> DEFINE table == [i \in Rows |-> IF configs[i].pair = p \/ i = also
                                      THEN [configs[i] EXCEPT !.active = no] ELSE configs[i]]
  <2>1. \A i \in Rows : table[i] \in Config \cup {Blank}
    BY <1>3, <1>5
  <2>2. table \in [Rows -> Config \cup {Blank}]
    BY <2>1
  <2> QED
    BY <1>3, <2>2 DEF ConfigTable
<1> QED
  BY <1>5, <1>6

\* The row of the INSERT after them.
LEMMA NewConfig ==
    ASSUME NEW p \in Pairs, NEW from \in Nat, NEW flag \in BOOLEAN, NEW row,
           row = [pair |-> p, from |-> from, active |-> flag]
    PROVE  row \in Config
BY DEF Config

LEMMA AdminStep ==
    ASSUME FeeInv, NEW a \in Admins, NEW p \in Pairs, NEW from \in 0..MaxMinutes,
           CreateConfig(a, p, from) \/ \E old \in Rows : PatchConfig(a, old, p, from)
    PROVE  FeeInv'
<1>1. from \in Nat /\ minute \in Nat
  BY FeeNumbers, FeeFacts
<1>2. a \in Clerks
  BY DEF Clerks
<1>3. CASE CreateConfig(a, p, from)
  <2>1. PICK i, base, row, table :
           /\ i \in Rows
           /\ base = IF from <= minute THEN TurnOff(p, NoRow) ELSE configs
           /\ row = [pair |-> p, from |-> from, active |-> from <= minute]
           /\ table = [base EXCEPT ![i] = row]
           /\ ~Used(i) /\ Commit(table)
           /\ tasks' = [tasks EXCEPT ![a].at = "read"] /\ UNCHANGED <<minute, cached>>
    BY <1>3, Zenon DEF CreateConfig
  <2>2. PICK flag \in BOOLEAN : flag = (from <= minute)
    <3>1. (from <= minute) \in BOOLEAN
      BY <1>1
    <3> QED
      BY <3>1, Zenon
  <2>3. row \in Config
    <3>1. row = [pair |-> p, from |-> from, active |-> flag]
      BY <2>1, <2>2, Zenon
    <3> QED
      BY <1>1, <3>1, NewConfig
  <2>4. base \in ConfigTable
        /\ \A j \in Rows : Used(j) => base[j] \in Config /\ base[j].from = configs[j].from
    BY <2>1, TurnedOff, FeeFacts, FeeNumbers
  <2>5. /\ table \in ConfigTable
        /\ \A j \in Rows : Used(j) => table[j] \in Config /\ table[j].from = configs[j].from
    <3>1. table = [base EXCEPT ![i] = row] /\ ~Used(i) /\ i \in Rows
      BY <2>1
    <3> QED
      BY <2>3, <2>4, <3>1 DEF ConfigTable
  <2>6. /\ UNCHANGED <<minute, cached>> /\ Commit(table)
        /\ tasks' = [tasks EXCEPT ![a].at = "read"]
    BY <2>1
  <2> QED
    BY <1>2, <2>5, <2>6, CommitStep
<1>4. ASSUME NEW old \in Rows, PatchConfig(a, old, p, from) PROVE FeeInv'
  <2>1. PICK yes \in BOOLEAN : yes
    OBVIOUS
  <2>2. yes = TRUE
    BY <2>1
  <2>3. PICK i, base, row, table :
           /\ i \in Rows
           /\ base = TurnOff(p, old) /\ Used(old)
           /\ row = [pair |-> p, from |-> from, active |-> yes]
           /\ table = [base EXCEPT ![i] = row]
           /\ ~Used(i) /\ Commit(table)
           /\ tasks' = [tasks EXCEPT ![a].at = "read"] /\ UNCHANGED <<minute, cached>>
    BY <1>4, <2>2, Zenon DEF PatchConfig
  <2>4. row \in Config
    BY <1>1, <2>3, NewConfig
  <2>5. base \in ConfigTable
        /\ \A j \in Rows : Used(j) => base[j] \in Config /\ base[j].from = configs[j].from
    BY <2>3, TurnedOff
  <2>6. /\ table \in ConfigTable
        /\ \A j \in Rows : Used(j) => table[j] \in Config /\ table[j].from = configs[j].from
    <3>1. table = [base EXCEPT ![i] = row] /\ ~Used(i) /\ i \in Rows
      BY <2>3
    <3> QED
      BY <2>4, <2>5, <3>1 DEF ConfigTable
  <2>7. /\ UNCHANGED <<minute, cached>> /\ Commit(table)
        /\ tasks' = [tasks EXCEPT ![a].at = "read"]
    BY <2>3
  <2> QED
    BY <1>2, <2>6, <2>7, CommitStep
<1> QED
  BY <1>3, <1>4

LEMMA RestingIsRecent ==
    /\ Resting \in Task /\ \A table, off, t : TaskRecent(table, off, t, Resting)
    /\ Resting.found \in [Pairs -> Rows \cup {NoRow}] /\ \A p \in Pairs : Resting.found[p] = NoRow
BY FeeNumbers DEF Resting, Task, Places, TaskRecent

\* The rows in force are recent ones.
LEMMA ReadIsRecent ==
    ASSUME FeeInv
    PROVE  /\ Read \in [Pairs -> Rows \cup {NoRow}]
           /\ \A p \in Pairs : Read[p] # NoRow =>
                 Recent(configs, offSince, minute, Read[p], 0)
                 /\ Recent(configs, offSince, minute, Read[p], CacheMinutes - 1)
<1>1. ASSUME NEW p \in Pairs
      PROVE  Read[p] = NoRow \/ Read[p] \in InForce(p)
  <2>1. Read[p] = IF InForce(p) = {} THEN NoRow ELSE CHOOSE i \in InForce(p) : TRUE
    BY DEF Read
  <2> QED
    BY <2>1
<1>2. \A p \in Pairs : InForce(p) \subseteq Rows
  BY DEF InForce
<1>3. Read \in [Pairs -> Rows \cup {NoRow}]
  <2>1. \A p \in Pairs : Read[p] \in Rows \cup {NoRow}
    BY <1>1, <1>2
  <2>2. Read = [p \in Pairs |-> Read[p]]
    BY DEF Read
  <2> QED
    BY <2>1, <2>2
<1>4. ASSUME NEW p \in Pairs, NEW i \in InForce(p), NEW k
      PROVE  Recent(configs, offSince, minute, i, k)
  <2>1. i \in Rows /\ configs[i].pair = p /\ configs[i].active /\ configs[i].from <= minute
    BY DEF InForce
  <2>2. configs[i] \in Config
    BY <2>1, FeeFacts, FeeNumbers DEF Blank
  <2> QED
    BY <2>1, <2>2 DEF Recent
<1> QED
  BY <1>1, <1>3, <1>4

\* Task t is at another step, and has found something.
Finds(t, at, found) == tasks' = [tasks EXCEPT ![t].at = at, ![t].found = found]

LEMMA TwoFields ==
    ASSUME FeeInv, NEW t \in Clerks,
           NEW at \in Places,
           NEW found \in [Pairs -> Rows \cup {NoRow}],
           Finds(t, at, found)
    PROVE  \E task \in Task : /\ task.at = at /\ task.found = found
                              /\ task.pair = tasks[t].pair
                              /\ tasks' = [tasks EXCEPT ![t] = task]
<1>1. tasks \in [Clerks -> Task] /\ tasks[t] \in Task
  BY FeeFacts
<1>2. PICK turned : turned = [tasks[t] EXCEPT !.at = at]
  OBVIOUS
<1>3. turned \in Task /\ turned.at = at /\ turned.pair = tasks[t].pair
  BY <1>1, <1>2 DEF Task
<1>4. PICK task : task = [turned EXCEPT !.found = found]
  OBVIOUS
<1>5. task \in Task /\ task.at = at /\ task.found = found /\ task.pair = tasks[t].pair
  BY <1>3, <1>4 DEF Task
<1>6. tasks' = [[tasks EXCEPT ![t] = turned] EXCEPT ![t].found = found]
  BY <1>2, Zenon DEF Finds
<1>7. tasks' = [tasks EXCEPT ![t] = task]
  BY <1>1, <1>3, <1>4, <1>6
<1> QED
  BY <1>5, <1>7

\* A task that is done.
LEMMA RestStep ==
    ASSUME FeeInv, UNCHANGED <<configs, minute, offSince>>,
           NEW t \in Clerks, tasks' = [tasks EXCEPT ![t] = Resting],
           cached' \in [Pairs -> Kept], CacheRecent(configs, offSince, minute, cached')
    PROVE  FeeInv'
BY TaskStep, RestingIsRecent

LEMMA RefreshStep ==
    ASSUME FeeInv, NEW t \in Admins \cup {Job}, RefreshRead(t) \/ RefreshWrite(t)
    PROVE  FeeInv'
<1>1. /\ t \in Clerks /\ cached \in [Pairs -> Kept]
      /\ CacheRecent(configs, offSince, minute, cached)
      /\ tasks[t] \in Task /\ TaskRecent(configs, offSince, minute, tasks[t])
  BY FeeFacts DEF Clerks
<1>2. ASSUME RefreshRead(t), tasks' = [tasks EXCEPT ![t] = Resting] PROVE FeeInv'
  BY <1>1, <1>2, RestStep DEF RefreshRead
<1>3. ASSUME RefreshRead(t), tasks' = [tasks EXCEPT ![t].at = "write", ![t].found = Read]
      PROVE  FeeInv'
  <2>1. Read \in [Pairs -> Rows \cup {NoRow}]
    BY ReadIsRecent
  <2>2. PICK task \in Task : /\ task.at = "write" /\ task.found = Read
                             /\ tasks' = [tasks EXCEPT ![t] = task]
    <3>1. "write" \in Places
      BY DEF Places
    <3>2. Finds(t, "write", Read)
      BY <1>3, Zenon DEF Finds
    <3> QED
      BY <1>1, <2>1, <3>1, <3>2, TwoFields
  <2>3. TaskRecent(configs, offSince, minute, task)
    BY <2>2, ReadIsRecent DEF TaskRecent
  <2> QED
    BY <1>1, <1>3, <2>2, <2>3, TaskStep DEF RefreshRead
<1>4. CASE RefreshWrite(t)
  <2>1. PICK found : found = tasks[t].found
    OBVIOUS
  <2>2. /\ found \in [Pairs -> Rows \cup {NoRow}]
        /\ \A p \in Pairs : found[p] # NoRow => Recent(configs, offSince, minute, found[p], 0)
    BY <1>1, <1>4, <2>1 DEF RefreshWrite, Doing, TaskRecent, Task
  <2>3. PICK kept \in SUBSET Pairs :
           cached' = [p \in Pairs |->
                         IF p \in kept THEN cached[p]
                         ELSE [row |-> found[p],
                               left |-> IF found[p] = NoRow THEN 0 ELSE CacheMinutes]]
    BY <1>4, <2>1 DEF RefreshWrite
  <2>4. \A p \in Pairs :
           \/ cached'[p] = cached[p]
           \/ cached'[p] = [row |-> found[p],
                            left |-> IF found[p] = NoRow THEN 0 ELSE CacheMinutes]
    BY <2>3
  <2>5. ASSUME NEW p \in Pairs
        PROVE  /\ cached'[p] \in Kept
               /\ cached'[p].row # NoRow =>
                     /\ cached'[p].left > 0
                     /\ Recent(configs, offSince, minute, cached'[p].row,
                               CacheMinutes - cached'[p].left)
    <3>1. CASE cached'[p] = cached[p]
      BY <1>1, <3>1 DEF CacheRecent
    <3>2. CASE cached'[p] = [row |-> found[p],
                             left |-> IF found[p] = NoRow THEN 0 ELSE CacheMinutes]
      <4>1. /\ cached'[p].row = found[p] /\ found[p] \in Rows \cup {NoRow}
            /\ cached'[p].left = IF found[p] = NoRow THEN 0 ELSE CacheMinutes
        BY <2>2, <3>2
      <4>2. cached'[p] \in Kept
        BY <2>2, <3>2, FeeNumbers DEF Kept
      <4>3. ASSUME found[p] # NoRow
            PROVE  /\ cached'[p].left > 0
                   /\ Recent(configs, offSince, minute, found[p], CacheMinutes - cached'[p].left)
        <5>1. CacheMinutes - cached'[p].left = 0 /\ cached'[p].left > 0
          BY <4>1, <4>3, FeeNumbers
        <5> QED
          BY <2>2, <4>3, <5>1
      <4> QED
        BY <4>1, <4>2, <4>3
    <3> QED
      BY <2>4, <3>1, <3>2
  <2>6. cached' \in [Pairs -> Kept] /\ CacheRecent(configs, offSince, minute, cached')
    <3>1. cached' = [p \in Pairs |-> cached'[p]]
      BY <2>3
    <3> QED
      BY <2>5, <3>1 DEF CacheRecent
  <2> QED
    BY <1>1, <1>4, <2>6, RestStep DEF RefreshWrite
<1> QED
  BY <1>2, <1>3, <1>4 DEF RefreshRead

LEMMA FindDueStep ==
    ASSUME FeeInv, FindDue PROVE FeeInv'
<1>1. PICK pick \in [Pairs -> Rows \cup {NoRow}] :
         /\ \A p \in Pairs : pick[p] = NoRow \/ pick[p] \in Due(p)
         /\ tasks' = [tasks EXCEPT ![Job].at = "activate", ![Job].found = pick]
  BY DEF FindDue
<1>2. PICK task \in Task : /\ task.at = "activate" /\ task.found = pick
                           /\ tasks' = [tasks EXCEPT ![Job] = task]
  <2>1. /\ "activate" \in Places
        /\ Job \in Clerks
    BY DEF Places, Clerks
  <2>2. Finds(Job, "activate", pick)
    BY <1>1, Zenon DEF Finds
  <2> QED
    BY <2>1, <2>2, TwoFields
<1>3. ASSUME NEW p \in Pairs, NEW i \in Due(p) PROVE configs[i] \in Config
  <2>1. i \in Rows /\ configs[i].pair = p
    BY DEF Due
  <2>2. configs[i] \in Config \/ configs[i] = Blank
    BY <2>1, FeeFacts
  <2>3. Blank.pair = "none" /\ "none" \notin Pairs
    BY FeeNumbers DEF Blank
  <2> QED
    BY <2>1, <2>2, <2>3
<1>4. TaskRecent(configs, offSince, minute, task)
  BY <1>1, <1>2, <1>3 DEF TaskRecent
<1>5. cached' \in [Pairs -> Kept] /\ CacheRecent(configs, offSince, minute, cached')
      /\ UNCHANGED <<configs, minute, offSince>>
  BY FeeFacts DEF FindDue
<1> QED
  BY <1>2, <1>4, <1>5, TaskStep DEF Clerks

LEMMA ActivateStep ==
    ASSUME FeeInv, Activate PROVE FeeInv'
<1>1. tasks[Job] \in Task /\ TaskRecent(configs, offSince, minute, tasks[Job])
      /\ tasks[Job].at = "activate" /\ UNCHANGED <<minute, cached>>
      /\ cached' \in [Pairs -> Kept] /\ CacheRecent(configs, offSince, minute, cached')
  BY FeeFacts DEF Activate, Doing, Clerks
<1>2. CASE UNCHANGED <<configs, offSince>> /\ tasks' = [tasks EXCEPT ![Job] = Resting]
  BY <1>1, <1>2, RestStep DEF Clerks
<1>3. PICK pick : pick = tasks[Job].found
  OBVIOUS
<1>4. /\ pick \in [Pairs -> Rows \cup {NoRow}]
      /\ \A p \in Pairs : pick[p] # NoRow => configs[pick[p]] \in Config
  BY <1>1, <1>3 DEF Task, TaskRecent
<1>5. PICK yes, no \in BOOLEAN : yes /\ ~no
  OBVIOUS
<1>6. yes = TRUE /\ no = FALSE
  BY <1>5
<1>7. PICK table, after :
         /\ table = [i \in Rows |->
                       IF configs[i].pair \in Pairs /\ pick[configs[i].pair] # NoRow
                       THEN [configs[i] EXCEPT !.active = no] ELSE configs[i]]
         /\ after = [i \in Rows |->
                       IF \E p \in Pairs : pick[p] = i
                       THEN [table[i] EXCEPT !.active = yes] ELSE table[i]]
  OBVIOUS
<1>8. CASE Commit(after) /\ tasks' = [tasks EXCEPT ![Job].at = "read"]
  <2>1. ASSUME NEW i \in Rows
        PROVE  /\ table[i] \in Config \cup {Blank}
               /\ configs[i] \in Config => table[i] \in Config /\ table[i].from = configs[i].from
    <3>1. table[i] = IF configs[i].pair \in Pairs /\ pick[configs[i].pair] # NoRow
                     THEN [configs[i] EXCEPT !.active = no] ELSE configs[i]
      BY <1>7
    <3>2. CASE configs[i] \in Config
      BY <1>5, <3>1, <3>2, Flagged
    <3>3. CASE configs[i] = Blank
      <4>1. configs[i].pair \notin Pairs
        BY <3>3, FeeNumbers DEF Blank
      <4> QED
        BY <3>1, <3>3, <4>1, ConfigIsUsed
    <3> QED
      BY <3>2, <3>3, FeeFacts
  <2>2. ASSUME NEW i \in Rows
        PROVE  /\ after[i] \in Config \cup {Blank}
               /\ configs[i] \in Config => after[i] \in Config /\ after[i].from = configs[i].from
    <3>1. after[i] = IF \E p \in Pairs : pick[p] = i
                     THEN [table[i] EXCEPT !.active = yes] ELSE table[i]
      BY <1>7
    <3>2. CASE \E p \in Pairs : pick[p] = i
      <4>1. configs[i] \in Config
        BY <1>4, <3>2, FeeNumbers
      <4>2. table[i] \in Config /\ table[i].from = configs[i].from
        BY <2>1, <4>1
      <4>3. after[i] = [table[i] EXCEPT !.active = yes]
        BY <3>1, <3>2
      <4>4. after[i] \in Config /\ after[i].from = table[i].from
        BY <4>2, <4>3 DEF Config
      <4> QED
        BY <4>2, <4>4
    <3>3. CASE ~ \E p \in Pairs : pick[p] = i
      BY <2>1, <3>1, <3>3
    <3> QED
      BY <3>2, <3>3
  <2>3. after \in ConfigTable
    <3>1. after = [i \in Rows |-> after[i]]
      BY <1>7
    <3> QED
      BY <2>2, <3>1 DEF ConfigTable
  <2>4. \A i \in Rows : Used(i) => after[i] \in Config /\ after[i].from = configs[i].from
    BY <2>2, FeeFacts
  <2>5. Job \in Clerks
    BY DEF Clerks
  <2> QED
    BY <1>1, <1>8, <2>3, <2>4, <2>5, CommitStep
<1>9. \/ Commit(after) /\ tasks' = [tasks EXCEPT ![Job].at = "read"]
      \/ UNCHANGED <<configs, offSince>> /\ tasks' = [tasks EXCEPT ![Job] = Resting]
  BY <1>3, <1>6, <1>7, Zenon DEF Activate
<1> QED
  BY <1>2, <1>8, <1>9, ZenonT(30)

\* A row that the cache still has, or that was read just now, is recent enough
\* for a quote.
LEMMA CachedIsRecent ==
    ASSUME FeeInv, NEW p \in Pairs, cached[p].row # NoRow
    PROVE  /\ cached[p].row \in Rows
           /\ Recent(configs, offSince, minute, cached[p].row, CacheMinutes - 1)
<1>1. /\ cached[p].row \in Rows /\ cached[p].left \in 0..CacheMinutes /\ cached[p].left > 0
      /\ Recent(configs, offSince, minute, cached[p].row, CacheMinutes - cached[p].left)
  BY FeeFacts DEF Kept, CacheRecent
<1>2. offSince[cached[p].row] \in Nat /\ minute \in Nat
  BY <1>1, FeeFacts
<1>3. CacheMinutes - cached[p].left <= CacheMinutes - 1
  BY <1>1, FeeNumbers
<1>4. minute - offSince[cached[p].row] <= CacheMinutes - cached[p].left
      => minute - offSince[cached[p].row] <= CacheMinutes - 1
  BY <1>1, <1>2, <1>3, FeeNumbers
<1> QED
  BY <1>1, <1>4 DEF Recent

LEMMA JustRead ==
    ASSUME FeeInv, NEW i \in Rows, Recent(configs, offSince, minute, i, 0)
    PROVE  Recent(configs, offSince, minute, i, CacheMinutes - 1)
<1>1. offSince[i] \in Nat /\ minute \in Nat /\ 0 <= CacheMinutes - 1
  BY FeeFacts, FeeNumbers
<1>2. minute - offSince[i] <= 0 => minute - offSince[i] <= CacheMinutes - 1
  BY <1>1, FeeNumbers
<1> QED
  BY <1>2 DEF Recent

\* What a request has found: at most one row.
OneRow(p, i) == [Resting.found EXCEPT ![p] = i]

LEMMA OneRowFound ==
    ASSUME NEW p \in Pairs, NEW i \in Rows \cup {NoRow}
    PROVE  /\ OneRow(p, i) \in [Pairs -> Rows \cup {NoRow}]
           /\ \A q \in Pairs : OneRow(p, i)[q] = IF q = p THEN i ELSE NoRow
BY RestingIsRecent DEF OneRow

LEMMA QuoteStep ==
    ASSUME FeeInv, NEW q \in Quotes,
           (\E p \in Pairs : AskCache(q, p)) \/ QueryConfig(q) \/ FillCache(q) \/ Quoted(q)
    PROVE  FeeInv'
<1>1. /\ q \in Clerks /\ cached \in [Pairs -> Kept]
      /\ CacheRecent(configs, offSince, minute, cached)
      /\ tasks[q] \in Task /\ TaskRecent(configs, offSince, minute, tasks[q])
  BY FeeFacts DEF Clerks
<1>2. ASSUME NEW p \in Pairs, AskCache(q, p) PROVE FeeInv'
  <2>1. UNCHANGED <<configs, minute, offSince>> /\ UNCHANGED cached
    BY <1>2 DEF AskCache
  <2>2. CASE /\ cached[p].row # NoRow
             /\ tasks' = [tasks EXCEPT ![q] = [at |-> "quoted", pair |-> p,
                                               found |-> OneRow(p, cached[p].row)]]
    <3>1. PICK task : task = [at |-> "quoted", pair |-> p, found |-> OneRow(p, cached[p].row)]
      OBVIOUS
    <3>2. /\ cached[p].row \in Rows
          /\ Recent(configs, offSince, minute, cached[p].row, CacheMinutes - 1)
      BY <2>2, CachedIsRecent
    <3>3. task \in Task /\ task.at = "quoted" /\ task.found = OneRow(p, cached[p].row)
      BY <3>1, <3>2, OneRowFound DEF Task, Places
    <3>4. TaskRecent(configs, offSince, minute, task)
      BY <3>2, <3>3, OneRowFound DEF TaskRecent
    <3>5. tasks' = [tasks EXCEPT ![q] = task]
      BY <2>2, <3>1
    <3> QED
      BY <1>1, <2>1, <3>3, <3>4, <3>5, TaskStep
  <2>3. CASE tasks' = [tasks EXCEPT ![q] = [Resting EXCEPT !.at = "query", !.pair = p]]
    <3>1. PICK task : task = [Resting EXCEPT !.at = "query", !.pair = p]
      OBVIOUS
    <3>2. /\ task \in Task /\ task.at = "query" /\ task.pair = p
          /\ task.found = Resting.found
      BY <3>1, RestingIsRecent DEF Task, Places
    <3>3. TaskRecent(configs, offSince, minute, task)
      BY <3>2, RestingIsRecent DEF TaskRecent
    <3>4. tasks' = [tasks EXCEPT ![q] = task]
      BY <2>3, <3>1
    <3> QED
      BY <1>1, <2>1, <3>2, <3>3, <3>4, TaskStep
  <2> QED
    BY <1>2, <2>2, <2>3 DEF AskCache, OneRow
<1>3. CASE QueryConfig(q)
  <2>1. PICK p, at, found :
           /\ p = tasks[q].pair /\ at = IF Read[p] = NoRow THEN "quoted" ELSE "fill"
           /\ found = OneRow(p, Read[p])
    OBVIOUS
  <2>2. p \in Pairs /\ at \in Places
    BY <1>1, <1>3, <2>1 DEF QueryConfig, Doing, TaskRecent, Places
  <2>3. /\ Read[p] \in Rows \cup {NoRow}
        /\ Read[p] # NoRow => /\ Recent(configs, offSince, minute, Read[p], 0)
                              /\ Recent(configs, offSince, minute, Read[p], CacheMinutes - 1)
    BY <2>2, ReadIsRecent
  <2>4. /\ found \in [Pairs -> Rows \cup {NoRow}]
        /\ \A r \in Pairs : found[r] = IF r = p THEN Read[p] ELSE NoRow
    BY <2>1, <2>2, <2>3, OneRowFound
  <2>5. Finds(q, at, found)
    BY <1>3, <2>1, Zenon DEF QueryConfig, Finds, OneRow
  <2>6. PICK task \in Task : /\ task.at = at /\ task.found = found /\ task.pair = p
                             /\ tasks' = [tasks EXCEPT ![q] = task]
    BY <1>1, <2>1, <2>2, <2>4, <2>5, TwoFields
  <2>7. TaskRecent(configs, offSince, minute, task)
    BY <2>1, <2>2, <2>3, <2>4, <2>6 DEF TaskRecent
  <2> QED
    BY <1>1, <1>3, <2>6, <2>7, TaskStep DEF QueryConfig
<1>4. CASE FillCache(q)
  <2>1. PICK p, i, key : /\ p = tasks[q].pair /\ i = tasks[q].found[p]
                         /\ key = [row |-> i, left |-> CacheMinutes]
    OBVIOUS
  <2>2. p \in Pairs /\ i \in Rows \cup {NoRow} /\ tasks[q].at = "fill"
    BY <1>1, <1>4, <2>1 DEF FillCache, Doing, TaskRecent, Task
  <2>3. key \in Kept /\ key.row = i /\ key.left = CacheMinutes
    BY <2>1, <2>2, FeeNumbers DEF Kept
  <2>4. i # NoRow => Recent(configs, offSince, minute, i, CacheMinutes - key.left)
    <3>1. CacheMinutes - key.left = 0
      BY <2>3, FeeNumbers
    <3>2. i # NoRow => Recent(configs, offSince, minute, i, 0)
      BY <1>1, <2>1, <2>2 DEF TaskRecent
    <3> QED
      BY <3>1, <3>2
  <2>5. cached' = cached \/ cached' = [cached EXCEPT ![p] = key]
    BY <1>4, <2>1 DEF FillCache
  <2>6. cached' \in [Pairs -> Kept] /\ CacheRecent(configs, offSince, minute, cached')
    <3>1. cached' \in [Pairs -> Kept]
      BY <1>1, <2>2, <2>3, <2>5
    <3>2. \A r \in Pairs : cached'[r] = cached[r] \/ (r = p /\ cached'[r] = key)
      BY <1>1, <2>2, <2>5
    <3> QED
      BY <1>1, <2>3, <2>4, <3>1, <3>2, FeeNumbers DEF CacheRecent
  <2>7. PICK task : task = [tasks[q] EXCEPT !.at = "quoted"]
    OBVIOUS
  <2>8. task \in Task /\ task.at = "quoted" /\ task.found = tasks[q].found
    BY <1>1, <2>7 DEF Task, Places
  <2>9. TaskRecent(configs, offSince, minute, task)
    <3>1. ASSUME NEW r \in Pairs, task.found[r] # NoRow
          PROVE  Recent(configs, offSince, minute, task.found[r], CacheMinutes - 1)
      <4>1. task.found[r] \in Rows
        BY <2>8, <3>1 DEF Task
      <4>2. Recent(configs, offSince, minute, task.found[r], 0)
        BY <1>1, <2>2, <2>8, <3>1 DEF TaskRecent
      <4> QED
        BY <4>1, <4>2, JustRead
    <3> QED
      BY <2>8, <3>1 DEF TaskRecent
  <2>10. tasks' = [tasks EXCEPT ![q] = task]
    BY <1>4, <2>7, Zenon DEF FillCache
  <2> QED
    BY <1>1, <1>4, <2>6, <2>8, <2>9, <2>10, TaskStep DEF FillCache
<1>5. CASE Quoted(q)
  BY <1>1, <1>5, RestStep DEF Quoted
<1> QED
  BY <1>2, <1>3, <1>4, <1>5

\* A minute takes a minute from every key's time, and no task is at a write.
LEMMA MinuteStep ==
    ASSUME FeeInv, MinutePasses PROVE FeeInv'
<1>1. /\ minute \in Nat /\ offSince \in [Rows -> Nat] /\ minute' = minute + 1
      /\ \A i \in Rows : offSince[i] \in Nat /\ offSince[i] <= minute
      /\ cached \in [Pairs -> Kept] /\ CacheRecent(configs, offSince, minute, cached)
      /\ UNCHANGED configs /\ UNCHANGED tasks /\ UNCHANGED offSince
      /\ \A i \in Rows : configs[i] \in Config => configs[i].from \in Nat
  BY FeeFacts DEF MinutePasses, Config
<1>2. \A i \in Rows : offSince'[i] <= minute'
  BY <1>1
<1>3. \A p \in Pairs : cached'[p] = IF cached[p].left <= 1 THEN [row |-> NoRow, left |-> 0]
                                    ELSE [cached[p] EXCEPT !.left = @ - 1]
  BY DEF MinutePasses
<1>4. ASSUME NEW p \in Pairs
      PROVE  /\ cached'[p] \in Kept
             /\ cached'[p].row # NoRow =>
                   /\ cached'[p].left > 0
                   /\ Recent(configs, offSince, minute + 1, cached'[p].row,
                             CacheMinutes - cached'[p].left)
  <2>1. cached[p] \in Kept /\ cached[p].left \in 0..CacheMinutes
        /\ cached[p].row \in Rows \cup {NoRow}
    BY <1>1 DEF Kept
  <2>2. CASE cached[p].left <= 1
    <3>1. cached'[p] = [row |-> NoRow, left |-> 0]
      BY <1>3, <2>2
    <3>2. 0 \in 0..CacheMinutes
      BY FeeNumbers
    <3> QED
      BY <3>1, <3>2 DEF Kept
  <2>3. CASE cached[p].left > 1
    <3>1. cached'[p] = [cached[p] EXCEPT !.left = @ - 1]
      BY <1>3, <2>1, <2>3, FeeNumbers
    <3>2. cached[p].left - 1 \in 0..CacheMinutes /\ cached[p].left - 1 > 0
      BY <2>1, <2>3, FeeNumbers
    <3>3. /\ cached'[p] \in Kept /\ cached'[p].row = cached[p].row
          /\ cached'[p].left = cached[p].left - 1
      BY <2>1, <3>1, <3>2 DEF Kept
    <3>4. ASSUME cached[p].row # NoRow
          PROVE  Recent(configs, offSince, minute + 1, cached[p].row,
                        CacheMinutes - (cached[p].left - 1))
      <4>1. PICK i \in Rows : i = cached[p].row
        BY <2>1, <3>4
      <4>2. /\ configs[i] \in Config /\ configs[i].from <= minute
            /\ configs[i].active \/ minute - offSince[i] <= CacheMinutes - cached[p].left
        BY <1>1, <3>4, <4>1 DEF CacheRecent, Recent
      <4>3. configs[i].from <= minute + 1
        BY <1>1, <4>2
      <4>4. minute - offSince[i] <= CacheMinutes - cached[p].left
            => (minute + 1) - offSince[i] <= CacheMinutes - (cached[p].left - 1)
        BY <1>1, <2>1, FeeNumbers
      <4>5. Recent(configs, offSince, minute + 1, i, CacheMinutes - (cached[p].left - 1))
        <5> HIDE <4>1
        <5>1. configs[i].active
              \/ (minute + 1) - offSince[i] <= CacheMinutes - (cached[p].left - 1)
          BY <4>2, <4>4, Zenon
        <5> QED
          BY <4>2, <4>3, <5>1, Zenon DEF Recent
      <4> QED
        BY <4>1, <4>5
    <3> QED
      BY <3>2, <3>3, <3>4
  <2> QED
    BY <2>1, <2>2, <2>3, FeeNumbers
<1>5. cached' \in [Pairs -> Kept] /\ CacheRecent(configs, offSince, minute + 1, cached')
  <2>1. cached' = [p \in Pairs |-> cached'[p]]
    BY DEF MinutePasses
  <2> QED
    BY <1>4, <2>1 DEF CacheRecent
<1>6. tasks \in [Clerks -> Task]
  BY FeeFacts
<1>7. ASSUME NEW t \in Clerks PROVE TaskRecent(configs, offSince, minute + 1, tasks[t])
  <2>1. tasks[t].at \in {"rest", "query"} /\ TaskRecent(configs, offSince, minute, tasks[t])
    BY <1>6, FeeFacts DEF MinutePasses
  <2> QED
    BY <2>1 DEF TaskRecent
<1>8. /\ CacheRecent(configs, offSince, minute, cached)'
      /\ (\A t \in DOMAIN tasks : TaskRecent(configs, offSince, minute, tasks[t]))'
  BY <1>1, <1>5, <1>6, <1>7
<1>9. minute' \in Nat /\ configs' \in ConfigTable /\ offSince' \in [Rows -> Nat]
      /\ tasks' \in [Clerks -> Task]
  BY <1>1, <1>6, FeeFacts
<1> QED
  BY <1>2, <1>5, <1>8, <1>9 DEF FeeInv

LEMMA FeeStarts == FeeInit => FeeInv
<1> SUFFICES ASSUME FeeInit PROVE FeeInv
  OBVIOUS
<1>1. configs \in ConfigTable
  <2>1. PICK yes \in BOOLEAN : yes
    OBVIOUS
  <2>2. yes = TRUE
    BY <2>1
  <2>3. configs \in [Rows -> [pair : Pairs, from : {1}, active : {yes}] \cup {Blank}]
    BY <2>2, Zenon DEF FeeInit
  <2>4. [pair : Pairs, from : {1}, active : {yes}] \subseteq Config
    BY DEF Config
  <2> QED
    BY <2>3, <2>4 DEF ConfigTable
<1>2. /\ minute = 1 /\ cached = [p \in Pairs |-> [row |-> NoRow, left |-> 0]]
      /\ tasks = [t \in Clerks |-> Resting] /\ offSince = [i \in Rows |-> 0]
  BY DEF FeeInit, Clerks
<1>3. [row |-> NoRow, left |-> 0] \in Kept
  BY FeeNumbers DEF Kept
<1>4. cached \in [Pairs -> Kept] /\ CacheRecent(configs, offSince, minute, cached)
  BY <1>2, <1>3 DEF CacheRecent
<1>5. tasks \in [Clerks -> Task]
      /\ \A t \in DOMAIN tasks : TaskRecent(configs, offSince, minute, tasks[t])
  BY <1>2, RestingIsRecent
<1> QED
  BY <1>1, <1>2, <1>4, <1>5 DEF FeeInv

LEMMA FeeInvariant == FeeSpec => []FeeInv
<1>1. FeeInv /\ [FeeNext]_feeVars => FeeInv'
  <2> SUFFICES ASSUME FeeInv, [FeeNext]_feeVars PROVE FeeInv'
    OBVIOUS
  <2>1. CASE UNCHANGED feeVars
    BY <2>1 DEF feeVars, FeeInv, CacheRecent, TaskRecent, Recent
  <2>2. ASSUME NEW a \in Admins, RefreshRead(a) \/ RefreshWrite(a) PROVE FeeInv'
    BY <2>2, RefreshStep
  <2>3. CASE JobStep
    BY <2>3, RefreshStep, FindDueStep, ActivateStep DEF JobStep
  <2>4. ASSUME NEW a \in Admins, NEW p \in Pairs, NEW from \in 0..MaxMinutes,
               CreateConfig(a, p, from) \/ \E old \in Rows : PatchConfig(a, old, p, from)
        PROVE  FeeInv'
    BY <2>4, AdminStep
  <2>5. ASSUME NEW q \in Quotes,
               (\E p \in Pairs : AskCache(q, p)) \/ QueryConfig(q) \/ FillCache(q) \/ Quoted(q)
        PROVE  FeeInv'
    BY <2>5, QuoteStep
  <2>6. CASE MinutePasses
    BY <2>6, MinuteStep
  <2> QED
    BY <2>1, <2>2, <2>3, <2>4, <2>5, <2>6 DEF FeeNext
<1> QED
  BY <1>1, FeeStarts, PTL DEF FeeSpec

\* No quote uses a configuration that was replaced longer ago than the cache's
\* time, however administrators, the activation job and other quotes interleave
\* between their reads and their writes of the cache, and whichever of those
\* writes fail.  (Each writes within the minute of its read: MinutePasses.)
THEOREM QuotesAreRecent == FeeSpec => []QuotesRecent
<1>1. ASSUME FeeInv PROVE QuotesRecent
  <2> SUFFICES ASSUME NEW q \in Quotes, NEW p \in Pairs, NEW i, i = tasks[q].found[p],
                      tasks[q].at = "quoted", i # NoRow
               PROVE  /\ configs[i].from <= minute
                      /\ configs[i].active \/ minute - offSince[i] < CacheMinutes
    BY DEF QuotesRecent, Doing
  <2>1. tasks[q] \in Task /\ TaskRecent(configs, offSince, minute, tasks[q])
    BY <1>1, FeeFacts DEF Clerks
  <2>2. i \in Rows /\ Recent(configs, offSince, minute, i, CacheMinutes - 1)
    BY <2>1 DEF TaskRecent, Task
  <2>3. offSince[i] \in Nat /\ minute \in Nat
    BY <1>1, <2>2, FeeFacts
  <2>4. minute - offSince[i] <= CacheMinutes - 1 => minute - offSince[i] < CacheMinutes
    BY <2>3, FeeNumbers
  <2> QED
    BY <2>2, <2>4 DEF Recent
<1> QED
  BY <1>1, FeeInvariant, PTL

=============================================================================
