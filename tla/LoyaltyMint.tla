---------------------------- MODULE LoyaltyMint ----------------------------
(***************************************************************************)
(* The loyalty mint queue (backend/src/jobs/loyaltyMintJob.js): payments   *)
(* leave a row in loyalty_mint_queue, and on every replica a cron job goes *)
(* through its slots, each under a distributed lock, claims one row whose  *)
(* payment is completed, mints the points on chain and records the result. *)
(*                                                                         *)
(* Rows are numbered in the order of created_at.  Every await is a point   *)
(* where another replica may run; a claim is two steps, SELECT FOR UPDATE  *)
(* SKIP LOCKED and UPDATE ... COMMIT.  A write that fails was not made, or *)
(* was committed and its answer lost: the job cannot tell.                 *)
(***************************************************************************)
EXTENDS DistributedLock, FiniteSets

CONSTANTS
    MaxJobs,  \* bound: rows 1..MaxJobs are enqueued
    Dust      \* the rows whose payment is below the minimum

ASSUME MintConstants == MaxJobs \in Nat /\ Dust \subseteq 1..MaxJobs /\ 1 \in Slots

Jobs == 1..MaxJobs

VARIABLES
    queue,    \* loyalty_mint_queue: status and retry_count
    paid,     \* the rows whose payment is completed (transactions.status)
    work,     \* what each replica's processLoyaltyMintQueue is doing
    attempts, \* calls of mintPoints for each row
    mints,    \* mints on chain for each row
    slips,    \* mints that the job takes for failed (timeout, failed write)
    credits,  \* rows of loyalty_points for each row
    echoes    \* those of them whose INSERT was answered with an error

mintVars == <<queue, paid, work, attempts, mints, slips, credits, echoes>>
vars == <<mintVars, lockVars>>

Off == [at |-> "off", job |-> 0, retries |-> 0, slot |-> 0]

LoyaltyInit ==
    /\ LockInit
    /\ queue = [j \in Jobs |-> [status |-> "pending", retries |-> 0]]
    /\ paid = {}
    /\ work = [r \in Replicas |-> Off]
    /\ attempts = [j \in Jobs |-> 0]
    /\ mints = [j \in Jobs |-> 0]
    /\ slips = [j \in Jobs |-> 0]
    /\ credits = [j \in Jobs |-> 0]
    /\ echoes = [j \in Jobs |-> 0]

At(r, where) == work[r].at = where
GoTo(r, where) == work' = [work EXCEPT ![r].at = where]
SetStatus(j, status) == queue' = [queue EXCEPT ![j].status = status]
Slip(j) == slips' = [slips EXCEPT ![j] = @ + 1]
Ghosts == <<attempts, mints, slips, credits, echoes>>

RowLocked(j) == \E r \in Replicas : At(r, "mark") /\ work[r].job = j

\* Mutant of Claimable: no row lock between the SELECT and the UPDATE.
ClaimableUnlocked == {j \in paid : queue[j].status = "pending"}

Claimable == {j \in paid : queue[j].status = "pending" /\ ~RowLocked(j)}

-----------------------------------------------------------------------------
\* The payment of a row is confirmed.
CompletePayment(j) ==
    /\ j \notin paid
    /\ paid' = paid \cup {j}
    /\ UNCHANGED <<lockVars, queue, work, Ghosts>>

\* The cron starts the job; safeJob lets no replica run it twice at once.
StartJob(r) ==
    /\ At(r, "off")
    /\ work' = [work EXCEPT ![r] = [Off EXCEPT !.at = "acquire", !.slot = 1]]
    /\ UNCHANGED <<lockVars, queue, paid, Ghosts>>

\* The end of the loop's body: the next slot, or the end of the job.
NextSlot(r) ==
    work' = [work EXCEPT ![r] =
               IF @.slot + 1 \in Slots
               THEN [Off EXCEPT !.at = "acquire", !.slot = work[r].slot + 1]
               ELSE Off]

TakeSlot(r) ==
    /\ At(r, "acquire")
    /\ \/ Acquire(r, work[r].slot) /\ GoTo(r, "claim")
       \/ AcquireRefused(r, work[r].slot) /\ NextSlot(r)
    /\ UNCHANGED <<queue, paid, Ghosts>>

\* Mutant of SelectRow: the oldest pending row, completed payment or not, is
\* picked first and left alone when its payment is not completed.
SelectOldest(r) ==
    /\ At(r, "claim")
    /\ IF Claimable # {} /\ \A k \in Jobs \ paid :
              queue[k].status = "pending" => \E j \in Claimable : j < k
       THEN \E j \in Claimable :
              /\ \A k \in Claimable : j <= k
              /\ work' = [work EXCEPT ![r].at = "mark", ![r].job = j,
                                      ![r].retries = queue[j].retries]
       ELSE GoTo(r, "release")
    /\ UNCHANGED <<lockVars, queue, paid, Ghosts>>

\* SELECT ... FOR UPDATE OF lq SKIP LOCKED: the oldest claimable row.  Without
\* one, or if the database fails, the slot is left.
SelectRow(r) ==
    /\ At(r, "claim")
    /\ \/ Claimable = {} /\ GoTo(r, "release") /\ UNCHANGED faults
       \/ /\ \E j \in Claimable :
               /\ \A k \in Claimable : j <= k
               /\ work' = [work EXCEPT ![r].at = "mark", ![r].job = j,
                                       ![r].retries = queue[j].retries]
          /\ UNCHANGED faults
       \/ Fail /\ GoTo(r, "release")
    /\ UNCHANGED <<keys, holds, queue, paid, Ghosts>>

\* UPDATE status = 'processing', COMMIT; a failure is logged, and the row is
\* rolled back, or left 'processing' if it was only the COMMIT's answer.
MarkProcessing(r) ==
    LET j == work[r].job
        marked == [queue EXCEPT ![j] =
                      [status |-> "processing", retries |-> @.retries + 1]]
    IN  /\ At(r, "mark")
        /\ \/ queue' = marked /\ GoTo(r, "mint") /\ UNCHANGED faults
           \/ Fail /\ GoTo(r, "release") /\ queue' \in {queue, marked}
        /\ UNCHANGED <<keys, holds, paid, Ghosts>>

\* The payment is below the minimum: completed without a mint.  This UPDATE is
\* outside the try, so its failure may leave the row 'processing'.
SkipDust(r) ==
    LET j == work[r].job IN
    /\ At(r, "mint")
    /\ j \in Dust
    /\ \/ SetStatus(j, "completed") /\ UNCHANGED faults
       \/ Fail /\ (SetStatus(j, "completed") \/ UNCHANGED queue)
    /\ GoTo(r, "release")
    /\ UNCHANGED <<keys, holds, paid, Ghosts>>

\* mintPoints: the mint is confirmed; or fails; or lands but its confirmation
\* times out; or there is no contract or key, and it returns null.
Mint(r) ==
    LET j == work[r].job IN
    /\ At(r, "mint")
    /\ j \notin Dust
    /\ attempts' = [attempts EXCEPT ![j] = @ + 1]
    /\ \/ /\ mints' = [mints EXCEPT ![j] = @ + 1]
          /\ GoTo(r, "complete")
          /\ UNCHANGED <<slips, faults>>
       \/ GoTo(r, "handle") /\ UNCHANGED <<mints, slips, faults>>
       \/ /\ Fail
          /\ mints' = [mints EXCEPT ![j] = @ + 1]
          /\ Slip(j)
          /\ GoTo(r, "handle")
       \/ GoTo(r, "nothing minted") /\ UNCHANGED <<mints, slips, faults>>
    /\ UNCHANGED <<keys, holds, queue, paid, credits, echoes>>

\* mintPoints returned null: UPDATE status = 'completed' inside the try.
CompleteUnminted(r) ==
    /\ At(r, "nothing minted")
    /\ \/ /\ SetStatus(work[r].job, "completed")
          /\ GoTo(r, "release")
          /\ UNCHANGED faults
       \/ /\ Fail
          /\ SetStatus(work[r].job, "completed") \/ UNCHANGED queue
          /\ GoTo(r, "handle")
    /\ UNCHANGED <<keys, holds, paid, Ghosts>>

\* After a mint: UPDATE status = 'completed', tx_hash.
Complete(r) ==
    /\ At(r, "complete")
    /\ \/ /\ SetStatus(work[r].job, "completed")
          /\ GoTo(r, "credit")
          /\ UNCHANGED <<slips, faults>>
       \/ /\ Fail
          /\ SetStatus(work[r].job, "completed") \/ UNCHANGED queue
          /\ Slip(work[r].job)
          /\ GoTo(r, "handle")
    /\ UNCHANGED <<keys, holds, paid, attempts, mints, credits, echoes>>

\* INSERT INTO loyalty_points, under an id made for this attempt; an error is
\* handled as a failed mint's, whether or not the row was inserted.
Credit(r) ==
    LET j == work[r].job
        inserted == [credits EXCEPT ![j] = @ + 1]
    IN  /\ At(r, "credit")
        /\ \/ /\ credits' = inserted
              /\ GoTo(r, "release")
              /\ UNCHANGED <<slips, echoes, faults>>
           \/ /\ Fail
              /\ \/ UNCHANGED <<credits, echoes>>
                 \/ /\ credits' = inserted
                    /\ echoes' = [echoes EXCEPT ![j] = @ + 1]
              /\ Slip(j)
              /\ GoTo(r, "handle")
        /\ UNCHANGED <<keys, holds, queue, paid, attempts, mints>>

\* Mutant of HandleError: the second increment of retry_count is dropped.
HandleErrorOnce(r) ==
    LET j == work[r].job IN
    /\ At(r, "handle")
    /\ queue' = [queue EXCEPT ![j].status =
                   IF work[r].retries < 3 THEN "pending" ELSE "failed"]
    /\ GoTo(r, "release")
    /\ UNCHANGED <<lockVars, paid, Ghosts>>

\* The catch: back to pending while the retry_count read by the SELECT, before
\* claimNextJob's own increment, is below 3; failed otherwise.
HandleError(r) ==
    LET j == work[r].job
        handled == [queue EXCEPT ![j] =
                       IF work[r].retries < 3
                       THEN [status |-> "pending", retries |-> @.retries + 1]
                       ELSE [@ EXCEPT !.status = "failed"]]
    IN  /\ At(r, "handle")
        /\ \/ queue' = handled /\ UNCHANGED faults
           \/ Fail /\ queue' \in {queue, handled}
        /\ GoTo(r, "release")
        /\ UNCHANGED <<keys, holds, paid, Ghosts>>

LeaveSlot(r) ==
    /\ At(r, "release")
    /\ Release(r)
    /\ NextSlot(r)
    /\ UNCHANGED <<queue, paid, Ghosts>>

Beat(r) == Heartbeat(r) /\ UNCHANGED mintVars

TimePasses == Elapse /\ UNCHANGED mintVars

\* The process dies: its row locks go with its connection, its key stays in
\* Redis until it expires, and a row it had marked stays 'processing'.
Crash(r) ==
    /\ ~At(r, "off")
    /\ Fail
    /\ work' = [work EXCEPT ![r] = Off]
    /\ holds' = [holds EXCEPT ![r] = NotIn]
    /\ UNCHANGED <<keys, queue, paid, Ghosts>>

Work(r) ==
    \/ StartJob(r)
    \/ TakeSlot(r)
    \/ SelectRow(r)
    \/ MarkProcessing(r)
    \/ SkipDust(r)
    \/ Mint(r)
    \/ CompleteUnminted(r)
    \/ Complete(r)
    \/ Credit(r)
    \/ HandleError(r)
    \/ LeaveSlot(r)

LoyaltyNext ==
    \/ \E j \in Jobs : CompletePayment(j)
    \/ \E r \in Replicas : Work(r) \/ Beat(r) \/ Crash(r)
    \/ TimePasses

LoyaltySpec == LoyaltyInit /\ [][LoyaltyNext]_vars

\* The cron fires on every replica again and again, awaits are answered, and
\* time passes, so the keys of dead replicas expire.
FairLoyaltySpec ==
    /\ LoyaltySpec
    /\ \A r \in Replicas : WF_vars(Work(r))
    /\ WF_vars(TimePasses)

-----------------------------------------------------------------------------
LoyaltyTypeOK ==
    /\ LockTypeOK
    /\ queue \in [Jobs -> [status : {"pending", "processing", "completed",
                                     "failed"},
                           retries : 0..6]]
    /\ paid \subseteq Jobs
    /\ work \in [Replicas ->
                   [at : {"off", "acquire", "claim", "mark", "mint",
                          "nothing minted", "complete", "credit", "handle",
                          "release"},
                    job : Jobs \cup {0}, retries : 0..6,
                    slot : Slots \cup {0}]]
    /\ {attempts, mints, slips, credits, echoes} \subseteq [Jobs -> 0..6]

\* A payment's points are minted once, plus once for every mint that the job
\* took for failed; loyalty_points has one row for them, plus one for every
\* INSERT that was answered with an error although it was made, and never more
\* rows than there are mints.  This holds whatever becomes of the slot locks,
\* which the code calls "belt and suspenders".
MintedOncePerOutcome ==
    \A j \in Jobs :
        /\ mints[j] <= 1 + slips[j]
        /\ credits[j] <= 1 + echoes[j]
        /\ credits[j] <= mints[j]

\* A row is tried three times: never more, and never given up before.
ThreeAttempts ==
    \A j \in Jobs :
        /\ attempts[j] <= 3
        /\ queue[j].status = "failed" => attempts[j] = 3

\* A row left 'processing' by a replica that no longer works on it: nothing in
\* the code ever looks at it again.
Orphaned(j) ==
    /\ queue[j].status = "processing"
    /\ \A r \in Replicas : work[r].job # j

\* A pending row whose payment is completed is settled sooner or later, unless
\* a crash or a failed write orphaned it.
RowsSettle ==
    \A j \in Jobs :
        (queue[j].status = "pending" /\ j \in paid) ~>
            (queue[j].status \in {"completed", "failed"} \/ Orphaned(j))

=============================================================================
