--------------------------- MODULE Confirmations ---------------------------
(***************************************************************************)
(* jobs/transactionConfirmationJob.js: payments recorded as 'confirming'   *)
(* are looked up on Horizon, the oldest first and BATCH_SIZE at a time, on *)
(* every process that runs the scheduler.                                  *)
(*                                                                         *)
(* What the ledger did with a transaction is external; the nodes that      *)
(* withFallback asks may lag behind it and answer 404, and other errors    *)
(* leave the row for the next minute.                                      *)
(***************************************************************************)
EXTENDS Integers, FiniteSets

CONSTANTS
    MaxPayments, \* bound: payments recorded, numbered by created_at
    Workers,     \* processes that run the job
    BATCH_SIZE,
    MaxErrors    \* bound: lookups or updates that end in an error

ASSUME ConfirmationConstants ==
    /\ MaxPayments \in Nat \ {0} /\ BATCH_SIZE \in Nat \ {0} /\ MaxErrors \in Nat

Payments == 1..MaxPayments

VARIABLES
    outcomes,  \* what the ledger did with each payment's transaction
    statuses,  \* transactions.status
    lapsed,    \* payments whose confirmation_expires_at has passed
    batches,   \* each worker: the rows it read and has not dealt with
    lookups,   \* each worker: the answer it got for the oldest of them
    unknown,   \* payments that a node did not know after their expiry
    errors     \* errors so far

confirmVars ==
    <<outcomes, statuses, lapsed, batches, lookups, unknown, errors>>

ConfirmInit ==
    /\ outcomes = [p \in Payments |-> "none"]
    /\ statuses = [p \in Payments |-> "none"]
    /\ lapsed = {}
    /\ batches = [w \in Workers |-> {}]
    /\ lookups = [w \in Workers |-> "none"]
    /\ unknown = {}
    /\ errors = 0

Confirming == {p \in Payments : statuses[p] = "confirming"}
Oldest(S) == {p \in S : Cardinality({q \in S : q < p}) < BATCH_SIZE}
Err == errors < MaxErrors /\ errors' = errors + 1
Fixed == <<outcomes, lapsed>>

\* sendPayment has resolved, and the controller records the payment.
RecordPayment(p) ==
    /\ \A q \in Payments : statuses[q] = "none" <=> q >= p
    /\ statuses' = [statuses EXCEPT ![p] = "confirming"]
    /\ \E how \in {"successful", "unsuccessful"} : outcomes' = [outcomes EXCEPT ![p] = how]
    /\ UNCHANGED <<lapsed, batches, lookups, unknown, errors>>

Lapse(p) ==
    /\ statuses[p] # "none"
    /\ p \notin lapsed
    /\ lapsed' = lapsed \cup {p}
    /\ UNCHANGED <<outcomes, statuses, batches, lookups, unknown, errors>>

\* Mutant of ReadBatch: settled rows are read again.
ReadBatchOfAll(w) ==
    /\ batches[w] = {}
    /\ batches' = [batches EXCEPT ![w] = Oldest({p \in Payments : statuses[p] # "none"})]
    /\ UNCHANGED <<Fixed, statuses, lookups, unknown, errors>>

\* The SELECT of a run; safeJob starts no run before the last one is over.
ReadBatch(w) ==
    /\ batches[w] = {}
    /\ Confirming # {}
    /\ batches' = [batches EXCEPT ![w] = Oldest(Confirming)]
    /\ UNCHANGED <<Fixed, statuses, lookups, unknown, errors>>

Row(w) == CHOOSE p \in batches[w] : \A q \in batches[w] : p <= q
Dealt(w) == batches' = [batches EXCEPT ![w] = @ \ {Row(w)}]

\* Mutant of Lookup: an unknown transaction has failed, expired or not.
LookupImpatient(w) ==
    /\ batches[w] # {} /\ lookups[w] = "none"
    /\ \/ lookups' = [lookups EXCEPT ![w] = outcomes[Row(w)]] /\ UNCHANGED <<batches, unknown, errors>>
       \/ /\ lookups' = [lookups EXCEPT ![w] = "unsuccessful"]
          /\ Err /\ UNCHANGED <<batches, unknown>>
    /\ UNCHANGED <<Fixed, statuses>>

\* The node's answer: the record; not found, which is final only once the
\* confirmation has expired; or an error.
Lookup(w) ==
    /\ batches[w] # {} /\ lookups[w] = "none"
    /\ \/ /\ lookups' = [lookups EXCEPT ![w] = outcomes[Row(w)]]
          /\ UNCHANGED <<batches, unknown, errors>>
       \/ /\ Err
          /\ IF Row(w) \in lapsed
             THEN /\ lookups' = [lookups EXCEPT ![w] = "unsuccessful"]
                  /\ unknown' = unknown \cup {Row(w)}
                  /\ UNCHANGED batches
             ELSE Dealt(w) /\ UNCHANGED <<lookups, unknown>>
       \/ Err /\ Dealt(w) /\ UNCHANGED <<lookups, unknown>>
    /\ UNCHANGED <<Fixed, statuses>>

\* UPDATE ... WHERE status = 'confirming'; an error is caught as a lookup's.
SetFinalStatus(w) ==
    /\ lookups[w] # "none"
    /\ \/ /\ statuses' = [statuses EXCEPT ![Row(w)] =
                IF @ # "confirming" THEN @
                ELSE IF lookups[w] = "successful" THEN "completed" ELSE "failed"]
          /\ UNCHANGED errors
       \/ Err /\ UNCHANGED statuses
    /\ lookups' = [lookups EXCEPT ![w] = "none"]
    /\ Dealt(w)
    /\ UNCHANGED <<Fixed, unknown>>

\* The process dies in the middle of a run, or the UPDATE in the catch block
\* fails, which ends the run.
AbandonBatch(w) ==
    /\ batches[w] # {}
    /\ Err
    /\ batches' = [batches EXCEPT ![w] = {}]
    /\ lookups' = [lookups EXCEPT ![w] = "none"]
    /\ UNCHANGED <<Fixed, statuses, unknown>>

Confirms(w) == ReadBatch(w) \/ Lookup(w) \/ SetFinalStatus(w)

ConfirmNext ==
    \/ \E p \in Payments : RecordPayment(p) \/ Lapse(p)
    \/ \E w \in Workers : Confirms(w) \/ AbandonBatch(w)

ConfirmSpec == ConfirmInit /\ [][ConfirmNext]_confirmVars

\* The cron fires every minute on every worker, and Horizon answers.
FairConfirmSpec ==
    ConfirmSpec /\ \A w \in Workers : WF_confirmVars(Confirms(w))

-----------------------------------------------------------------------------
ConfirmTypeOK ==
    /\ outcomes \in [Payments -> {"none", "successful", "unsuccessful"}]
    /\ statuses \in [Payments -> {"none", "confirming", "completed", "failed"}]
    /\ lapsed \subseteq Payments /\ unknown \subseteq lapsed
    /\ batches \in [Workers -> SUBSET Payments]
    /\ lookups \in [Workers -> {"none", "successful", "unsuccessful"}]
    /\ errors \in 0..MaxErrors

\* A payment told as completed succeeded, and one told as failed did fail,
\* unless a node that had not seen it was asked when its time was over.
ConfirmedAsHappened ==
    \A p \in Payments :
        /\ statuses[p] = "completed" => outcomes[p] = "successful"
        /\ (statuses[p] = "failed" /\ outcomes[p] = "successful") => p \in unknown

\* The first status told is the last: workers with old batches and nodes that
\* disagree do not change it.
FirstStatusStays ==
    [][\A p \in Payments :
          statuses[p] \in {"completed", "failed"} => statuses'[p] = statuses[p]]_confirmVars

\* What the user is told of a payment is what happened, and told once.
ConfirmedOnce == [](ConfirmTypeOK /\ ConfirmedAsHappened) /\ FirstStatusStays

\* The last payment recorded is settled too, with all the others ahead of it in
\* every batch: errors pass, and settled rows leave the batches.
ConfirmationsEnd ==
    statuses[MaxPayments] = "confirming" ~>
        statuses[MaxPayments] \in {"completed", "failed"}
=============================================================================
