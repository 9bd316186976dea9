---------------------------- MODULE PaymentQueue ----------------------------
(***************************************************************************)
(* sendPayment (backend/src/services/stellar.js) on the transaction queue: *)
(* each send loads the account's sequence number, signs one transaction,   *)
(* submits it with retries, rebuilds it when Horizon answers tx_bad_seq,   *)
(* and turns to a claimable balance when the payment failed on the ledger. *)
(*                                                                         *)
(* Horizon and the ledger are external and modelled by what the code is    *)
(* written against: a transaction applies at most once and only with the   *)
(* account's next sequence number; an answer may never come; a lagging     *)
(* node may load an old sequence number; a transaction that was applied,   *)
(* and is submitted again, is answered with its result.                    *)
(***************************************************************************)
EXTENDS TxQueue

CONSTANTS
    MAX_SEQ_RETRIES, \* attempts with a fresh sequence number
    PaymentRetries,  \* maxRetries of retryWithBackoff for a payment
    BalanceRetries,  \* and for a claimable balance
    HorizonLag,      \* how far behind a loaded sequence number may be
    MaxOutside       \* bound: transactions sent by other means, per wallet

ASSUME PaymentConstants ==
    /\ MAX_SEQ_RETRIES \in Nat \ {0}
    /\ {PaymentRetries, BalanceRetries, HorizonLag, MaxOutside} \subseteq Nat

VARIABLES
    send,     \* what each task's function is doing
    account,  \* the sequence number of each wallet's account
    outside,  \* transactions each wallet sent by other means
    inFlight, \* transactions Horizon took that no ledger has settled
    applied   \* transactions in a ledger, with whether they succeeded

paymentVars == <<send, account, outside, inFlight, applied>>
vars == <<queueVars, paymentVars>>

Idle == [at |-> "idle", op |-> "payment", seq |-> 0, attempt |-> 0,
         tries |-> 0]

PaymentInit ==
    /\ QueueInit
    /\ send = [t \in Sends |-> Idle]
    /\ account = [w \in Wallets |-> 1]
    /\ outside = [w \in Wallets |-> 0]
    /\ inFlight = {}
    /\ applied = {}

Tx(t) == [send |-> t, op |-> send[t].op, seq |-> send[t].seq]
Result(x, ok) == [tx |-> x, ok |-> ok]
Sequence(x) == account[sender[x.send]]

Retries(op) == IF op = "payment" THEN PaymentRetries ELSE BalanceRetries

GoOn(t, state) == send' = [send EXCEPT ![t] = state] /\ UNCHANGED queueVars

End(t, how, outcome) ==
    /\ send' = [send EXCEPT ![t].at = how]
    /\ Settle(t, outcome)

Chain == <<account, outside, inFlight, applied>>

-----------------------------------------------------------------------------
Call(t) == Enqueue(t) /\ UNCHANGED paymentVars

Start(t) ==
    /\ Begin(t)
    /\ send' = [send EXCEPT ![t].at = "load"]
    /\ UNCHANGED Chain

TimerFires(t) == Timeout(t) /\ UNCHANGED paymentVars

\* An error before anything is submitted: the memo or trustline check, the
\* key, or loadAccount when its own retries are over.
FailToLoad(t) ==
    /\ send[t].at = "load"
    /\ End(t, "failed", "rejected")
    /\ UNCHANGED Chain

\* loadAccount, then the transaction is built and signed.
LoadAccount(t) ==
    /\ send[t].at = "load"
    /\ \E lag \in 0..HorizonLag :
          /\ lag < account[sender[t]]
          /\ GoOn(t, [send[t] EXCEPT !.at = "signed", !.tries = 0,
                        !.seq = account[sender[t]] - lag + 1])
    /\ UNCHANGED Chain

\* submitTransaction: the request is lost, or Horizon passes the transaction on.
Submit(t) ==
    /\ send[t].at = "signed"
    /\ GoOn(t, [send[t] EXCEPT !.at = "sent"])
    /\ \/ UNCHANGED inFlight
       \/ /\ send[t].seq = Sequence(Tx(t)) + 1
          /\ inFlight' = inFlight \cup {Tx(t)}
    /\ UNCHANGED <<account, outside, applied>>

\* Mutant of NoAnswer: every retry builds a new transaction.
NoAnswerRebuilds(t) ==
    /\ send[t].at = "sent"
    /\ GoOn(t, [send[t] EXCEPT !.at = "load"])
    /\ UNCHANGED Chain

\* Mutant of NoAnswer: the claimable balance is tried after a lost answer too.
NoAnswerFallsBack(t) ==
    /\ send[t].at = "sent"
    /\ IF send[t].tries < Retries(send[t].op)
       THEN GoOn(t, [send[t] EXCEPT !.at = "signed", !.tries = @ + 1])
       ELSE IF send[t].op = "payment"
            THEN GoOn(t, [send[t] EXCEPT !.at = "load", !.op = "balance"])
            ELSE End(t, "unanswered", "rejected")
    /\ UNCHANGED Chain

\* No answer (a network error, 429, 503 or 504): retryWithBackoff submits the
\* same signed transaction again until its retries are over.
NoAnswer(t) ==
    /\ send[t].at = "sent"
    /\ IF send[t].tries < Retries(send[t].op)
       THEN GoOn(t, [send[t] EXCEPT !.at = "signed", !.tries = @ + 1])
       ELSE End(t, "unanswered", "rejected")
    /\ UNCHANGED Chain

Confirmed(t) ==
    /\ send[t].at = "sent"
    /\ Result(Tx(t), TRUE) \in applied
    /\ IF send[t].op = "payment"
       THEN End(t, "done", "resolved")
       ELSE GoOn(t, [send[t] EXCEPT !.at = "naming"])
    /\ UNCHANGED Chain

\* Answered with status 400, tx_failed: a payment falls back to
\* createClaimableBalance; a claimable balance that fails is an error.
TxFailed(t) ==
    /\ send[t].at = "sent"
    /\ Result(Tx(t), FALSE) \in applied
    /\ IF send[t].op = "payment"
       THEN GoOn(t, [send[t] EXCEPT !.at = "load", !.op = "balance"])
       ELSE End(t, "failed", "rejected")
    /\ UNCHANGED Chain

\* Answered with tx_bad_seq: a payment is rebuilt with a fresh sequence number
\* while attempts are left; the last one's error is thrown.
BadSeq(t) ==
    /\ send[t].at = "sent"
    /\ send[t].seq <= Sequence(Tx(t))
    /\ \A ok \in BOOLEAN : Result(Tx(t), ok) \notin applied
    /\ IF send[t].op = "payment" /\ send[t].attempt < MAX_SEQ_RETRIES - 1
       THEN GoOn(t, [send[t] EXCEPT !.at = "load", !.attempt = @ + 1])
       ELSE End(t, "bad sequence", "rejected")
    /\ UNCHANGED Chain

\* Answered with any other refusal (fee, balance, signature, expired).
Refused(t) ==
    /\ send[t].at = "sent"
    /\ Tx(t) \notin inFlight
    /\ \A ok \in BOOLEAN : Result(Tx(t), ok) \notin applied
    /\ End(t, "failed", "rejected")
    /\ UNCHANGED Chain

\* getClaimableBalanceIdForTransaction finds the new balance, or gives up.
NameBalance(t) ==
    /\ send[t].at = "naming"
    /\ \/ End(t, "done", "resolved")
       \/ End(t, "unanswered", "rejected")
    /\ UNCHANGED Chain

\* A ledger applies a transaction; the sequence number is used up even if the
\* operation failed.
Apply(x, ok) ==
    /\ x \in inFlight
    /\ x.seq = Sequence(x) + 1
    /\ account' = [account EXCEPT ![sender[x.send]] = x.seq]
    /\ inFlight' = inFlight \ {x}
    /\ applied' = applied \cup {Result(x, ok)}
    /\ UNCHANGED <<queueVars, send, outside>>

\* The network forgets a transaction: its 30 second time bound has passed.
Expire(x) ==
    /\ x \in inFlight
    /\ inFlight' = inFlight \ {x}
    /\ UNCHANGED <<queueVars, send, account, outside, applied>>

\* A transaction of the same account that does not go through this queue.
SendOutside(w) ==
    /\ outside[w] < MaxOutside
    /\ outside' = [outside EXCEPT ![w] = @ + 1]
    /\ account' = [account EXCEPT ![w] = @ + 1]
    /\ UNCHANGED <<queueVars, send, inFlight, applied>>

Step(t) ==
    \/ Start(t)
    \/ FailToLoad(t)
    \/ LoadAccount(t)
    \/ Submit(t)
    \/ NoAnswer(t)
    \/ Confirmed(t)
    \/ TxFailed(t)
    \/ BadSeq(t)
    \/ Refused(t)
    \/ NameBalance(t)

PaymentNext ==
    \/ \E t \in Sends : Call(t) \/ Step(t) \/ TimerFires(t)
    \/ \E x \in inFlight : Expire(x) \/ \E ok \in BOOLEAN : Apply(x, ok)
    \/ \E w \in Wallets : SendOutside(w)

PaymentSpec == PaymentInit /\ [][PaymentNext]_vars

\* A callback whose promise has settled runs, and a timer fires; nothing is
\* promised of Horizon, which may never answer.
FairPaymentSpec ==
    /\ PaymentSpec
    /\ \A t \in Sends : WF_vars(Start(t)) /\ WF_vars(TimerFires(t))

-----------------------------------------------------------------------------
PaymentTypeOK ==
    /\ queues \in [Wallets -> Seq(Sends)]
    /\ call \in [Sends -> Settled \cup {"not called", "waiting", "running"}]
    /\ pendingTasksTotal \in Nat
    /\ send \in [Sends ->
         [at : {"idle", "load", "signed", "sent", "naming", "done", "failed",
                "bad sequence", "unanswered"},
          op : {"payment", "balance"}, seq : Nat,
          attempt : 0..MAX_SEQ_RETRIES - 1,
          tries : 0..(PaymentRetries + BalanceRetries)]]
    /\ account \in [Wallets -> Nat]
    /\ outside \in [Wallets -> 0..MaxOutside]
    /\ inFlight \subseteq [send : Sends, op : {"payment", "balance"}, seq : Nat]
    /\ \A a \in applied : a.tx.send \in Sends /\ a.ok \in BOOLEAN

Paid(t) == {a \in applied : a.tx.send = t /\ a.ok}

\* One call of sendPayment moves the money at most once, through resubmissions,
\* rebuilt transactions and the claimable balance.
PaidOnce == \A t \in Sends : Cardinality(Paid(t)) <= 1

\* A call that resolves has moved the money.
ResolvedIsPaid == \A t \in Sends : call[t] = "resolved" => Paid(t) # {}

\* An error that is an answer (not the lack of one) is final: nothing was paid,
\* and no transaction of the call can still be applied.
FailureIsFinal ==
    \A t \in Sends : send[t].at \in {"failed", "bad sequence"} =>
        /\ Paid(t) = {}
        /\ \A x \in inFlight : x.send = t => x.seq <= Sequence(x)

\* What a caller is told about the money is so: "paid" is paid, and "failed"
\* is not paid now nor later, by whatever is still on its way.
ResultIsTrue == ResolvedIsPaid /\ FailureIsFinal

Active(t) == send[t].at \in {"load", "signed", "sent", "naming"}

\* Of two functions of one wallet running at once, one has timed out.
SerialUnlessTimedOut ==
    \A t, u \in Sends :
        (t # u /\ sender[t] = sender[u] /\ Active(t) /\ Active(u)) =>
            "timed out" \in {call[t], call[u]}

\* The state has its types, the wallet's queue runs one function at a time as
\* long as none times out, and its metric counts the calls that are left.
QueueKept == PaymentTypeOK /\ SerialUnlessTimedOut /\ PendingCounted

=============================================================================
