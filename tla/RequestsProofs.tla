--------------------------- MODULE RequestsProofs ---------------------------
(***************************************************************************)
(* Proofs about what the backend does while it serves requests: payments   *)
(* on the transaction queue, refresh tokens and idempotent requests, for   *)
(* any number of wallets, sends, tabs, tokens and requests and any bounds. *)
(*                                                                         *)
(* Payments.  A second transaction of a send is signed when the first can  *)
(* no longer apply: the invariant says which of a send's transactions are  *)
(* dead, for good, and that at most the current one may still pay.         *)
(*                                                                         *)
(* Tokens.  Of the tokens that have left the database one at most is       *)
(* valid, and a successor is its request's secret until that request has   *)
(* claimed the token it replaces (OneLine).                                *)
(*                                                                         *)
(* Requests.  Nobody is told of a success that was not a payment of his    *)
(* key and body (SuccessBacked), and a key that was answered has a copy in *)
(* Redis or in the table, in both until a write has failed (AnswersHeld).  *)
(***************************************************************************)
EXTENDS PaymentQueue, RefreshTokens, IdempotentRequests, FiniteSetTheorems, TLAPS

-----------------------------------------------------------------------------
(* The queue.                                                              *)

\* The calls that have not settled.
Unsettled == {t \in Sends : call[t] \in {"waiting", "running"}}

Queued(t) == \E i \in DOMAIN queues[sender[t]] : queues[sender[t]][i] = t

\* Whatever has started follows settled tasks only, and a task is in its
\* wallet's queue from its call on.
QueueInv ==
    /\ queues \in [Wallets -> Seq(Sends)]
    /\ call \in [Sends -> Settled \cup {"not called", "waiting", "running"}]
    /\ IsFiniteSet(Unsettled) /\ pendingTasksTotal = Cardinality(Unsettled)
    /\ \A w \in Wallets : \A i \in DOMAIN queues[w] : call[queues[w][i]] # "not called"
    /\ \A t \in Sends : call[t] # "not called" => Queued(t)
    /\ \A t \in Sends : call[t] = "running" => \A u \in Before(t) : call[u] \in Settled


LEMMA QueueStarts == QueueInit => QueueInv
<1> SUFFICES ASSUME QueueInit PROVE QueueInv
  OBVIOUS
<1>1. Unsettled = {}
  BY DEF Unsettled, QueueInit
<1>2. IsFiniteSet(Unsettled) /\ pendingTasksTotal = Cardinality(Unsettled)
  BY <1>1, FS_EmptySet DEF QueueInit
<1>3. queues \in [Wallets -> Seq(Sends)]
  <2>1. << >> \in Seq(Sends)
    OBVIOUS
  <2> QED
    BY <2>1 DEF QueueInit
<1>4. call \in [Sends -> Settled \cup {"not called", "waiting", "running"}]
  BY DEF QueueInit
<1>5. \A w \in Wallets : \A i \in DOMAIN queues[w] : call[queues[w][i]] # "not called"
  <2>1. \A w \in Wallets : queues[w] = << >>
    BY DEF QueueInit
  <2>2. DOMAIN << >> = {}
    OBVIOUS
  <2> QED
    BY <2>1, <2>2
<1>6. \A t \in Sends : call[t] = "not called"
  BY DEF QueueInit
<1> QED
  BY <1>2, <1>3, <1>4, <1>5, <1>6 DEF QueueInv

\* A new task goes to the end: nothing before the others changes.
LEMMA EnqueueKeepsQueue ==
    ASSUME QueueInv, NEW t \in Sends, Enqueue(t)
    PROVE  QueueInv'
<1>1. /\ queues \in [Wallets -> Seq(Sends)]
      /\ call \in [Sends -> Settled \cup {"not called", "waiting", "running"}]
      /\ sender \in [Sends -> Wallets]
      /\ call[t] = "not called" /\ call' = [call EXCEPT ![t] = "waiting"]
      /\ queues' = [queues EXCEPT ![sender[t]] = Append(@, t)]
  BY QueueConstants DEF QueueInv, Enqueue
<1>2. Unsettled' = Unsettled \cup {t} /\ t \notin Unsettled
  BY <1>1 DEF Unsettled
<1>3. IsFiniteSet(Unsettled)' /\ pendingTasksTotal' = Cardinality(Unsettled)'
  BY <1>2, FS_AddElement DEF QueueInv, Enqueue
<1>4. ASSUME NEW w \in Wallets
      PROVE  /\ queues[w] \in Seq(Sends) /\ queues'[w] \in Seq(Sends)
             /\ DOMAIN queues[w] \subseteq DOMAIN queues'[w]
             /\ \A i \in DOMAIN queues[w] : queues'[w][i] = queues[w][i]
             /\ \A i \in DOMAIN queues'[w] :
                    \/ i \in DOMAIN queues[w]
                    \/ (\A j \in DOMAIN queues'[w] : j <= i) /\ queues'[w][i] = t
  <2>1. PICK q : q = queues[w]
    OBVIOUS
  <2>2. q \in Seq(Sends)
    BY <1>1, <2>1
  <2>3. CASE w = sender[t]
    <3>1. queues'[w] = Append(q, t)
      BY <1>1, <2>1, <2>3
    <3> QED
      BY <2>1, <2>2, <3>1
  <2>4. CASE w # sender[t]
    <3>1. queues'[w] = queues[w]
      BY <1>1, <2>4
    <3> QED
      BY <2>1, <2>2, <3>1
  <2> QED
    BY <2>3, <2>4
<1>5. queues' \in [Wallets -> Seq(Sends)]
  <2>1. DOMAIN queues' = Wallets /\ queues' = [w \in Wallets |-> queues'[w]]
    BY <1>1
  <2> QED
    BY <1>4, <2>1
<1>6. call' \in [Sends -> Settled \cup {"not called", "waiting", "running"}]
  BY <1>1
<1>7. \A w \in Wallets : \A i \in DOMAIN queues'[w] : call'[queues'[w][i]] # "not called"
  <2> TAKE w \in Wallets
  <2> TAKE i \in DOMAIN queues'[w]
  <2>1. CASE i \in DOMAIN queues[w]
    <3>1. queues'[w][i] = queues[w][i] /\ queues[w][i] \in Sends
      BY <1>4, <2>1
    <3>2. call[queues[w][i]] # "not called"
      BY <2>1 DEF QueueInv
    <3> QED
      BY <1>1, <3>1, <3>2
  <2>2. CASE queues'[w][i] = t
    BY <1>1, <2>2
  <2> QED
    BY <1>4, <2>1, <2>2
<1>8. ASSUME NEW u \in Sends, call'[u] # "not called"
      PROVE  Queued(u)'
  <2>1. CASE u = t
    <3>1. queues[sender[t]] \in Seq(Sends)
      BY <1>1
    <3>2. queues'[sender[t]] = Append(queues[sender[t]], t)
      BY <1>1
    <3>3. Len(queues[sender[t]]) + 1 \in DOMAIN queues'[sender[t]]
      BY <3>1, <3>2
    <3>4. queues'[sender[t]][Len(queues[sender[t]]) + 1] = t
      BY <3>1, <3>2
    <3> QED
      BY <2>1, <3>3, <3>4 DEF Queued
  <2>2. CASE u # t
    <3>1. call[u] # "not called"
      BY <1>1, <1>8, <2>2
    <3>2. PICK i \in DOMAIN queues[sender[u]] : queues[sender[u]][i] = u
      BY <3>1 DEF Queued, QueueInv
    <3>3. sender[u] \in Wallets
      BY <1>1
    <3>4. i \in DOMAIN queues'[sender[u]] /\ queues'[sender[u]][i] = u
      BY <1>4, <3>2, <3>3
    <3> QED
      BY <3>4 DEF Queued
  <2> QED
    BY <2>1, <2>2
<1>9. ASSUME NEW u \in Sends, call'[u] = "running", NEW v \in Before(u)'
      PROVE  call'[v] \in Settled
  <2>1. u # t /\ call[u] = "running"
    BY <1>1, <1>9
  <2>2. sender[u] \in Wallets
    BY <1>1
  <2>3. PICK i, j \in DOMAIN queues'[sender[u]] :
           i < j /\ queues'[sender[u]][i] = v /\ queues'[sender[u]][j] = u
    BY <1>9 DEF Before
  <2>4. v \in Sends
    BY <1>9 DEF Before
  <2>5. i \in Nat /\ j \in Nat
    BY <1>4, <2>2, <2>3
  <2>6. j \in DOMAIN queues[sender[u]] /\ i \in DOMAIN queues[sender[u]]
    BY <1>4, <2>1, <2>2, <2>3, <2>5
  <2>7. v \in Before(u)
    BY <1>4, <2>2, <2>3, <2>4, <2>6 DEF Before
  <2>8. call[v] \in Settled
    BY <2>1, <2>7 DEF QueueInv
  <2> QED
    BY <1>1, <2>4, <2>8 DEF Settled
<1> QED
  BY <1>3, <1>5, <1>6, <1>7, <1>8, <1>9 DEF QueueInv

\* Where the chains stay as they are, so does what is before a task.
LEMMA SameChains ==
    ASSUME UNCHANGED queues, NEW u \in Sends
    PROVE  Before(u)' = Before(u) /\ Queued(u)' = Queued(u)
BY DEF Before, Queued

\* Of one task: what starts has nothing unsettled before it, and what settles
\* is counted off once.
LEMMA OneTaskKeepsQueue ==
    ASSUME QueueInv, NEW t \in Sends, NEW state, UNCHANGED queues,
           call' = [call EXCEPT ![t] = state],
           \/ /\ call[t] = "waiting" /\ state = "running"
              /\ \A u \in Before(t) : call[u] \in Settled
              /\ UNCHANGED pendingTasksTotal
           \/ call[t] = "running" /\ state \in Settled /\ Uncount
    PROVE  QueueInv'
<1>0. /\ queues \in [Wallets -> Seq(Sends)]
      /\ call \in [Sends -> Settled \cup {"not called", "waiting", "running"}]
      /\ IsFiniteSet(Unsettled) /\ pendingTasksTotal = Cardinality(Unsettled)
  BY DEF QueueInv
<1>1. IsFiniteSet(Unsettled)' /\ pendingTasksTotal' = Cardinality(Unsettled)'
  <2>1. CASE call[t] = "waiting" /\ state = "running" /\ UNCHANGED pendingTasksTotal
    <3>1. Unsettled' = Unsettled
      BY <1>0, <2>1 DEF Unsettled
    <3> QED
      BY <1>0, <2>1, <3>1
  <2>2. CASE call[t] = "running" /\ state \in Settled /\ Uncount
    <3>1. Unsettled' = Unsettled \ {t} /\ t \in Unsettled
      BY <1>0, <2>2 DEF Unsettled, Settled
    <3>2. Cardinality(Unsettled) \in Nat /\ Cardinality(Unsettled) # 0
      BY <1>0, <3>1, FS_CardinalityType, FS_EmptySet
    <3>3. /\ IsFiniteSet(Unsettled \ {t})
          /\ Cardinality(Unsettled \ {t}) = Cardinality(Unsettled) - 1
      BY <1>0, <3>1, FS_RemoveElement
    <3>4. pendingTasksTotal' = pendingTasksTotal - 1
      <4>0. PICK n : n = Cardinality(Unsettled)
        OBVIOUS
      <4>1. n \in Nat /\ n # 0 /\ pendingTasksTotal = n
        BY <1>0, <3>2, <4>0
      <4> QED
        BY <2>2, <4>1 DEF Uncount
    <3> QED
      BY <1>0, <3>1, <3>3, <3>4
  <2> QED
    BY <2>1, <2>2
<1>2. call' \in [Sends -> Settled \cup {"not called", "waiting", "running"}]
  BY <1>0
<1>3. ASSUME NEW w \in Wallets, NEW i \in DOMAIN queues'[w]
      PROVE  call'[queues'[w][i]] # "not called"
  <2>1. queues[w] \in Seq(Sends)
    BY <1>0
  <2>2. i \in DOMAIN queues[w]
    OBVIOUS
  <2>3. queues[w][i] \in Sends
    BY <2>1, <2>2
  <2>4. call[queues[w][i]] # "not called"
    BY <2>2 DEF QueueInv
  <2> QED
    BY <1>0, <2>3, <2>4 DEF Settled
<1>4. \A u \in Sends : call'[u] # "not called" => Queued(u)'
  BY <1>0, SameChains DEF QueueInv, Settled
<1>5. ASSUME NEW u \in Sends, call'[u] = "running", NEW v \in Before(u)'
      PROVE  call'[v] \in Settled
  <2>1. v \in Sends /\ v \in Before(u)
    BY <1>5, SameChains DEF Before
  <2>2. call[v] \in Settled
    BY <1>0, <1>5, <2>1 DEF QueueInv, Settled
  <2> QED
    BY <1>0, <2>1, <2>2 DEF Settled
<1> QED
  BY <1>0, <1>1, <1>2, <1>3, <1>4, <1>5 DEF QueueInv

LEMMA IdleKeepsQueue == QueueInv /\ UNCHANGED queueVars => QueueInv'
<1> SUFFICES ASSUME QueueInv, UNCHANGED queueVars PROVE QueueInv'
  OBVIOUS
<1>1. UNCHANGED queues /\ UNCHANGED call /\ UNCHANGED pendingTasksTotal
  BY DEF queueVars
<1>2. Unsettled' = Unsettled
  BY <1>1 DEF Unsettled
<1>3. \A u \in Sends : Before(u)' = Before(u) /\ Queued(u)' = Queued(u)
  BY <1>1, SameChains
<1> QED
  BY <1>1, <1>2, <1>3 DEF QueueInv

LEMMA SettleKeepsQueue ==
    ASSUME QueueInv, NEW t \in Sends, NEW outcome \in Settled, Settle(t, outcome)
    PROVE  QueueInv'
<1>1. CASE call[t] = "running" /\ call' = [call EXCEPT ![t] = outcome] /\ Uncount
  BY <1>1, OneTaskKeepsQueue DEF Settle
<1>2. CASE UNCHANGED call /\ UNCHANGED pendingTasksTotal
  BY <1>2, IdleKeepsQueue DEF Settle, queueVars
<1> QED
  BY <1>1, <1>2 DEF Settle

-----------------------------------------------------------------------------
(* One send and the ledger.                                                *)

Ops == {"payment", "balance"}
Places == {"idle", "load", "signed", "sent", "naming", "done", "failed", "bad sequence",
           "unanswered"}
SendRecord == [at : Places, op : Ops, seq : Nat, attempt : 0..(MAX_SEQ_RETRIES - 1),
               tries : 0..(PaymentRetries + BalanceRetries)]
TxRecord == [send : Sends, op : Ops, seq : Nat]
ResultRecord == [tx : TxRecord, ok : BOOLEAN]

\* A transaction the ledger can no longer apply.
Dead(x) == x.seq <= Sequence(x)

\* The only transaction of a send that may still move the money, or has, is
\* the one that is signed: those it replaced are dead, those of a payment that
\* was turned into a balance have failed.
OnlyCurrent(t) ==
    /\ \A x \in inFlight : x.send = t /\ x # Tx(t) => Dead(x)
    /\ \A a \in applied : a.tx.send = t /\ a.tx # Tx(t) => ~a.ok /\ a.tx.op # send[t].op

NothingLeft(t) ==
    /\ \A x \in inFlight : x.send = t => Dead(x)
    /\ \A a \in applied : a.tx.send = t => ~a.ok

\* By where a send is.
SendSound(t) ==
    LET at == send[t].at IN
    /\ at = "idle" <=> call[t] \in {"not called", "waiting"}
    /\ at = "idle" => /\ \A x \in inFlight : x.send # t
                      /\ \A a \in applied : a.tx.send # t
    /\ at = "load" => /\ NothingLeft(t)
                      /\ \A a \in applied : a.tx.send = t => a.tx.op # send[t].op
    /\ send[t].op = "payment" => \A a \in applied : a.tx.send = t => a.tx.op = "payment"
    /\ at \in {"signed", "sent", "unanswered"} => OnlyCurrent(t)
    /\ at \in {"naming", "done"} => OnlyCurrent(t) /\ Result(Tx(t), TRUE) \in applied
    /\ at \in {"failed", "bad sequence"} => NothingLeft(t)
    /\ call[t] = "resolved" => at = "done"
    /\ Active(t) => call[t] \in {"running", "timed out"}

\* Every transaction that was applied is dead, and has one result.
LedgerSound ==
    /\ inFlight \subseteq TxRecord
    /\ applied \subseteq ResultRecord
    /\ \A a \in applied : Dead(a.tx)
    /\ \A a, b \in applied : a.tx = b.tx => a = b

SendInv ==
    /\ send \in [Sends -> SendRecord]
    /\ account \in [Wallets -> Nat]
    /\ outside \in [Wallets -> 0..MaxOutside]
    /\ LedgerSound
    /\ \A t \in Sends : SendSound(t)

PaymentInv == QueueInv /\ SendInv

\* What a step of one send leaves alone: the ledger, and every other send.
LEMMA OtherSends ==
    ASSUME SendInv, NEW t \in Sends, NEW state \in SendRecord, UNCHANGED Chain,
           send' = [send EXCEPT ![t] = state],
           \A u \in Sends : u # t => call'[u] = call[u],
           SendSound(t)'
    PROVE  SendInv'
<1>1. /\ UNCHANGED account /\ UNCHANGED outside
      /\ UNCHANGED inFlight /\ UNCHANGED applied
  BY DEF Chain
<1>2. send' \in [Sends -> SendRecord]
  BY DEF SendInv
<1>3. LedgerSound'
  BY <1>1 DEF SendInv, LedgerSound, Dead, Sequence
<1>4. ASSUME NEW u \in Sends, u # t PROVE SendSound(u)'
  <2>1. send'[u] = send[u] /\ call'[u] = call[u]
    BY <1>4 DEF SendInv
  <2>2. Tx(u)' = Tx(u)
    BY <2>1 DEF Tx
  <2>3. NothingLeft(u)' = NothingLeft(u) /\ OnlyCurrent(u)' = OnlyCurrent(u)
    BY <1>1, <2>1, <2>2 DEF NothingLeft, OnlyCurrent, Dead, Sequence
  <2>4. SendSound(u)
    BY DEF SendInv
  <2>5. Active(u)' = Active(u)
    BY <2>1 DEF Active
  <2> QED
    BY <1>1, <2>1, <2>2, <2>3, <2>4, <2>5 DEF SendSound, Result
<1> QED
  BY <1>1, <1>2, <1>3, <1>4 DEF SendInv

\* A send that keeps its transaction keeps what is known of it.
LEMMA SameTransaction ==
    ASSUME NEW t \in Sends, UNCHANGED Chain,
           send'[t].op = send[t].op, send'[t].seq = send[t].seq
    PROVE  /\ Tx(t)' = Tx(t)
           /\ NothingLeft(t)' = NothingLeft(t)
           /\ OnlyCurrent(t)' = OnlyCurrent(t)
           /\ UNCHANGED applied /\ UNCHANGED inFlight
<1>1. /\ UNCHANGED account /\ UNCHANGED inFlight /\ UNCHANGED applied
  BY DEF Chain
<1>2. Tx(t)' = Tx(t)
  BY DEF Tx
<1> QED
  BY <1>1, <1>2 DEF NothingLeft, OnlyCurrent, Dead, Sequence

LEMMA Settles ==
    ASSUME QueueInv, NEW t \in Sends, NEW outcome \in Settled, Settle(t, outcome),
           call[t] \in {"running", "timed out"}
    PROVE  /\ call'[t] \in {outcome, "timed out"}
           /\ \A u \in Sends : u # t => call'[u] = call[u]
BY DEF QueueInv, Settle

\* A function that has a transaction, or is about to build one.
LEMMA ActiveSend ==
    ASSUME PaymentInv, NEW t \in Sends, Active(t)
    PROVE  /\ send[t] \in SendRecord /\ SendSound(t)
           /\ call[t] \in {"running", "timed out"}
BY DEF PaymentInv, SendInv, SendSound

-----------------------------------------------------------------------------
(* The steps of one send.                                                  *)

LEMMA CallKeeps ==
    ASSUME PaymentInv, NEW t \in Sends, Call(t) PROVE PaymentInv'
<1>1. QueueInv'
  BY EnqueueKeepsQueue DEF PaymentInv, Call
<1>2. /\ call[t] = "not called" /\ call' = [call EXCEPT ![t] = "waiting"]
      /\ UNCHANGED send /\ UNCHANGED Chain
      /\ call \in [Sends -> Settled \cup {"not called", "waiting", "running"}]
  BY DEF Call, Enqueue, paymentVars, Chain, PaymentInv, QueueInv
<1>3. SendSound(t) /\ send[t] \in SendRecord /\ SendInv
  BY DEF PaymentInv, SendInv
<1>4. call'[t] = "waiting" /\ send'[t] = send[t] /\ send[t].at = "idle"
  BY <1>2, <1>3 DEF SendSound
<1>5. SendSound(t)'
  BY <1>2, <1>3, <1>4, SameTransaction DEF SendSound, Active
<1>6. send' = [send EXCEPT ![t] = send[t]] /\ \A u \in Sends : u # t => call'[u] = call[u]
  BY <1>2, <1>3 DEF SendInv
<1> QED
  BY <1>1, <1>2, <1>3, <1>5, <1>6, OtherSends DEF PaymentInv

LEMMA TimerKeeps ==
    ASSUME PaymentInv, NEW t \in Sends, TimerFires(t) PROVE PaymentInv'
<1>1. QueueInv'
  BY OneTaskKeepsQueue DEF PaymentInv, TimerFires, Timeout, Settled
<1>2. /\ call[t] = "running" /\ call' = [call EXCEPT ![t] = "timed out"]
      /\ UNCHANGED send /\ UNCHANGED Chain
      /\ call \in [Sends -> Settled \cup {"not called", "waiting", "running"}]
  BY DEF TimerFires, Timeout, paymentVars, Chain, PaymentInv, QueueInv
<1>3. SendSound(t) /\ send[t] \in SendRecord /\ SendInv
  BY DEF PaymentInv, SendInv
<1>4. call'[t] = "timed out" /\ send'[t] = send[t] /\ send[t].at # "idle"
  BY <1>2, <1>3 DEF SendSound
<1>5. SendSound(t)'
  <2>1. /\ Tx(t)' = Tx(t) /\ NothingLeft(t)' = NothingLeft(t)
        /\ OnlyCurrent(t)' = OnlyCurrent(t) /\ UNCHANGED applied
    BY <1>2, <1>4, SameTransaction
  <2>2. Result(Tx(t), TRUE)' = Result(Tx(t), TRUE) /\ Active(t)' = Active(t)
    BY <1>4, <2>1 DEF Result, Active
  <2> QED
    BY <1>3, <1>4, <2>1, <2>2 DEF SendSound
<1>6. send' = [send EXCEPT ![t] = send[t]] /\ \A u \in Sends : u # t => call'[u] = call[u]
  BY <1>2, <1>3 DEF SendInv
<1> QED
  BY <1>1, <1>2, <1>3, <1>5, <1>6, OtherSends DEF PaymentInv

LEMMA StartKeeps ==
    ASSUME PaymentInv, NEW t \in Sends, Start(t) PROVE PaymentInv'
<1>1. QueueInv'
  BY OneTaskKeepsQueue DEF PaymentInv, Start, Begin
<1>2. /\ call[t] = "waiting" /\ call' = [call EXCEPT ![t] = "running"]
      /\ send' = [send EXCEPT ![t].at = "load"] /\ UNCHANGED Chain
      /\ call \in [Sends -> Settled \cup {"not called", "waiting", "running"}]
  BY DEF Start, Begin, PaymentInv, QueueInv
<1>3. SendSound(t) /\ send[t] \in SendRecord /\ SendInv
  BY DEF PaymentInv, SendInv
<1>4. PICK state : state = [send[t] EXCEPT !.at = "load"]
  OBVIOUS
<1>5. /\ state \in SendRecord /\ state.at = "load"
      /\ state.op = send[t].op /\ state.seq = send[t].seq
  BY <1>3, <1>4 DEF SendRecord, Places
<1>6. send' = [send EXCEPT ![t] = state] /\ send'[t] = state
  BY <1>2, <1>3, <1>4 DEF SendInv
<1>7. call'[t] = "running" /\ \A u \in Sends : u # t => call'[u] = call[u]
  BY <1>2
<1>8. send[t].at = "idle"
  BY <1>2, <1>3 DEF SendSound
<1>9. /\ NothingLeft(t)' = NothingLeft(t) /\ UNCHANGED applied
      /\ send'[t].at = "load" /\ send'[t].op = send[t].op
  BY <1>2, <1>5, <1>6, SameTransaction
<1>10. /\ \A x \in inFlight : x.send # t
       /\ \A a \in applied : a.tx.send # t
  BY <1>3, <1>8 DEF SendSound
<1>11. NothingLeft(t)
  BY <1>10 DEF NothingLeft
<1>12. SendSound(t)'
  BY <1>7, <1>9, <1>10, <1>11 DEF SendSound
<1> QED
  BY <1>1, <1>2, <1>3, <1>5, <1>6, <1>7, <1>12, OtherSends DEF PaymentInv

\* A send that ends: the step of the queue, and what is left to show of it.
LEMMA EndKeeps ==
    ASSUME PaymentInv, NEW t \in Sends, Active(t), UNCHANGED Chain,
           NEW how \in Places, NEW outcome \in {"resolved", "rejected"},
           End(t, how, outcome),
           how # "idle", how \notin {"load", "signed", "sent", "naming"},
           outcome = "resolved" => how = "done",
           how = "unanswered" => OnlyCurrent(t),
           how = "done" => OnlyCurrent(t) /\ Result(Tx(t), TRUE) \in applied,
           how \in {"failed", "bad sequence"} => NothingLeft(t)
    PROVE  PaymentInv'
<1>1. QueueInv'
  BY SettleKeepsQueue DEF PaymentInv, End, Settled
<1>2. SendInv /\ SendSound(t) /\ send[t] \in SendRecord /\ call[t] \in {"running", "timed out"}
  BY ActiveSend DEF PaymentInv
<1>3. /\ call'[t] \in {outcome, "timed out"}
      /\ \A u \in Sends : u # t => call'[u] = call[u]
  BY <1>2, Settles DEF PaymentInv, End, Settled
<1>4. PICK state : state = [send[t] EXCEPT !.at = how]
  OBVIOUS
<1>5. /\ state \in SendRecord /\ state.at = how
      /\ state.op = send[t].op /\ state.seq = send[t].seq
  BY <1>2, <1>4 DEF SendRecord
<1>6. send' = [send EXCEPT ![t] = state] /\ send'[t] = state
  BY <1>2, <1>4 DEF SendInv, End
<1>7. /\ Tx(t)' = Tx(t) /\ NothingLeft(t)' = NothingLeft(t)
      /\ OnlyCurrent(t)' = OnlyCurrent(t) /\ UNCHANGED applied
      /\ send'[t].at = how /\ send'[t].op = send[t].op
  BY <1>5, <1>6, SameTransaction
<1>8. send'[t].op = "payment" => \A a \in applied' : a.tx.send = t => a.tx.op = "payment"
  BY <1>2, <1>7 DEF SendSound
<1>9. call'[t] \notin {"not called", "waiting"} /\ (call'[t] = "resolved" => how = "done")
  BY <1>3
<1>10. ~Active(t)'
  BY <1>7 DEF Active
<1>11. how = "done" => Result(Tx(t), TRUE)' \in applied'
  BY <1>7 DEF Result
<1>12. SendSound(t)'
  BY <1>7, <1>8, <1>9, <1>10, <1>11 DEF SendSound
<1> QED
  BY <1>1, <1>2, <1>3, <1>5, <1>6, <1>12, OtherSends DEF PaymentInv

\* A send that goes on: only its own record changes.
LEMMA GoOnKeeps ==
    ASSUME PaymentInv, NEW t \in Sends, UNCHANGED Chain,
           NEW state \in SendRecord, GoOn(t, state), SendSound(t)'
    PROVE  PaymentInv'
<1>1. QueueInv'
  BY IdleKeepsQueue DEF PaymentInv, GoOn
<1>2. \A u \in Sends : u # t => call'[u] = call[u]
  BY DEF GoOn, queueVars
<1> QED
  BY <1>1, <1>2, OtherSends DEF PaymentInv, GoOn

\* A record of attempts within their bounds stays one.
LEMMA Bounds ==
    /\ MAX_SEQ_RETRIES \in Nat /\ MAX_SEQ_RETRIES # 0
    /\ PaymentRetries \in Nat /\ BalanceRetries \in Nat
    /\ HorizonLag \in Nat /\ MaxOutside \in Nat
    /\ 0 \in 0..(PaymentRetries + BalanceRetries)
    /\ 0 \in 0..(MAX_SEQ_RETRIES - 1)
<1>1. /\ MAX_SEQ_RETRIES \in Nat /\ MAX_SEQ_RETRIES # 0
      /\ PaymentRetries \in Nat /\ BalanceRetries \in Nat
      /\ HorizonLag \in Nat /\ MaxOutside \in Nat
  BY PaymentConstants
<1> QED
  BY <1>1

LEMMA AttemptsInBounds ==
    ASSUME NEW state \in SendRecord
    PROVE  state.tries \in Nat /\ state.attempt \in Nat
<1>1. state.tries \in 0..(PaymentRetries + BalanceRetries)
  BY DEF SendRecord
<1>2. state.attempt \in 0..(MAX_SEQ_RETRIES - 1)
  BY DEF SendRecord
<1> QED
  BY <1>1, <1>2, Bounds

\* Without a result of either kind, a transaction is not among the applied.
LEMMA NoResult ==
    ASSUME LedgerSound, NEW x, \A ok \in BOOLEAN : Result(x, ok) \notin applied
    PROVE  \A a \in applied : a.tx # x
<1> SUFFICES ASSUME NEW a \in applied, a.tx = x PROVE FALSE
  OBVIOUS
<1>1. a \in ResultRecord
  BY DEF LedgerSound
<1>2. a.ok \in BOOLEAN /\ a = [tx |-> x, ok |-> a.ok]
  BY <1>1 DEF ResultRecord
<1> QED
  BY <1>2 DEF Result

LEMMA LoadKeeps ==
    ASSUME PaymentInv, NEW t \in Sends, LoadAccount(t) PROVE PaymentInv'
<1>1. send[t].at = "load" /\ Active(t)
  BY DEF LoadAccount, Active
<1>2. /\ send[t] \in SendRecord /\ SendSound(t) /\ call[t] \in {"running", "timed out"}
      /\ send \in [Sends -> SendRecord]
  BY <1>1, ActiveSend DEF PaymentInv, SendInv
<1>3. PICK lag \in 0..HorizonLag :
         /\ lag < account[sender[t]]
         /\ GoOn(t, [send[t] EXCEPT !.at = "signed", !.tries = 0,
                        !.seq = account[sender[t]] - lag + 1])
  BY DEF LoadAccount
<1>4. account[sender[t]] \in Nat /\ HorizonLag \in Nat
  BY QueueConstants, PaymentConstants DEF PaymentInv, SendInv
<1>5. PICK seq \in Nat : seq = account[sender[t]] - lag + 1
  BY <1>3, <1>4
<1>6. PICK state : state = [send[t] EXCEPT !.at = "signed", !.tries = 0, !.seq = seq]
  OBVIOUS
<1>7. state \in SendRecord /\ state.at = "signed" /\ state.op = send[t].op
  BY <1>2, <1>6, Bounds DEF SendRecord, Places
<1>8. GoOn(t, state)
  BY <1>3, <1>5, <1>6
<1>9. send'[t] = state /\ call' = call /\ UNCHANGED Chain
  BY <1>2, <1>8 DEF GoOn, LoadAccount, queueVars
<1>10. NothingLeft(t) /\ \A a \in applied : a.tx.send = t => a.tx.op # send[t].op
  BY <1>1, <1>2 DEF SendSound
<1>11. UNCHANGED account /\ UNCHANGED inFlight /\ UNCHANGED applied
  BY <1>9 DEF Chain
<1>12. OnlyCurrent(t)'
  BY <1>7, <1>9, <1>10, <1>11 DEF OnlyCurrent, NothingLeft, Dead, Sequence
<1>13. SendSound(t)'
  BY <1>2, <1>7, <1>9, <1>11, <1>12 DEF SendSound
<1> QED
  BY <1>7, <1>8, <1>9, <1>13, GoOnKeeps

LEMMA NoAnswerKeeps ==
    ASSUME PaymentInv, NEW t \in Sends, NoAnswer(t) PROVE PaymentInv'
<1>1. send[t].at = "sent" /\ Active(t) /\ UNCHANGED Chain
  BY DEF NoAnswer, Active
<1>2. /\ send[t] \in SendRecord /\ SendSound(t) /\ call[t] \in {"running", "timed out"}
      /\ send \in [Sends -> SendRecord]
  BY <1>1, ActiveSend DEF PaymentInv, SendInv
<1>3. OnlyCurrent(t)
  BY <1>1, <1>2 DEF SendSound
<1>4. CASE End(t, "unanswered", "rejected")
  BY <1>1, <1>3, <1>4, EndKeeps DEF Places
<1>5. CASE /\ send[t].tries < Retries(send[t].op)
           /\ GoOn(t, [send[t] EXCEPT !.at = "signed", !.tries = @ + 1])
  <2>1. PICK tries : tries = send[t].tries + 1
    OBVIOUS
  <2>2. tries \in 0..(PaymentRetries + BalanceRetries)
    <3>1. PaymentRetries \in Nat /\ BalanceRetries \in Nat /\ send[t].tries \in Nat
      BY <1>2, Bounds, AttemptsInBounds
    <3>2. Retries(send[t].op) \in Nat /\ Retries(send[t].op) <= PaymentRetries + BalanceRetries
      BY <3>1 DEF Retries
    <3> QED
      BY <1>5, <2>1, <3>1, <3>2
  <2>3. PICK state : state = [send[t] EXCEPT !.at = "signed", !.tries = tries]
    OBVIOUS
  <2>4. /\ state \in SendRecord /\ state.at = "signed"
        /\ state.op = send[t].op /\ state.seq = send[t].seq
    BY <1>2, <2>2, <2>3 DEF SendRecord, Places
  <2>5. GoOn(t, state)
    BY <1>5, <2>1, <2>3
  <2>6. send'[t] = state /\ call' = call
    BY <1>2, <2>5 DEF GoOn, queueVars
  <2>7. OnlyCurrent(t)' /\ UNCHANGED applied
    BY <1>1, <1>3, <2>4, <2>6, SameTransaction
  <2>8. SendSound(t)'
    BY <1>2, <2>4, <2>6, <2>7 DEF SendSound
  <2> QED
    BY <1>1, <2>4, <2>5, <2>8, GoOnKeeps
<1> QED
  BY <1>4, <1>5 DEF NoAnswer

LEMMA ConfirmedKeeps ==
    ASSUME PaymentInv, NEW t \in Sends, Confirmed(t) PROVE PaymentInv'
<1>1. send[t].at = "sent" /\ Active(t) /\ UNCHANGED Chain /\ Result(Tx(t), TRUE) \in applied
  BY DEF Confirmed, Active
<1>2. /\ send[t] \in SendRecord /\ SendSound(t) /\ call[t] \in {"running", "timed out"}
      /\ send \in [Sends -> SendRecord]
  BY <1>1, ActiveSend DEF PaymentInv, SendInv
<1>3. OnlyCurrent(t)
  BY <1>1, <1>2 DEF SendSound
<1>4. CASE End(t, "done", "resolved")
  BY <1>1, <1>3, <1>4, EndKeeps DEF Places
<1>5. CASE GoOn(t, [send[t] EXCEPT !.at = "naming"])
  <2>1. PICK state : state = [send[t] EXCEPT !.at = "naming"]
    OBVIOUS
  <2>2. /\ state \in SendRecord /\ state.at = "naming"
        /\ state.op = send[t].op /\ state.seq = send[t].seq
    BY <1>2, <2>1 DEF SendRecord, Places
  <2>3. GoOn(t, state) /\ send'[t] = state /\ call' = call
    BY <1>2, <1>5, <2>1 DEF GoOn, queueVars
  <2>4. OnlyCurrent(t)' /\ UNCHANGED applied /\ Tx(t)' = Tx(t)
    BY <1>1, <1>3, <2>2, <2>3, SameTransaction
  <2>5. Result(Tx(t), TRUE)' \in applied'
    BY <1>1, <2>4 DEF Result
  <2>6. SendSound(t)'
    BY <1>2, <2>2, <2>3, <2>4, <2>5 DEF SendSound
  <2> QED
    BY <1>1, <2>2, <2>3, <2>6, GoOnKeeps
<1> QED
  BY <1>4, <1>5 DEF Confirmed

\* Two results of one transaction are one result.
LEMMA OneResult ==
    ASSUME LedgerSound, NEW a \in applied, NEW b \in applied, a.tx = b.tx
    PROVE  a = b
BY DEF LedgerSound

LEMMA TxFailedKeeps ==
    ASSUME PaymentInv, NEW t \in Sends, TxFailed(t) PROVE PaymentInv'
<1>1. send[t].at = "sent" /\ Active(t) /\ UNCHANGED Chain
  BY DEF TxFailed, Active
<1>2. /\ send[t] \in SendRecord /\ SendSound(t) /\ call[t] \in {"running", "timed out"}
      /\ send \in [Sends -> SendRecord] /\ LedgerSound
  BY <1>1, ActiveSend DEF PaymentInv, SendInv
<1>3. OnlyCurrent(t)
  BY <1>1, <1>2 DEF SendSound
<1>4. PICK failed \in applied : failed.tx = Tx(t) /\ ~failed.ok
  BY DEF TxFailed, Result
<1>5. Dead(Tx(t)) /\ \A a \in applied : a.tx = Tx(t) => ~a.ok
  BY <1>2, <1>4, OneResult DEF LedgerSound
<1>6. NothingLeft(t)
  BY <1>3, <1>5 DEF OnlyCurrent, NothingLeft
<1>7. CASE End(t, "failed", "rejected")
  BY <1>1, <1>6, <1>7, EndKeeps DEF Places
<1>8. CASE /\ send[t].op = "payment"
           /\ GoOn(t, [send[t] EXCEPT !.at = "load", !.op = "balance"])
  <2>1. PICK state : state = [send[t] EXCEPT !.at = "load", !.op = "balance"]
    OBVIOUS
  <2>2. state \in SendRecord /\ state.at = "load" /\ state.op = "balance"
    BY <1>2, <2>1 DEF SendRecord, Places, Ops
  <2>3. GoOn(t, state) /\ send'[t] = state /\ call' = call
    BY <1>2, <1>8, <2>1 DEF GoOn, queueVars
  <2>4. UNCHANGED account /\ UNCHANGED inFlight /\ UNCHANGED applied
    BY <1>1 DEF Chain
  <2>5. NothingLeft(t)'
    BY <1>6, <2>4 DEF NothingLeft, Dead, Sequence
  <2>6. \A a \in applied' : a.tx.send = t => a.tx.op = "payment"
    BY <1>2, <1>8, <2>4 DEF SendSound
  <2>7. SendSound(t)'
    BY <1>2, <2>2, <2>3, <2>5, <2>6 DEF SendSound
  <2> QED
    BY <1>1, <2>2, <2>3, <2>7, GoOnKeeps
<1> QED
  BY <1>7, <1>8 DEF TxFailed

LEMMA BadSeqKeeps ==
    ASSUME PaymentInv, NEW t \in Sends, BadSeq(t) PROVE PaymentInv'
<1>1. /\ send[t].at = "sent" /\ Active(t) /\ UNCHANGED Chain
      /\ \A ok \in BOOLEAN : Result(Tx(t), ok) \notin applied
  BY DEF BadSeq, Active
<1>2. /\ send[t] \in SendRecord /\ SendSound(t) /\ call[t] \in {"running", "timed out"}
      /\ send \in [Sends -> SendRecord] /\ LedgerSound
  BY <1>1, ActiveSend DEF PaymentInv, SendInv
<1>3. OnlyCurrent(t)
  BY <1>1, <1>2 DEF SendSound
<1>4. \A a \in applied : a.tx # Tx(t)
  BY <1>1, <1>2, NoResult
<1>5. Dead(Tx(t))
  BY DEF BadSeq, Dead, Tx
<1>6. NothingLeft(t) /\ \A a \in applied : a.tx.send = t => a.tx.op # send[t].op
  BY <1>3, <1>4, <1>5 DEF OnlyCurrent, NothingLeft
<1>7. CASE End(t, "bad sequence", "rejected")
  BY <1>1, <1>6, <1>7, EndKeeps DEF Places
<1>8. CASE /\ send[t].attempt < MAX_SEQ_RETRIES - 1
           /\ GoOn(t, [send[t] EXCEPT !.at = "load", !.attempt = @ + 1])
  <2>0. PICK attempt : attempt = send[t].attempt + 1
    OBVIOUS
  <2>1. PICK state : state = [send[t] EXCEPT !.at = "load", !.attempt = attempt]
    OBVIOUS
  <2>2. /\ state \in SendRecord /\ state.at = "load"
        /\ state.op = send[t].op /\ state.seq = send[t].seq
    <3>1. attempt \in 0..(MAX_SEQ_RETRIES - 1)
      <4>1. PICK n : n = send[t].attempt
        OBVIOUS
      <4>2. n \in Nat /\ n < MAX_SEQ_RETRIES - 1 /\ attempt = n + 1
        BY <1>2, <1>8, <2>0, <4>1, AttemptsInBounds
      <4> QED
        BY <4>2, Bounds
    <3> QED
      BY <1>2, <2>1, <3>1 DEF SendRecord, Places
  <2>3. GoOn(t, state) /\ send'[t] = state /\ call' = call
    BY <1>2, <1>8, <2>0, <2>1 DEF GoOn, queueVars
  <2>4. NothingLeft(t)' /\ UNCHANGED applied
    BY <1>1, <1>6, <2>2, <2>3, SameTransaction
  <2>5. SendSound(t)'
    BY <1>2, <1>6, <2>2, <2>3, <2>4 DEF SendSound
  <2> QED
    BY <1>1, <2>2, <2>3, <2>5, GoOnKeeps
<1> QED
  BY <1>7, <1>8 DEF BadSeq

LEMMA RefusedKeeps ==
    ASSUME PaymentInv, NEW t \in Sends, Refused(t) PROVE PaymentInv'
<1>1. /\ send[t].at = "sent" /\ Active(t) /\ UNCHANGED Chain
      /\ Tx(t) \notin inFlight
      /\ \A ok \in BOOLEAN : Result(Tx(t), ok) \notin applied
  BY DEF Refused, Active
<1>2. SendSound(t) /\ LedgerSound
  BY <1>1, ActiveSend DEF PaymentInv, SendInv
<1>3. OnlyCurrent(t)
  BY <1>1, <1>2 DEF SendSound
<1>4. \A a \in applied : a.tx # Tx(t)
  BY <1>1, <1>2, NoResult
<1>5. NothingLeft(t)
  BY <1>1, <1>3, <1>4 DEF OnlyCurrent, NothingLeft
<1> QED
  BY <1>1, <1>5, EndKeeps DEF Refused, Places

LEMMA FailToLoadKeeps ==
    ASSUME PaymentInv, NEW t \in Sends, FailToLoad(t) PROVE PaymentInv'
<1>1. send[t].at = "load" /\ Active(t) /\ UNCHANGED Chain
  BY DEF FailToLoad, Active
<1>2. NothingLeft(t)
  BY <1>1, ActiveSend DEF SendSound
<1> QED
  BY <1>1, <1>2, EndKeeps DEF FailToLoad, Places

LEMMA NameBalanceKeeps ==
    ASSUME PaymentInv, NEW t \in Sends, NameBalance(t) PROVE PaymentInv'
<1>1. send[t].at = "naming" /\ Active(t) /\ UNCHANGED Chain
  BY DEF NameBalance, Active
<1>2. OnlyCurrent(t) /\ Result(Tx(t), TRUE) \in applied
  BY <1>1, ActiveSend DEF SendSound
<1> QED
  BY <1>1, <1>2, EndKeeps DEF NameBalance, Places

LEMMA SubmitKeeps ==
    ASSUME PaymentInv, NEW t \in Sends, Submit(t) PROVE PaymentInv'
<1>1. /\ send[t].at = "signed" /\ Active(t)
      /\ UNCHANGED account /\ UNCHANGED outside /\ UNCHANGED applied
  BY DEF Submit, Active
<1>2. /\ send[t] \in SendRecord /\ SendSound(t) /\ call[t] \in {"running", "timed out"}
      /\ send \in [Sends -> SendRecord] /\ LedgerSound
  BY <1>1, ActiveSend DEF PaymentInv, SendInv
<1>3. OnlyCurrent(t)
  BY <1>1, <1>2 DEF SendSound
<1>4. PICK state : state = [send[t] EXCEPT !.at = "sent"]
  OBVIOUS
<1>5. /\ state \in SendRecord /\ state.at = "sent"
      /\ state.op = send[t].op /\ state.seq = send[t].seq
  BY <1>2, <1>4 DEF SendRecord, Places
<1>6. GoOn(t, state) /\ send' = [send EXCEPT ![t] = state] /\ send'[t] = state /\ call' = call
  BY <1>2, <1>4 DEF Submit, GoOn, queueVars
<1>7. Tx(t) \in TxRecord /\ Tx(t).send = t /\ Tx(t)' = Tx(t)
  BY <1>2, <1>5, <1>6 DEF Tx, TxRecord, SendRecord
<1>8. inFlight \subseteq inFlight' /\ inFlight' \subseteq inFlight \cup {Tx(t)}
  BY DEF Submit
<1>9. LedgerSound'
  BY <1>1, <1>2, <1>7, <1>8 DEF LedgerSound, Dead, Sequence
<1>10. OnlyCurrent(t)'
  BY <1>1, <1>3, <1>5, <1>6, <1>7, <1>8 DEF OnlyCurrent, Dead, Sequence
<1>11. SendSound(t)'
  BY <1>1, <1>2, <1>5, <1>6, <1>10 DEF SendSound
<1>12. ASSUME NEW u \in Sends, u # t PROVE SendSound(u)'
  <2>1. send'[u] = send[u] /\ call'[u] = call[u] /\ Tx(u)' = Tx(u)
    BY <1>2, <1>6, <1>12 DEF Tx
  <2>2. \A x \in inFlight' : x.send = u => x \in inFlight
    BY <1>7, <1>8, <1>12
  <2>3. NothingLeft(u) => NothingLeft(u)'
    BY <1>1, <2>2 DEF NothingLeft, Dead, Sequence
  <2>4. OnlyCurrent(u) => OnlyCurrent(u)'
    BY <1>1, <2>1, <2>2 DEF OnlyCurrent, Dead, Sequence
  <2>5. Active(u)' = Active(u) /\ Result(Tx(u), TRUE)' = Result(Tx(u), TRUE)
    BY <2>1 DEF Active, Result
  <2>6. SendSound(u)
    BY DEF PaymentInv, SendInv
  <2>7. send[u].at = "idle" => \A x \in inFlight' : x.send # u
    BY <2>2, <2>6 DEF SendSound
  <2> QED
    BY <1>1, <2>1, <2>3, <2>4, <2>5, <2>6, <2>7 DEF SendSound
<1>13. send' \in [Sends -> SendRecord]
  BY <1>2, <1>5, <1>6
<1>14. QueueInv'
  BY <1>6, IdleKeepsQueue DEF PaymentInv, GoOn
<1> QED
  BY <1>1, <1>9, <1>11, <1>12, <1>13, <1>14 DEF PaymentInv, SendInv

-----------------------------------------------------------------------------
(* The steps of the ledger.                                                *)

\* Sequence numbers only grow: what is dead stays dead.
LEMMA TimePasses ==
    ASSUME PaymentInv, UNCHANGED <<queueVars, send>>,
           inFlight' \subseteq inFlight,
           account' \in [Wallets -> Nat],
           \A w \in Wallets : account'[w] >= account[w]
    PROVE  /\ QueueInv' /\ UNCHANGED call /\ UNCHANGED send
           /\ \A x \in TxRecord : Dead(x) => Dead(x)'
           /\ \A t \in Sends : Tx(t)' = Tx(t) /\ Active(t)' = Active(t)
<1>1. UNCHANGED queueVars /\ UNCHANGED call /\ UNCHANGED send
  BY DEF queueVars
<1>2. QueueInv'
  BY <1>1, IdleKeepsQueue DEF PaymentInv
<1>3. ASSUME NEW x \in TxRecord, Dead(x) PROVE Dead(x)'
  <2>1. x.seq \in Nat /\ x.send \in Sends
    BY DEF TxRecord
  <2>2. PICK w : w = sender[x.send]
    OBVIOUS
  <2>3. w \in Wallets
    BY <2>1, <2>2, QueueConstants
  <2>4. account[w] \in Nat /\ account'[w] \in Nat /\ account'[w] >= account[w]
    BY <2>3 DEF PaymentInv, SendInv
  <2>5. x.seq <= account[w]
    BY <1>3, <2>2 DEF Dead, Sequence
  <2>6. x.seq <= account'[w]
    BY <2>1, <2>4, <2>5
  <2> QED
    BY <2>2, <2>6 DEF Dead, Sequence
<1> QED
  BY <1>1, <1>2, <1>3 DEF Tx, Active

\* When nothing is applied, every send stays sound.
LEMMA NothingApplied ==
    ASSUME PaymentInv, UNCHANGED <<queueVars, send>>,
           inFlight' \subseteq inFlight, UNCHANGED applied,
           account' \in [Wallets -> Nat], outside' \in [Wallets -> 0..MaxOutside],
           \A w \in Wallets : account'[w] >= account[w]
    PROVE  PaymentInv'
<1>1. /\ QueueInv' /\ UNCHANGED call /\ UNCHANGED send
      /\ \A x \in TxRecord : Dead(x) => Dead(x)'
      /\ \A t \in Sends : Tx(t)' = Tx(t) /\ Active(t)' = Active(t)
  BY TimePasses
<1>2. LedgerSound
  BY DEF PaymentInv, SendInv
<1>3. \A a \in applied : a.tx \in TxRecord
  BY <1>2 DEF LedgerSound, ResultRecord
<1>4. LedgerSound'
  BY <1>1, <1>2, <1>3 DEF LedgerSound
<1>5. ASSUME NEW t \in Sends PROVE SendSound(t)'
  <2>1. NothingLeft(t) => NothingLeft(t)'
    BY <1>1, <1>2 DEF NothingLeft, LedgerSound
  <2>2. OnlyCurrent(t) => OnlyCurrent(t)'
    BY <1>1, <1>2 DEF OnlyCurrent, LedgerSound
  <2>3. SendSound(t)
    BY DEF PaymentInv, SendInv
  <2>4. Result(Tx(t), TRUE)' = Result(Tx(t), TRUE)
    BY <1>1 DEF Result
  <2> QED
    BY <1>1, <2>1, <2>2, <2>3, <2>4 DEF SendSound
<1> QED
  BY <1>1, <1>4, <1>5 DEF PaymentInv, SendInv

LEMMA ExpireKeeps ==
    ASSUME PaymentInv, NEW x \in inFlight, Expire(x) PROVE PaymentInv'
<1>1. account \in [Wallets -> Nat] /\ outside \in [Wallets -> 0..MaxOutside]
  BY DEF PaymentInv, SendInv
<1>2. \A w \in Wallets : account'[w] >= account[w]
  BY <1>1 DEF Expire
<1> QED
  BY <1>1, <1>2, NothingApplied DEF Expire

LEMMA OutsideKeeps ==
    ASSUME PaymentInv, NEW w \in Wallets, SendOutside(w) PROVE PaymentInv'
<1>1. account \in [Wallets -> Nat] /\ outside \in [Wallets -> 0..MaxOutside]
  BY DEF PaymentInv, SendInv
<1>2. account' \in [Wallets -> Nat] /\ \A v \in Wallets : account'[v] >= account[v]
  BY <1>1 DEF SendOutside
<1>3. outside' \in [Wallets -> 0..MaxOutside]
  BY <1>1, Bounds DEF SendOutside
<1> QED
  BY <1>2, <1>3, NothingApplied DEF SendOutside

\* A transaction that applies is the one its send has signed: any other of that
\* send is dead, and this one was not applied before.
LEMMA AppliesToItsSend ==
    ASSUME PaymentInv, NEW x \in inFlight, ~Dead(x)
    PROVE  /\ x.send \in Sends /\ x = Tx(x.send)
           /\ send[x.send].at \in {"signed", "sent", "unanswered"}
           /\ \A a \in applied : a.tx # x
<1>1. LedgerSound
  BY DEF PaymentInv, SendInv
<1>2. x \in TxRecord /\ x.send \in Sends
  BY <1>1 DEF LedgerSound, TxRecord
<1>3. \A a \in applied : a.tx # x
  BY <1>1 DEF LedgerSound
<1>4. PICK t \in Sends : t = x.send
  BY <1>2
<1>5. SendSound(t) /\ send[t] \in SendRecord
  BY DEF PaymentInv, SendInv
<1>6. ~NothingLeft(t)
  BY <1>4 DEF NothingLeft
<1>7. Result(Tx(t), TRUE) \in applied => Tx(t) # x
  BY <1>3 DEF Result
<1>8. OnlyCurrent(t) => x = Tx(t)
  BY <1>4 DEF OnlyCurrent
<1>9. send[t].at \in Places
  BY <1>5 DEF SendRecord
<1>10. send[t].at \in {"signed", "sent", "unanswered"}
  BY <1>4, <1>5, <1>6, <1>7, <1>8, <1>9 DEF SendSound, Places
<1> QED
  BY <1>2, <1>3, <1>4, <1>5, <1>8, <1>10 DEF SendSound

LEMMA ApplyKeeps ==
    ASSUME PaymentInv, NEW x \in inFlight, NEW ok \in BOOLEAN, Apply(x, ok)
    PROVE  PaymentInv'
<1>1. LedgerSound /\ account \in [Wallets -> Nat] /\ outside \in [Wallets -> 0..MaxOutside]
  BY DEF PaymentInv, SendInv
<1>2. x \in TxRecord /\ x.send \in Sends /\ x.seq \in Nat
  BY <1>1 DEF LedgerSound, TxRecord
<1>3. PICK w \in Wallets : w = sender[x.send]
  BY <1>2, QueueConstants
<1>4. /\ x.seq = account[w] + 1 /\ account' = [account EXCEPT ![w] = x.seq]
      /\ account[w] \in Nat
  BY <1>1, <1>3 DEF Apply, Sequence
<1>5. account' \in [Wallets -> Nat] /\ \A v \in Wallets : account'[v] >= account[v]
  BY <1>1, <1>2, <1>4
<1>6. ~Dead(x) /\ Dead(x)'
  BY <1>1, <1>2, <1>3, <1>4 DEF Dead, Sequence
<1>7. /\ x = Tx(x.send) /\ send[x.send].at \in {"signed", "sent", "unanswered"}
      /\ \A a \in applied : a.tx # x
  BY <1>6, AppliesToItsSend
<1>8. /\ QueueInv' /\ UNCHANGED call /\ UNCHANGED send
      /\ \A y \in TxRecord : Dead(y) => Dead(y)'
      /\ \A t \in Sends : Tx(t)' = Tx(t) /\ Active(t)' = Active(t)
  BY <1>5, TimePasses DEF Apply
<1>9. PICK result : result = Result(x, ok)
  OBVIOUS
<1>10. /\ result.tx = x /\ result \in ResultRecord
       /\ applied' = applied \cup {result} /\ inFlight' = inFlight \ {x}
  BY <1>2, <1>9 DEF Result, ResultRecord, Apply
<1>11. LedgerSound'
  <2>1. \A a \in applied : a.tx \in TxRecord /\ Dead(a.tx)
    BY <1>1 DEF LedgerSound, ResultRecord
  <2>2. \A a \in applied' : Dead(a.tx)'
    BY <1>6, <1>8, <1>10, <2>1
  <2>3. \A a, b \in applied' : a.tx = b.tx => a = b
    BY <1>1, <1>7, <1>10 DEF LedgerSound
  <2>4. inFlight' \subseteq TxRecord /\ applied' \subseteq ResultRecord
    BY <1>1, <1>10 DEF LedgerSound
  <2> QED
    BY <2>2, <2>3, <2>4 DEF LedgerSound
<1>12. ASSUME NEW t \in Sends PROVE SendSound(t)'
  <2>1. SendSound(t) /\ \A y \in inFlight : y \in TxRecord
    BY <1>1 DEF PaymentInv, SendInv, LedgerSound
  <2>2. OnlyCurrent(t) => OnlyCurrent(t)'
    <3>1. ASSUME OnlyCurrent(t), NEW a \in applied', a.tx.send = t, a.tx # Tx(t)
          PROVE  ~a.ok /\ a.tx.op # send[t].op
      <4>1. a # result
        BY <1>7, <1>10, <3>1
      <4> QED
        BY <1>10, <3>1, <4>1 DEF OnlyCurrent
    <3>2. ASSUME OnlyCurrent(t), NEW y \in inFlight', y.send = t, y # Tx(t)
          PROVE  Dead(y)'
      BY <1>8, <1>10, <2>1, <3>2 DEF OnlyCurrent
    <3> QED
      BY <1>8, <3>1, <3>2 DEF OnlyCurrent
  <2>3. CASE t = x.send
    <3>1. send[t].at \in {"signed", "sent", "unanswered"} /\ OnlyCurrent(t)
      BY <1>7, <2>1, <2>3 DEF SendSound
    <3>2. x.op = send[t].op
      BY <1>7, <2>3 DEF Tx
    <3>3. send[t].op = "payment" => \A a \in applied' : a.tx.send = t => a.tx.op = "payment"
      BY <1>10, <2>1, <3>2 DEF SendSound
    <3> QED
      BY <1>8, <2>1, <2>2, <3>1, <3>3 DEF SendSound
  <2>4. CASE t # x.send
    <3>1. \A a \in applied' : a.tx.send = t => a \in applied
      BY <1>10, <2>4
    <3>2. NothingLeft(t) => NothingLeft(t)'
      BY <1>8, <1>10, <2>1, <3>1 DEF NothingLeft
    <3>3. Result(Tx(t), TRUE) \in applied => Result(Tx(t), TRUE)' \in applied'
      BY <1>8, <1>10 DEF Result
    <3>4. send[t].at = "idle" => /\ \A y \in inFlight' : y.send # t
                                 /\ \A a \in applied' : a.tx.send # t
      BY <1>10, <2>1, <3>1 DEF SendSound
    <3>5. send[t].op = "payment" => \A a \in applied' : a.tx.send = t => a.tx.op = "payment"
      BY <2>1, <3>1 DEF SendSound
    <3>6. send[t].at = "load" => \A a \in applied' : a.tx.send = t => a.tx.op # send[t].op
      BY <2>1, <3>1 DEF SendSound
    <3> QED
      BY <1>8, <2>1, <2>2, <3>2, <3>3, <3>4, <3>5, <3>6 DEF SendSound
  <2> QED
    BY <2>3, <2>4
<1>13. outside' \in [Wallets -> 0..MaxOutside] /\ send' \in [Sends -> SendRecord]
  BY <1>8 DEF Apply, PaymentInv, SendInv
<1> QED
  BY <1>5, <1>8, <1>11, <1>12, <1>13 DEF PaymentInv, SendInv

-----------------------------------------------------------------------------
(* The invariant, and what it says of payments.                            *)

LEMMA PaymentsStart == PaymentInit => PaymentInv
<1> SUFFICES ASSUME PaymentInit PROVE PaymentInv
  OBVIOUS
<1>1. QueueInv
  BY QueueStarts DEF PaymentInit
<1>2. Idle \in SendRecord /\ Idle.at = "idle"
  BY Bounds DEF Idle, SendRecord, Places, Ops
<1>3. /\ send = [t \in Sends |-> Idle] /\ account = [w \in Wallets |-> 1]
      /\ outside = [w \in Wallets |-> 0] /\ inFlight = {} /\ applied = {}
  BY DEF PaymentInit
<1>4. send \in [Sends -> SendRecord] /\ \A t \in Sends : send[t].at = "idle"
  BY <1>2, <1>3
<1>5. account \in [Wallets -> Nat] /\ outside \in [Wallets -> 0..MaxOutside]
  BY <1>3, Bounds
<1>6. LedgerSound
  BY <1>3 DEF LedgerSound
<1>7. \A t \in Sends : call[t] = "not called"
  BY DEF PaymentInit, QueueInit
<1>8. \A t \in Sends : SendSound(t)
  BY <1>3, <1>4, <1>7 DEF SendSound, Active
<1> QED
  BY <1>1, <1>4, <1>5, <1>6, <1>8 DEF PaymentInv, SendInv

LEMMA PaymentsStep == PaymentInv /\ [PaymentNext]_vars => PaymentInv'
<1> SUFFICES ASSUME PaymentInv, [PaymentNext]_vars PROVE PaymentInv'
  OBVIOUS
<1>1. ASSUME NEW t \in Sends, Call(t) \/ Step(t) \/ TimerFires(t)
      PROVE  PaymentInv'
  BY <1>1, CallKeeps, TimerKeeps, StartKeeps, FailToLoadKeeps, LoadKeeps, SubmitKeeps,
     NoAnswerKeeps, ConfirmedKeeps, TxFailedKeeps, BadSeqKeeps, RefusedKeeps,
     NameBalanceKeeps DEF Step
<1>2. ASSUME NEW x \in inFlight, Expire(x) PROVE PaymentInv'
  BY <1>2, ExpireKeeps
<1>3. ASSUME NEW x \in inFlight, NEW ok \in BOOLEAN, Apply(x, ok) PROVE PaymentInv'
  BY <1>3, ApplyKeeps
<1>4. ASSUME NEW w \in Wallets, SendOutside(w) PROVE PaymentInv'
  BY <1>4, OutsideKeeps
<1>5. CASE UNCHANGED vars
  <2>1. /\ UNCHANGED queueVars /\ UNCHANGED <<queueVars, send>>
        /\ UNCHANGED account /\ UNCHANGED outside
        /\ UNCHANGED inFlight /\ UNCHANGED applied
    BY <1>5 DEF vars, paymentVars
  <2>2. account \in [Wallets -> Nat] /\ outside \in [Wallets -> 0..MaxOutside]
    BY DEF PaymentInv, SendInv
  <2>3. \A w \in Wallets : account'[w] >= account[w]
    BY <2>1, <2>2
  <2> QED
    BY <2>1, <2>2, <2>3, NothingApplied
<1> QED
  BY <1>1, <1>2, <1>3, <1>4, <1>5 DEF PaymentNext

LEMMA PaymentsInvariant == PaymentSpec => []PaymentInv
<1>1. PaymentInit => PaymentInv
  BY PaymentsStart
<1>2. PaymentInv /\ [PaymentNext]_vars => PaymentInv'
  BY PaymentsStep
<1> QED
  BY <1>1, <1>2, PTL DEF PaymentSpec

\* The only transaction of a send that can have moved the money is the one it
\* has signed.
LEMMA PaidByCurrent ==
    ASSUME PaymentInv, NEW t \in Sends
    PROVE  Paid(t) \subseteq {Result(Tx(t), TRUE)}
<1>1. SendSound(t) /\ send[t] \in SendRecord /\ LedgerSound
  BY DEF PaymentInv, SendInv
<1>2. NothingLeft(t) => Paid(t) = {}
  BY DEF NothingLeft, Paid
<1>3. OnlyCurrent(t) => \A a \in Paid(t) : a.tx = Tx(t) /\ a.ok
  BY DEF OnlyCurrent, Paid
<1>4. \A a \in applied : a.ok \in BOOLEAN /\ a = [tx |-> a.tx, ok |-> a.ok]
  BY <1>1 DEF LedgerSound, ResultRecord
<1>5. OnlyCurrent(t) => \A a \in Paid(t) : a = Result(Tx(t), TRUE)
  BY <1>3, <1>4 DEF Paid, Result
<1>6. send[t].at = "idle" => Paid(t) = {}
  BY <1>1 DEF SendSound, Paid
<1>7. send[t].at \in Places
  BY <1>1 DEF SendRecord
<1> QED
  BY <1>1, <1>2, <1>5, <1>6, <1>7 DEF SendSound, Places

\* One call of sendPayment moves the money at most once, for any number of
\* retries, rebuilds, wallets and outside transactions, and any lag of Horizon.
THEOREM PaymentsPaidOnce == PaymentSpec => []PaidOnce
<1>1. PaymentInv => PaidOnce
  <2> SUFFICES ASSUME PaymentInv, NEW t \in Sends PROVE Cardinality(Paid(t)) <= 1
    BY DEF PaidOnce
  <2>1. PICK r : r = Result(Tx(t), TRUE)
    OBVIOUS
  <2>2. Paid(t) \subseteq {r}
    BY <2>1, PaidByCurrent
  <2>3. CASE Paid(t) = {}
    BY <2>3, FS_EmptySet
  <2>4. CASE Paid(t) = {r}
    <3>1. Cardinality({r}) = 1
      BY FS_Singleton, Zenon
    <3>2. Cardinality(Paid(t)) = 1
      BY <2>4, <3>1
    <3> QED
      BY <3>2
  <2> QED
    BY <2>2, <2>3, <2>4
<1> QED
  BY <1>1, PaymentsInvariant, PTL

\* What a caller of sendPayment is told of the money is so, now and later.
THEOREM ResultsAreTrue == PaymentSpec => []ResultIsTrue
<1>1. PaymentInv => ResultIsTrue
  <2> SUFFICES ASSUME PaymentInv PROVE ResolvedIsPaid /\ FailureIsFinal
    BY DEF ResultIsTrue
  <2>1. ASSUME NEW t \in Sends, call[t] = "resolved" PROVE Paid(t) # {}
    <3>1. Result(Tx(t), TRUE) \in applied
      BY <2>1 DEF PaymentInv, SendInv, SendSound
    <3>2. Result(Tx(t), TRUE).tx.send = t /\ Result(Tx(t), TRUE).ok
      BY DEF Result, Tx
    <3> QED
      BY <3>1, <3>2 DEF Paid
  <2>2. ASSUME NEW t \in Sends, send[t].at \in {"failed", "bad sequence"}
        PROVE  /\ Paid(t) = {}
               /\ \A x \in inFlight : x.send = t => x.seq <= Sequence(x)
    <3>1. NothingLeft(t)
      BY <2>2 DEF PaymentInv, SendInv, SendSound
    <3> QED
      BY <3>1 DEF NothingLeft, Dead, Paid
  <2> QED
    BY <2>1, <2>2 DEF ResolvedIsPaid, FailureIsFinal
<1> QED
  BY <1>1, PaymentsInvariant, PTL

\* The wallet's queue runs one function at a time unless one timed out, and the
\* metric counts what has not settled, for any number of wallets and tasks.
THEOREM QueueIsKept == PaymentSpec => []QueueKept
<1>1. PaymentInv => QueueKept
  <2> SUFFICES ASSUME PaymentInv
               PROVE  PaymentTypeOK /\ SerialUnlessTimedOut /\ PendingCounted
    BY DEF QueueKept
  <2>1. PendingCounted
    BY DEF PaymentInv, QueueInv, PendingCounted, Unsettled
  <2>2. PaymentTypeOK
    <3>1. pendingTasksTotal \in Nat
      BY FS_CardinalityType DEF PaymentInv, QueueInv
    <3>2. \A a \in applied : a.tx.send \in Sends /\ a.ok \in BOOLEAN
      BY DEF PaymentInv, SendInv, LedgerSound, ResultRecord, TxRecord
    <3>3. inFlight \subseteq [send : Sends, op : {"payment", "balance"}, seq : Nat]
      BY DEF PaymentInv, SendInv, LedgerSound, TxRecord, Ops
    <3>4. send \in [Sends ->
            [at : {"idle", "load", "signed", "sent", "naming", "done", "failed",
                   "bad sequence", "unanswered"},
             op : {"payment", "balance"}, seq : Nat,
             attempt : 0..MAX_SEQ_RETRIES - 1,
             tries : 0..(PaymentRetries + BalanceRetries)]]
      BY DEF PaymentInv, SendInv, SendRecord, Places, Ops
    <3>5. account \in [Wallets -> Nat] /\ outside \in [Wallets -> 0..MaxOutside]
      BY DEF PaymentInv, SendInv
    <3>6. /\ queues \in [Wallets -> Seq(Sends)]
          /\ call \in [Sends -> Settled \cup {"not called", "waiting", "running"}]
      BY DEF PaymentInv, QueueInv
    <3> QED
      BY <3>1, <3>2, <3>3, <3>4, <3>5, <3>6 DEF PaymentTypeOK
  <2>3. ASSUME NEW t \in Sends, NEW u \in Sends, t # u, sender[t] = sender[u],
               Active(t), Active(u), "timed out" \notin {call[t], call[u]}
        PROVE  FALSE
    <3>1. call[t] = "running" /\ call[u] = "running"
      BY <2>3, ActiveSend
    <3>2. PICK q \in Seq(Sends) : q = queues[sender[t]]
      BY QueueConstants DEF PaymentInv, QueueInv
    <3>3. PICK i \in DOMAIN q : q[i] = t
      BY <3>1, <3>2 DEF PaymentInv, QueueInv, Queued
    <3>4. PICK j \in DOMAIN q : q[j] = u
      BY <2>3, <3>1, <3>2 DEF PaymentInv, QueueInv, Queued
    <3>5. i < j \/ j < i
      <4>1. i \in Nat /\ j \in Nat
        BY <3>2
      <4>2. i # j
        BY <2>3, <3>3, <3>4
      <4> QED
        BY <4>1, <4>2
    <3>6. t \in Before(u) \/ u \in Before(t)
      BY <2>3, <3>2, <3>3, <3>4, <3>5 DEF Before
    <3>7. call[t] \in Settled \/ call[u] \in Settled
      BY <3>1, <3>6 DEF PaymentInv, QueueInv
    <3> QED
      BY <3>1, <3>7 DEF Settled
  <2> QED
    BY <2>1, <2>2, <2>3 DEF SerialUnlessTimedOut
<1> QED
  BY <1>1, PaymentsInvariant, PTL

-----------------------------------------------------------------------------
(* The tokens of one login.                                                *)

AnyToken == Tokens \cup {NoToken}
Stages == {"idle", "check", "read", "insert", "claim", "drop", "again", "revoke", "answer",
           "refused"}
Row == [state : {"absent", "valid", "revoked", "deleted"}, next : AnyToken]
Refresh == [at : Stages, token : AnyToken, gives : AnyToken]

TokensShape ==
    /\ family \in [Tokens -> Row]
    /\ graceOver \subseteq Tokens /\ denied \subseteq Tokens
    /\ jar \in AnyToken
    /\ refreshes \in [Tabs -> Refresh]
    /\ exit \in [at : {"idle", "delete", "deny", "clear"}, token : AnyToken, gives : AnyToken]
    /\ exit.at # "idle" => exit.token \in Tokens
    /\ webLocks \in BOOLEAN /\ ended \in BOOLEAN /\ accused \in BOOLEAN
    /\ troubles \in 0..MaxTroubles
    /\ \A b \in Tabs :
          /\ refreshes[b].at # "idle" => refreshes[b].token \in Tokens
          /\ refreshes[b].at \in {"claim", "drop"} => refreshes[b].gives \in Tokens

\* A token that has left the database: a browser has it, a request carries it,
\* or it will be given for a token that was rotated.
Known(t) ==
    \/ t = jar \/ t = exit.token
    \/ \E b \in Tabs : t = refreshes[b].token
    \/ \E b \in Tabs : refreshes[b].at = "answer" /\ t = refreshes[b].gives
    \/ \E u \in Tokens : t = family[u].next

\* One known token at most is valid, none when the family is over; a successor
\* that was inserted is its request's secret until the request has claimed.
OneLine ==
    /\ \A t \in Tokens : family[t].state = "absent" => ~Known(t) /\ family[t].next = NoToken
    /\ \A t, u \in Tokens :
          (/\ Known(t) /\ family[t].state = "valid"
           /\ Known(u) /\ family[u].state = "valid") => t = u
    /\ \A b \in Tabs : refreshes[b].at = "claim" =>
          /\ refreshes[b].gives \in Tokens /\ ~Known(refreshes[b].gives)
          /\ family[refreshes[b].gives].state # "absent"
          /\ \A c \in Tabs : c # b /\ refreshes[c].at = "claim" =>
                refreshes[c].gives # refreshes[b].gives
    /\ ended \/ accused => \A t \in Tokens : Known(t) => family[t].state # "valid"

\* A token that its user may present without being accused.
Good(t) == t \in Tokens => \/ family[t].state = "valid"
                           \/ ended /\ family[t].state = "deleted"

\* A browser that serialises its tabs and lost no response.
Undisturbed ==
    /\ ~accused
    /\ \A b, c \in Tabs : refreshes[b].at # "idle" /\ refreshes[c].at # "idle" => b = c
    /\ \A b \in Tabs :
          /\ refreshes[b].at \in {"check", "read", "insert", "claim"} => Good(refreshes[b].token)
          /\ refreshes[b].at \in {"claim", "answer"} => Good(refreshes[b].gives)
          /\ refreshes[b].at \in {"drop", "again", "revoke"} => ended
    /\ Good(jar) \/ \E b \in Tabs : refreshes[b].at = "answer"
    /\ ended => \A t \in Tokens :
          \/ family[t].state \in {"absent", "deleted"}
          \/ \E b \in Tabs : refreshes[b].at \in {"claim", "drop"} /\ t = refreshes[b].gives

TokensInv ==
    /\ TokensShape
    /\ OneLine
    /\ webLocks /\ troubles = 0 => Undisturbed

\* What the steps of a request do to its record, and to no other.
LEMMA Proceeds ==
    ASSUME TokensShape, NEW b \in Tabs, NEW at \in Stages, Proceed(b, at)
    PROVE  /\ refreshes' \in [Tabs -> Refresh]
           /\ refreshes'[b].at = at
           /\ refreshes'[b].token = refreshes[b].token
           /\ refreshes'[b].gives = refreshes[b].gives
           /\ \A c \in Tabs : c # b => refreshes'[c] = refreshes[c]
<1>1. refreshes \in [Tabs -> Refresh] /\ refreshes[b] \in Refresh
  BY DEF TokensShape
<1>2. PICK r : r = [refreshes[b] EXCEPT !.at = at]
  OBVIOUS
<1>3. /\ r \in Refresh /\ r.at = at
      /\ r.token = refreshes[b].token /\ r.gives = refreshes[b].gives
  BY <1>1, <1>2 DEF Refresh
<1>4. refreshes' = [refreshes EXCEPT ![b] = r]
  BY <1>1, <1>2 DEF Proceed
<1> QED
  BY <1>1, <1>3, <1>4

LEMMA Gives ==
    ASSUME TokensShape, NEW b \in Tabs, NEW t \in AnyToken, Give(b, t)
    PROVE  /\ refreshes' \in [Tabs -> Refresh]
           /\ refreshes'[b].at = "answer"
           /\ refreshes'[b].token = refreshes[b].token
           /\ refreshes'[b].gives = t
           /\ \A c \in Tabs : c # b => refreshes'[c] = refreshes[c]
<1>1. refreshes \in [Tabs -> Refresh] /\ refreshes[b] \in Refresh
  BY DEF TokensShape
<1>2. PICK r : r = [refreshes[b] EXCEPT !.at = "answer", !.gives = t]
  OBVIOUS
<1>3. /\ r \in Refresh /\ r.at = "answer"
      /\ r.token = refreshes[b].token /\ r.gives = t
  BY <1>1, <1>2 DEF Refresh, Stages
<1>4. refreshes' = [refreshes EXCEPT ![b] = r]
  BY <1>1, <1>2 DEF Give
<1> QED
  BY <1>1, <1>3, <1>4

\* A step by which nothing becomes known, valid or absent, and no successor is
\* inserted, keeps the line.
LEMMA LineKept ==
    ASSUME TokensShape, OneLine,
           \A t \in Tokens : Known(t)' => Known(t),
           \A t \in Tokens : family'[t].state = "valid" => family[t].state = "valid",
           \A t \in Tokens : family'[t].state = "absent" =>
              family[t].state = "absent" /\ family'[t].next = NoToken,
           \A b \in Tabs : refreshes'[b].at = "claim" =>
              refreshes[b].at = "claim" /\ refreshes'[b].gives = refreshes[b].gives,
           ended' \/ accused' => \/ ended \/ accused
                                 \/ \A t \in Tokens : family'[t].state # "valid"
    PROVE  OneLine'
<1>1. \A t \in Tokens : family'[t].state = "absent" => ~Known(t)' /\ family'[t].next = NoToken
  BY DEF OneLine
<1>2. \A t, u \in Tokens :
          (/\ Known(t)' /\ family'[t].state = "valid"
           /\ Known(u)' /\ family'[u].state = "valid") => t = u
  BY DEF OneLine
<1>3. \A b \in Tabs : refreshes'[b].at = "claim" =>
          /\ refreshes'[b].gives \in Tokens /\ ~Known(refreshes[b].gives)'
          /\ family'[refreshes'[b].gives].state # "absent"
          /\ \A c \in Tabs : c # b /\ refreshes'[c].at = "claim" =>
                refreshes'[c].gives # refreshes'[b].gives
  <2> SUFFICES ASSUME NEW b \in Tabs, refreshes'[b].at = "claim"
               PROVE  /\ refreshes'[b].gives \in Tokens /\ ~Known(refreshes[b].gives)'
                      /\ family'[refreshes'[b].gives].state # "absent"
                      /\ \A c \in Tabs : c # b /\ refreshes'[c].at = "claim" =>
                            refreshes'[c].gives # refreshes'[b].gives
    OBVIOUS
  <2>1. PICK g : g = refreshes[b].gives
    OBVIOUS
  <2>2. g = refreshes'[b].gives /\ g \in Tokens /\ ~Known(g) /\ family[g].state # "absent"
    BY <2>1 DEF OneLine
  <2>3. ~Known(g)' /\ family'[g].state # "absent"
    BY <2>2
  <2>4. Known(refreshes[b].gives)' => Known(g)'
    BY <2>1, <2>2 DEF Known
  <2>5. \A c \in Tabs : c # b /\ refreshes'[c].at = "claim" =>
           refreshes'[c].gives # refreshes'[b].gives
    BY DEF OneLine
  <2> QED
    BY <2>2, <2>3, <2>4, <2>5
<1>4. ended' \/ accused' => \A t \in Tokens : Known(t)' => family'[t].state # "valid"
  BY DEF OneLine
<1> QED
  BY <1>1, <1>2, <1>3, <1>4 DEF OneLine

\* A tab that refreshes is the only one, where tabs take turns.
LEMMA Alone ==
    ASSUME Undisturbed, NEW b \in Tabs, refreshes[b].at # "idle"
    PROVE  \A c \in Tabs : c # b => refreshes[c].at = "idle"
BY DEF Undisturbed

\* A step of one tab that touches no row and inserts no successor.
LEMMA OneTab ==
    ASSUME TokensInv, NEW b \in Tabs,
           UNCHANGED <<family, graceOver, denied, jar, webLocks, exit, ended, accused>>,
           troubles' \in 0..MaxTroubles, troubles' >= troubles,
           refreshes' \in [Tabs -> Refresh],
           \A c \in Tabs : c # b => refreshes'[c] = refreshes[c],
           refreshes'[b].at # "claim",
           refreshes'[b].at = "drop" => refreshes'[b].gives \in Tokens,
           refreshes'[b].at # "idle" => refreshes'[b].token \in Tokens,
           refreshes'[b].token = NoToken \/ Known(refreshes'[b].token),
           refreshes'[b].at = "answer" =>
              refreshes'[b].gives = NoToken \/ Known(refreshes'[b].gives),
           webLocks /\ troubles' = 0 /\ Undisturbed =>
              /\ refreshes[b].at # "answer"
              /\ refreshes[b].at \in {"claim", "drop"} =>
                    refreshes'[b].at = "drop" /\ refreshes'[b].gives = refreshes[b].gives
              /\ refreshes'[b].at # "idle" =>
                    \A c \in Tabs : c # b => refreshes[c].at = "idle"
              /\ refreshes'[b].at \in {"check", "read", "insert"} => Good(refreshes'[b].token)
              /\ refreshes'[b].at = "answer" => Good(refreshes'[b].gives)
              /\ refreshes'[b].at \in {"drop", "again", "revoke"} => ended
    PROVE  TokensInv'
<1>1. TokensShape /\ OneLine /\ (webLocks /\ troubles = 0 => Undisturbed)
  BY DEF TokensInv
<1>2. /\ UNCHANGED family /\ UNCHANGED jar /\ UNCHANGED exit /\ UNCHANGED webLocks
      /\ UNCHANGED ended /\ UNCHANGED accused /\ UNCHANGED graceOver /\ UNCHANGED denied
  OBVIOUS
<1>3. TokensShape'
  <2>1. \A c \in Tabs :
          /\ refreshes'[c].at # "idle" => refreshes'[c].token \in Tokens
          /\ refreshes'[c].at \in {"claim", "drop"} => refreshes'[c].gives \in Tokens
    BY <1>1 DEF TokensShape
  <2> QED
    BY <1>1, <1>2, <2>1 DEF TokensShape
<1>4. NoToken \notin Tokens
  BY RefreshConstants DEF NoToken, Tokens
<1>5. ASSUME NEW t \in Tokens, Known(t)' PROVE Known(t)
  <2>1. PICK r : r = refreshes'[b]
    OBVIOUS
  <2>2. \/ t = jar \/ t = exit.token
        \/ \E c \in Tabs : t = refreshes'[c].token
        \/ \E c \in Tabs : refreshes'[c].at = "answer" /\ t = refreshes'[c].gives
        \/ \E u \in Tokens : t = family[u].next
    BY <1>2, <1>5 DEF Known
  <2>3. ASSUME NEW c \in Tabs, t = refreshes'[c].token PROVE Known(t)
    BY <1>4, <2>3 DEF Known
  <2>4. ASSUME NEW c \in Tabs, refreshes'[c].at = "answer", t = refreshes'[c].gives
        PROVE  Known(t)
    BY <1>4, <2>4 DEF Known
  <2> QED
    BY <2>2, <2>3, <2>4 DEF Known
<1>6. OneLine'
  <2>1. \A t \in Tokens : family'[t].state = "absent" =>
              family[t].state = "absent" /\ family'[t].next = NoToken
    BY <1>1, <1>2 DEF OneLine
  <2>2. \A c \in Tabs : refreshes'[c].at = "claim" =>
              refreshes[c].at = "claim" /\ refreshes'[c].gives = refreshes[c].gives
    OBVIOUS
  <2> QED
    BY <1>1, <1>2, <1>5, <2>1, <2>2, LineKept
<1>7. ASSUME webLocks', troubles' = 0 PROVE Undisturbed'
  <2>1. troubles = 0 /\ Undisturbed
    <3>1. troubles \in Nat
      BY <1>1, RefreshConstants DEF TokensShape
    <3> QED
      BY <1>1, <1>2, <1>7, <3>1
  <2>2. \A t : Good(t)' = Good(t)
    BY <1>2 DEF Good
  <2>3. /\ refreshes[b].at # "answer"
        /\ refreshes[b].at \in {"claim", "drop"} =>
              refreshes'[b].at = "drop" /\ refreshes'[b].gives = refreshes[b].gives
        /\ refreshes'[b].at # "idle" => \A c \in Tabs : c # b => refreshes[c].at = "idle"
        /\ refreshes'[b].at \in {"check", "read", "insert"} => Good(refreshes'[b].token)
        /\ refreshes'[b].at = "answer" => Good(refreshes'[b].gives)
        /\ refreshes'[b].at \in {"drop", "again", "revoke"} => ended
    BY <1>2, <1>7, <2>1
  <2>4. \A c, d \in Tabs : refreshes'[c].at # "idle" /\ refreshes'[d].at # "idle" => c = d
    BY <2>1, <2>3 DEF Undisturbed
  <2>5. ASSUME NEW c \in Tabs
        PROVE  /\ refreshes'[c].at \in {"check", "read", "insert", "claim"} =>
                     Good(refreshes[c].token)'
               /\ refreshes'[c].at \in {"claim", "answer"} => Good(refreshes[c].gives)'
               /\ refreshes'[c].at \in {"drop", "again", "revoke"} => ended'
    <3>1. CASE c = b
      BY <1>2, <2>2, <2>3, <3>1 DEF Good
    <3>2. CASE c # b
      <4>1. refreshes'[c] = refreshes[c]
        BY <3>2
      <4> QED
        BY <1>2, <2>1, <4>1 DEF Undisturbed, Good
    <3> QED
      BY <3>1, <3>2
  <2>6. Good(jar)' \/ \E c \in Tabs : refreshes'[c].at = "answer"
    BY <1>2, <2>1, <2>3 DEF Undisturbed, Good
  <2>7. ended' => \A t \in Tokens :
          \/ family'[t].state \in {"absent", "deleted"}
          \/ \E c \in Tabs : refreshes'[c].at \in {"claim", "drop"} /\ t = refreshes'[c].gives
    BY <1>2, <2>1, <2>3 DEF Undisturbed
  <2> QED
    BY <1>2, <2>1, <2>4, <2>5, <2>6, <2>7 DEF Undisturbed
<1> QED
  BY <1>3, <1>6, <1>7 DEF TokensInv

LEMMA TroubleCounted ==
    ASSUME TokensShape, UNCHANGED troubles \/ Trouble
    PROVE  /\ troubles' \in 0..MaxTroubles /\ troubles' >= troubles
           /\ Trouble => troubles' # 0
           /\ troubles' = 0 => troubles = 0
<1>1. troubles \in Nat /\ MaxTroubles \in Nat /\ troubles <= MaxTroubles
  BY RefreshConstants DEF TokensShape
<1> QED
  BY <1>1 DEF Trouble

LEMMA SendRefreshKeeps ==
    ASSUME TokensInv, NEW b \in Tabs, SendRefresh(b) PROVE TokensInv'
<1>1. TokensShape
  BY DEF TokensInv
<1>2. /\ refreshes[b].at = "idle" /\ jar \in Tokens
      /\ webLocks => \A c \in Tabs : refreshes[c].at = "idle"
      /\ refreshes \in [Tabs -> Refresh]
  BY <1>1 DEF SendRefresh, Asking, TokensShape, AnyToken
<1>3. PICK r : r = [at |-> "check", token |-> jar, gives |-> NoToken]
  OBVIOUS
<1>4. r \in Refresh /\ r.at = "check" /\ r.token = jar
  BY <1>2, <1>3 DEF Refresh, Stages, AnyToken
<1>5. refreshes' = [refreshes EXCEPT ![b] = r]
  BY <1>3 DEF SendRefresh
<1>6. /\ refreshes' \in [Tabs -> Refresh] /\ refreshes'[b] = r
      /\ \A c \in Tabs : c # b => refreshes'[c] = refreshes[c]
  BY <1>2, <1>4, <1>5
<1>7. Known(jar)
  BY DEF Known
<1>8. /\ UNCHANGED <<family, graceOver, denied, jar, webLocks, exit, ended, accused>>
      /\ UNCHANGED troubles
  BY DEF SendRefresh, Ending
<1>9. troubles' \in 0..MaxTroubles /\ troubles' >= troubles
  BY <1>1, <1>8, TroubleCounted
<1>10. webLocks /\ Undisturbed => Good(jar)
  BY <1>2 DEF Undisturbed
<1> QED
  BY <1>2, <1>4, <1>6, <1>7, <1>8, <1>9, <1>10, OneTab

\* What a request knows of its own token.
LEMMA Carried ==
    ASSUME TokensInv, NEW b \in Tabs, refreshes[b].at # "idle"
    PROVE  /\ TokensShape /\ OneLine
           /\ refreshes[b].token \in Tokens /\ Known(refreshes[b].token)
           /\ family[refreshes[b].token] \in Row
           /\ family[refreshes[b].token].state # "absent"
           /\ family[refreshes[b].token].next \in AnyToken
           /\ Known(family[refreshes[b].token].next)
<1>1. TokensShape /\ OneLine
  BY DEF TokensInv
<1>2. PICK t \in Tokens : t = refreshes[b].token
  BY <1>1 DEF TokensShape
<1>3. Known(t) /\ Known(family[t].next)
  BY <1>2 DEF Known
<1>4. family[t] \in Row /\ family[t].next \in AnyToken
  BY <1>1 DEF TokensShape, Row
<1>5. family[t].state # "absent"
  BY <1>1, <1>3 DEF OneLine
<1> QED
  BY <1>1, <1>2, <1>3, <1>4, <1>5

LEMMA CheckDeniedKeeps ==
    ASSUME TokensInv, NEW b \in Tabs, CheckDenied(b) PROVE TokensInv'
<1>1. refreshes[b].at = "check"
  BY DEF CheckDenied, Asking
<1>2. TokensShape /\ refreshes[b].token \in Tokens /\ Known(refreshes[b].token)
  BY <1>1, Carried
<1>3. /\ UNCHANGED <<family, graceOver, denied, jar, webLocks, exit, ended, accused>>
      /\ UNCHANGED troubles \/ Trouble
  BY DEF CheckDenied, Ending
<1>4. troubles' \in 0..MaxTroubles /\ troubles' >= troubles
  BY <1>2, <1>3, TroubleCounted
<1>5. Undisturbed => /\ \A c \in Tabs : c # b => refreshes[c].at = "idle"
                     /\ Good(refreshes[b].token)
  BY <1>1, Alone DEF Undisturbed
<1>6. CASE Give(b, NoToken)
  <2>1. /\ refreshes' \in [Tabs -> Refresh]
        /\ refreshes'[b].at = "answer" /\ refreshes'[b].gives = NoToken
        /\ refreshes'[b].token = refreshes[b].token
        /\ \A c \in Tabs : c # b => refreshes'[c] = refreshes[c]
    BY <1>2, <1>6, Gives DEF AnyToken
  <2>2. Good(NoToken)
    BY RefreshConstants DEF Good, NoToken, Tokens
  <2> QED
    BY <1>1, <1>2, <1>3, <1>4, <1>5, <2>1, <2>2, OneTab
<1>7. CASE Proceed(b, "read")
  <2>1. /\ refreshes' \in [Tabs -> Refresh]
        /\ refreshes'[b].at = "read"
        /\ refreshes'[b].token = refreshes[b].token
        /\ \A c \in Tabs : c # b => refreshes'[c] = refreshes[c]
    BY <1>2, <1>7, Proceeds DEF Stages
  <2> QED
    BY <1>1, <1>2, <1>3, <1>4, <1>5, <2>1, OneTab
<1> QED
  BY <1>6, <1>7 DEF CheckDenied

LEMMA ReadTokenKeeps ==
    ASSUME TokensInv, NEW b \in Tabs, ReadToken(b) PROVE TokensInv'
<1>1. refreshes[b].at = "read"
  BY DEF ReadToken, Asking
<1>2. PICK t : t = refreshes[b].token
  OBVIOUS
<1>3. /\ TokensShape /\ t \in Tokens /\ Known(t)
      /\ family[t] \in Row
      /\ family[t].next \in AnyToken /\ Known(family[t].next)
  BY <1>1, <1>2, Carried
<1>4. /\ UNCHANGED <<family, graceOver, denied, jar, webLocks, exit, ended, accused>>
      /\ UNCHANGED troubles
  BY DEF ReadToken, Ending
<1>5. troubles' \in 0..MaxTroubles /\ troubles' >= troubles
  BY <1>3, <1>4, TroubleCounted
<1>6. Undisturbed => /\ \A c \in Tabs : c # b => refreshes[c].at = "idle"
                     /\ Good(t)
  BY <1>1, <1>2, Alone DEF Undisturbed
<1>7. \/ family[t].state = "valid" /\ Proceed(b, "insert")
      \/ InGrace(t) /\ Give(b, family[t].next)
      \/ family[t].state = "revoked" /\ Proceed(b, "revoke")
      \/ Proceed(b, "refused")
  <2>1. CASE family[t].state = "valid"
    BY <1>2, <2>1 DEF ReadToken, InGrace
  <2>2. CASE InGrace(t)
    BY <1>2, <2>2 DEF ReadToken, InGrace
  <2>3. CASE family[t].state = "revoked" /\ ~InGrace(t)
    BY <1>2, <2>3 DEF ReadToken
  <2>4. CASE family[t].state \notin {"valid", "revoked"}
    BY <1>2, <2>4 DEF ReadToken, InGrace
  <2> QED
    BY <2>1, <2>2, <2>3, <2>4
<1>8. CASE InGrace(t) /\ Give(b, family[t].next)
  <2>1. /\ refreshes' \in [Tabs -> Refresh]
        /\ refreshes'[b].at = "answer" /\ refreshes'[b].gives = family[t].next
        /\ refreshes'[b].token = t
        /\ \A c \in Tabs : c # b => refreshes'[c] = refreshes[c]
    BY <1>2, <1>3, <1>8, Gives
  <2>2. ~Undisturbed
    BY <1>3, <1>6, <1>8 DEF Good, InGrace
  <2> QED
    BY <1>3, <1>4, <1>5, <2>1, <2>2, OneTab
<1>9. ASSUME NEW at \in {"insert", "revoke", "refused"}, Proceed(b, at),
             at = "revoke" => family[t].state = "revoked"
      PROVE  TokensInv'
  <2>1. /\ refreshes' \in [Tabs -> Refresh]
        /\ refreshes'[b].at = at /\ refreshes'[b].token = t
        /\ \A c \in Tabs : c # b => refreshes'[c] = refreshes[c]
    BY <1>2, <1>3, <1>9, Proceeds DEF Stages
  <2>2. Undisturbed => at # "revoke"
    BY <1>3, <1>6, <1>9 DEF Good
  <2> QED
    BY <1>1, <1>3, <1>4, <1>5, <1>6, <2>1, <2>2, OneTab
<1> QED
  BY <1>7, <1>8, <1>9

LEMMA LookAgainKeeps ==
    ASSUME TokensInv, NEW b \in Tabs, LookAgain(b) PROVE TokensInv'
<1>1. refreshes[b].at = "again"
  BY DEF LookAgain, Asking
<1>2. PICK t : t = refreshes[b].token
  OBVIOUS
<1>3. /\ TokensShape /\ t \in Tokens /\ Known(t)
      /\ family[t].next \in AnyToken /\ Known(family[t].next)
  BY <1>1, <1>2, Carried
<1>4. /\ UNCHANGED <<family, graceOver, denied, jar, webLocks, exit, ended, accused>>
      /\ UNCHANGED troubles
  BY DEF LookAgain, Ending
<1>5. troubles' \in 0..MaxTroubles /\ troubles' >= troubles
  BY <1>3, <1>4, TroubleCounted
<1>6. ASSUME Undisturbed
      PROVE  /\ \A c \in Tabs : c # b => refreshes[c].at = "idle"
             /\ ended /\ family[t].state \in {"absent", "deleted"}
  <2>1. \A c \in Tabs : c # b => refreshes[c].at = "idle"
    BY <1>1, <1>6, Alone
  <2>2. ended
    BY <1>1, <1>6 DEF Undisturbed
  <2>3. ~\E c \in Tabs : refreshes[c].at \in {"claim", "drop"}
    BY <1>1, <2>1
  <2> QED
    BY <1>3, <1>6, <2>1, <2>2, <2>3 DEF Undisturbed
<1>7. CASE InGrace(t) /\ Give(b, family[t].next)
  <2>1. /\ refreshes' \in [Tabs -> Refresh]
        /\ refreshes'[b].at = "answer" /\ refreshes'[b].gives = family[t].next
        /\ refreshes'[b].token = t
        /\ \A c \in Tabs : c # b => refreshes'[c] = refreshes[c]
    BY <1>2, <1>3, <1>7, Gives
  <2>2. ~Undisturbed
    BY <1>6, <1>7 DEF InGrace
  <2> QED
    BY <1>3, <1>4, <1>5, <2>1, <2>2, OneTab
<1>8. CASE Proceed(b, "revoke")
  <2>1. /\ refreshes' \in [Tabs -> Refresh]
        /\ refreshes'[b].at = "revoke" /\ refreshes'[b].token = t
        /\ \A c \in Tabs : c # b => refreshes'[c] = refreshes[c]
    BY <1>2, <1>3, <1>8, Proceeds DEF Stages
  <2> QED
    BY <1>1, <1>3, <1>4, <1>5, <1>6, <2>1, OneTab
<1> QED
  BY <1>2, <1>7, <1>8 DEF LookAgain

LEMMA RefreshFailsKeeps ==
    ASSUME TokensInv, NEW b \in Tabs, RefreshFails(b) PROVE TokensInv'
<1>1. TokensShape /\ refreshes \in [Tabs -> Refresh]
  BY DEF TokensInv, TokensShape
<1>2. Quiet \in Refresh /\ Quiet.at = "idle" /\ Quiet.token = NoToken
  BY DEF Quiet, Refresh, Stages, AnyToken
<1>3. refreshes' = [refreshes EXCEPT ![b] = Quiet]
  BY DEF RefreshFails
<1>4. /\ refreshes' \in [Tabs -> Refresh] /\ refreshes'[b] = Quiet
      /\ \A c \in Tabs : c # b => refreshes'[c] = refreshes[c]
  BY <1>1, <1>2, <1>3
<1>5. /\ UNCHANGED <<family, graceOver, denied, jar, webLocks, exit, ended, accused>>
      /\ Trouble
  BY DEF RefreshFails, Ending
<1>6. troubles' \in 0..MaxTroubles /\ troubles' >= troubles /\ troubles' # 0
  BY <1>1, <1>5, TroubleCounted
<1> QED
  BY <1>2, <1>4, <1>5, <1>6, OneTab

LEMMA ReceiveRefreshKeeps ==
    ASSUME TokensInv, NEW b \in Tabs, ReceiveRefresh(b) PROVE TokensInv'
<1>1. /\ TokensShape /\ OneLine /\ (webLocks /\ troubles = 0 => Undisturbed)
      /\ refreshes \in [Tabs -> Refresh] /\ refreshes[b] \in Refresh
  BY DEF TokensInv, TokensShape
<1>2. /\ UNCHANGED family /\ UNCHANGED exit /\ UNCHANGED webLocks /\ UNCHANGED ended
      /\ UNCHANGED accused /\ UNCHANGED troubles /\ UNCHANGED graceOver /\ UNCHANGED denied
  BY DEF ReceiveRefresh, Ending
<1>3. \/ refreshes[b].at = "answer" /\ jar' = refreshes[b].gives
      \/ refreshes[b].at = "refused" /\ jar' = jar
  BY DEF ReceiveRefresh, Asking
<1>4. /\ Quiet \in Refresh /\ Quiet.at = "idle"
      /\ Quiet.token = NoToken /\ Quiet.gives = NoToken /\ NoToken \notin Tokens
  BY RefreshConstants DEF Quiet, Refresh, Stages, AnyToken, NoToken, Tokens
<1>5. refreshes' = [refreshes EXCEPT ![b] = Quiet]
  BY DEF ReceiveRefresh
<1>6. /\ refreshes' \in [Tabs -> Refresh] /\ refreshes'[b] = Quiet
      /\ \A c \in Tabs : c # b => refreshes'[c] = refreshes[c]
  BY <1>1, <1>4, <1>5
<1>7. TokensShape'
  <2>1. jar' \in AnyToken
    BY <1>1, <1>3 DEF TokensShape, Refresh
  <2>2. \A c \in Tabs :
          /\ refreshes'[c].at # "idle" => refreshes'[c].token \in Tokens
          /\ refreshes'[c].at \in {"claim", "drop"} => refreshes'[c].gives \in Tokens
    BY <1>1, <1>4, <1>6 DEF TokensShape
  <2> QED
    BY <1>1, <1>2, <1>6, <2>1, <2>2 DEF TokensShape
<1>8. ASSUME NEW t \in Tokens, Known(t)' PROVE Known(t)
  <2>1. \/ t = jar' \/ t = exit.token
        \/ \E c \in Tabs : t = refreshes'[c].token
        \/ \E c \in Tabs : refreshes'[c].at = "answer" /\ t = refreshes'[c].gives
        \/ \E u \in Tokens : t = family[u].next
    BY <1>2, <1>8 DEF Known
  <2>2. ASSUME NEW c \in Tabs, t = refreshes'[c].token PROVE Known(t)
    BY <1>4, <1>6, <2>2 DEF Known
  <2>3. ASSUME NEW c \in Tabs, refreshes'[c].at = "answer", t = refreshes'[c].gives
        PROVE  Known(t)
    BY <1>4, <1>6, <2>3 DEF Known
  <2>4. t = jar' => Known(t)
    BY <1>3 DEF Known
  <2> QED
    BY <2>1, <2>2, <2>3, <2>4 DEF Known
<1>9. OneLine'
  <2>1. \A t \in Tokens : family'[t].state = "absent" =>
              family[t].state = "absent" /\ family'[t].next = NoToken
    BY <1>1, <1>2 DEF OneLine
  <2>2. \A c \in Tabs : refreshes'[c].at = "claim" =>
              refreshes[c].at = "claim" /\ refreshes'[c].gives = refreshes[c].gives
    BY <1>4, <1>6
  <2> QED
    BY <1>1, <1>2, <1>8, <2>1, <2>2, LineKept
<1>10. ASSUME Undisturbed PROVE Undisturbed'
  <2>1. \A c \in Tabs : c # b => refreshes[c].at = "idle"
    BY <1>3, <1>10, Alone
  <2>2. \A c \in Tabs : refreshes'[c].at = "idle"
    BY <1>4, <1>6, <2>1
  <2>3. \A t : Good(t)' = Good(t)
    BY <1>2 DEF Good
  <2>4. Good(jar')
    BY <1>3, <1>10, <2>1 DEF Undisturbed
  <2>5. Good(jar)'
    BY <1>2, <2>4 DEF Good
  <2>6. ~\E c \in Tabs : refreshes[c].at \in {"claim", "drop"}
    BY <1>3, <2>1
  <2>7. ended' => \A t \in Tokens : family'[t].state \in {"absent", "deleted"}
    BY <1>2, <1>10, <2>6 DEF Undisturbed
  <2> QED
    BY <1>2, <1>10, <2>2, <2>5, <2>7 DEF Undisturbed
<1> QED
  BY <1>1, <1>2, <1>7, <1>9, <1>10 DEF TokensInv

\* The logout's own steps, and time: no row and no refresh is touched.
LEMMA Elsewhere ==
    ASSUME TokensInv, UNCHANGED <<family, webLocks, refreshes, ended, accused>>,
           graceOver' \subseteq Tokens, denied' \subseteq Tokens,
           jar' = jar \/ jar' = NoToken,
           exit' \in [at : {"idle", "delete", "deny", "clear"}, token : AnyToken, gives : AnyToken],
           exit'.token \in {exit.token, jar, NoToken},
           exit'.at # "idle" => exit'.token \in Tokens,
           UNCHANGED troubles \/ Trouble
    PROVE  TokensInv'
<1>1. TokensShape /\ OneLine /\ (webLocks /\ troubles = 0 => Undisturbed)
  BY DEF TokensInv
<1>2. /\ UNCHANGED family /\ UNCHANGED webLocks /\ UNCHANGED ended
      /\ UNCHANGED accused /\ UNCHANGED refreshes
  OBVIOUS
<1>3. troubles' \in 0..MaxTroubles /\ (troubles' = 0 => troubles = 0)
  BY <1>1, TroubleCounted
<1>4. NoToken \notin Tokens
  BY RefreshConstants DEF NoToken, Tokens
<1>5. TokensShape'
  BY <1>1, <1>2, <1>3 DEF TokensShape, AnyToken
<1>6. \A t \in Tokens : Known(t)' => Known(t)
  BY <1>2, <1>4 DEF Known
<1>7. OneLine'
  <2>1. \A t \in Tokens : family'[t].state = "absent" =>
              family[t].state = "absent" /\ family'[t].next = NoToken
    BY <1>1, <1>2 DEF OneLine
  <2> QED
    BY <1>1, <1>2, <1>6, <2>1, LineKept
<1>8. ASSUME Undisturbed PROVE Undisturbed'
  <2>1. Good(jar) => Good(jar)'
    BY <1>2, <1>4 DEF Good
  <2>2. \A b \in Tabs :
          /\ Good(refreshes[b].token)' = Good(refreshes[b].token)
          /\ Good(refreshes[b].gives)' = Good(refreshes[b].gives)
    BY <1>2 DEF Good
  <2> QED
    BY <1>2, <1>8, <2>1, <2>2 DEF Undisturbed
<1> QED
  BY <1>1, <1>2, <1>3, <1>5, <1>7, <1>8 DEF TokensInv

LEMMA LogoutKeeps ==
    ASSUME TokensInv,
           SendLogout \/ DenyToken \/ ReceiveLogout \/ LogoutFails
             \/ \E t \in Tokens : GraceEnds(t)
    PROVE  TokensInv'
<1>1. TokensShape
  BY DEF TokensInv
<1>2. PICK at : at = exit.at
  OBVIOUS
<1>3. /\ graceOver \subseteq Tokens /\ denied \subseteq Tokens /\ jar \in AnyToken
      /\ exit \in [at : {"idle", "delete", "deny", "clear"}, token : AnyToken, gives : AnyToken]
      /\ NoToken \in AnyToken
      /\ exit.at # "idle" => exit.token \in Tokens
  BY <1>1 DEF TokensShape, AnyToken
<1>4. CASE SendLogout
  <2>1. PICK next \in {"delete", "clear"} : exit' = [Quiet EXCEPT !.token = jar, !.at = next]
    BY <1>4 DEF SendLogout
  <2> QED
    BY <1>3, <1>4, <2>1, Elsewhere DEF SendLogout, Quiet, AnyToken
<1>5. CASE DenyToken
  BY <1>3, <1>5, Elsewhere DEF DenyToken
<1>6. CASE ReceiveLogout
  BY <1>3, <1>6, Elsewhere DEF ReceiveLogout, Quiet
<1>7. CASE LogoutFails
  BY <1>3, <1>7, Elsewhere DEF LogoutFails, Quiet
<1>8. ASSUME NEW t \in Tokens, GraceEnds(t) PROVE TokensInv'
  BY <1>3, <1>8, Elsewhere DEF GraceEnds, Ending
<1> QED
  BY <1>4, <1>5, <1>6, <1>7, <1>8

\* The family is deleted: whatever is still under way finds nothing valid.
LEMMA FamilyDeleted ==
    ASSUME TokensInv, family' = Deleted, ended' = TRUE,
           UNCHANGED <<graceOver, denied, jar, webLocks, refreshes, accused, troubles>>,
           exit' \in [at : {"idle", "delete", "deny", "clear"}, token : AnyToken, gives : AnyToken],
           exit'.token = exit.token,
           exit'.at # "idle" => exit'.token \in Tokens
    PROVE  TokensInv'
<1>1. /\ TokensShape /\ OneLine /\ (webLocks /\ troubles = 0 => Undisturbed)
      /\ family \in [Tokens -> Row]
  BY DEF TokensInv, TokensShape
<1>2. /\ UNCHANGED jar /\ UNCHANGED webLocks /\ UNCHANGED refreshes
      /\ UNCHANGED accused /\ UNCHANGED troubles /\ UNCHANGED graceOver /\ UNCHANGED denied
  OBVIOUS
<1>3. NoToken \notin Tokens
  BY RefreshConstants DEF NoToken, Tokens
<1>4. ASSUME NEW t \in Tokens
      PROVE  /\ family'[t] \in Row /\ family'[t].next = NoToken
             /\ family'[t].state \in {"absent", "deleted"}
             /\ family'[t].state = "absent" => family[t].state = "absent"
             /\ family[t].state \in {"valid", "deleted"} => family'[t].state = "deleted"
  <2>1. CASE family[t] = Absent
    <3>1. family'[t] = Absent
      BY <2>1 DEF Deleted
    <3> QED
      BY <2>1, <3>1 DEF Absent, Row, AnyToken
  <2>2. CASE family[t] # Absent
    <3>1. family'[t] = [state |-> "deleted", next |-> NoToken]
      BY <2>2 DEF Deleted
    <3> QED
      BY <3>1 DEF Row, AnyToken
  <2> QED
    BY <2>1, <2>2
<1>5. TokensShape'
  <2>1. family' \in [Tokens -> Row]
    BY <1>4 DEF Deleted
  <2> QED
    BY <1>1, <1>2, <2>1 DEF TokensShape
<1>6. \A t \in Tokens : Known(t)' => Known(t)
  BY <1>2, <1>3, <1>4 DEF Known
<1>7. OneLine'
  <2>1. \A t \in Tokens : family'[t].state # "valid"
    BY <1>4
  <2> QED
    BY <1>1, <1>2, <1>4, <1>6, <2>1, LineKept
<1>8. ASSUME Undisturbed PROVE Undisturbed'
  <2>1. ASSUME NEW t, Good(t) PROVE (t \in Tokens) => family'[t].state = "deleted"
    BY <1>4, <2>1 DEF Good
  <2>2. Good(jar) => Good(jar)'
    BY <1>2, <2>1 DEF Good
  <2>3. \A b \in Tabs :
          /\ Good(refreshes[b].token) => Good(refreshes[b].token)'
          /\ Good(refreshes[b].gives) => Good(refreshes[b].gives)'
    BY <1>2, <2>1 DEF Good
  <2> QED
    BY <1>2, <1>4, <1>8, <2>2, <2>3 DEF Undisturbed
<1> QED
  BY <1>1, <1>2, <1>5, <1>7, <1>8 DEF TokensInv

LEMMA DeletionKeeps ==
    ASSUME TokensInv, DeleteFamily \/ ResetPassword PROVE TokensInv'
<1>1. /\ exit \in [at : {"idle", "delete", "deny", "clear"}, token : AnyToken, gives : AnyToken]
      /\ exit.at # "idle" => exit.token \in Tokens
  BY DEF TokensInv, TokensShape
<1>2. CASE DeleteFamily
  BY <1>1, <1>2, FamilyDeleted DEF DeleteFamily
<1>3. CASE ResetPassword
  BY <1>1, <1>3, FamilyDeleted DEF ResetPassword
<1> QED
  BY <1>2, <1>3

LEMMA InsertKeeps ==
    ASSUME TokensInv, NEW b \in Tabs, InsertSuccessor(b) PROVE TokensInv'
<1>1. /\ TokensShape /\ OneLine /\ (webLocks /\ troubles = 0 => Undisturbed)
      /\ refreshes \in [Tabs -> Refresh] /\ refreshes[b] \in Refresh
      /\ family \in [Tokens -> Row]
  BY DEF TokensInv, TokensShape
<1>2. refreshes[b].at = "insert"
  BY DEF InsertSuccessor, Asking
<1>3. /\ UNCHANGED jar /\ UNCHANGED exit /\ UNCHANGED webLocks /\ UNCHANGED ended
      /\ UNCHANGED accused /\ UNCHANGED troubles /\ UNCHANGED graceOver /\ UNCHANGED denied
  BY DEF InsertSuccessor, Ending
<1>4. PICK g \in Tokens :
         /\ \A u \in Tokens : family[u] = Absent <=> u >= g
         /\ family' = [family EXCEPT ![g].state = "valid"]
         /\ refreshes' = [refreshes EXCEPT ![b].at = "claim", ![b].gives = g]
  BY DEF InsertSuccessor
<1>5. family[g].state = "absent" /\ family[g].next = NoToken
  BY <1>4 DEF Tokens, Absent
<1>6. /\ family' \in [Tokens -> Row]
      /\ family'[g].state = "valid" /\ family'[g].next = NoToken
      /\ \A u \in Tokens : u # g => family'[u] = family[u]
  <2>1. PICK row : row = [family[g] EXCEPT !.state = "valid"]
    OBVIOUS
  <2>2. row \in Row /\ row.state = "valid" /\ row.next = NoToken
    BY <1>1, <1>5, <2>1 DEF Row
  <2>3. family' = [family EXCEPT ![g] = row]
    BY <1>1, <1>4, <2>1
  <2> QED
    BY <1>1, <2>2, <2>3
<1>7. /\ refreshes' \in [Tabs -> Refresh]
      /\ refreshes'[b].at = "claim" /\ refreshes'[b].gives = g
      /\ refreshes'[b].token = refreshes[b].token
      /\ \A c \in Tabs : c # b => refreshes'[c] = refreshes[c]
  <2>1. PICK r : r = [refreshes[b] EXCEPT !.at = "claim", !.gives = g]
    OBVIOUS
  <2>2. r \in Refresh /\ r.at = "claim" /\ r.gives = g /\ r.token = refreshes[b].token
    BY <1>1, <2>1 DEF Refresh, Stages, AnyToken
  <2>3. refreshes' = [refreshes EXCEPT ![b] = r]
    BY <1>1, <1>4, <2>1
  <2> QED
    BY <1>1, <2>2, <2>3
<1>8. TokensShape'
  <2>1. \A c \in Tabs :
          /\ refreshes'[c].at # "idle" => refreshes'[c].token \in Tokens
          /\ refreshes'[c].at \in {"claim", "drop"} => refreshes'[c].gives \in Tokens
    BY <1>1, <1>2, <1>7 DEF TokensShape
  <2> QED
    BY <1>1, <1>3, <1>6, <1>7, <2>1 DEF TokensShape
<1>9. ~Known(g)
  BY <1>1, <1>5 DEF OneLine
<1>10. ASSUME NEW t \in Tokens, Known(t)' PROVE Known(t)
  <2>1. \/ t = jar \/ t = exit.token
        \/ \E c \in Tabs : t = refreshes'[c].token
        \/ \E c \in Tabs : refreshes'[c].at = "answer" /\ t = refreshes'[c].gives
        \/ \E u \in Tokens : t = family'[u].next
    BY <1>3, <1>10 DEF Known
  <2>2. ASSUME NEW c \in Tabs, t = refreshes'[c].token PROVE Known(t)
    BY <1>7, <2>2 DEF Known
  <2>3. ASSUME NEW c \in Tabs, refreshes'[c].at = "answer", t = refreshes'[c].gives
        PROVE  Known(t)
    BY <1>7, <2>3 DEF Known
  <2>4. ASSUME NEW u \in Tokens, t = family'[u].next PROVE Known(t)
    BY <1>5, <1>6, <2>4 DEF Known
  <2> QED
    BY <2>1, <2>2, <2>3, <2>4 DEF Known
<1>11. ~Known(g)'
  BY <1>9, <1>10
<1>12. OneLine'
  <2>1. \A t \in Tokens : family'[t].state = "absent" => ~Known(t)' /\ family'[t].next = NoToken
    BY <1>1, <1>6, <1>10 DEF OneLine
  <2>2. \A t, u \in Tokens :
          (/\ Known(t)' /\ family'[t].state = "valid"
           /\ Known(u)' /\ family'[u].state = "valid") => t = u
    BY <1>1, <1>6, <1>10, <1>11 DEF OneLine
  <2>3. ASSUME NEW c \in Tabs, refreshes'[c].at = "claim"
        PROVE  /\ refreshes'[c].gives \in Tokens /\ ~Known(refreshes[c].gives)'
               /\ family'[refreshes'[c].gives].state # "absent"
               /\ \A d \in Tabs : d # c /\ refreshes'[d].at = "claim" =>
                     refreshes'[d].gives # refreshes'[c].gives
    <3>1. CASE c = b
      <4>1. ~Known(refreshes[c].gives)'
        BY <1>7, <1>11, <3>1 DEF Known
      <4>2. \A d \in Tabs : d # c /\ refreshes'[d].at = "claim" => refreshes'[d].gives # g
        BY <1>1, <1>5, <1>7, <3>1 DEF OneLine
      <4> QED
        BY <1>6, <1>7, <3>1, <4>1, <4>2
    <3>2. CASE c # b
      <4>1. PICK h : h = refreshes'[c].gives
        OBVIOUS
      <4>2. /\ h \in Tokens /\ ~Known(h) /\ family[h].state # "absent"
            /\ \A d \in Tabs : d # c /\ refreshes[d].at = "claim" => refreshes[d].gives # h
        BY <1>1, <1>7, <2>3, <3>2, <4>1 DEF OneLine
      <4>3. ~Known(h)' /\ h # g
        BY <1>5, <1>10, <4>2
      <4>4. ~Known(refreshes[c].gives)'
        BY <4>1, <4>3 DEF Known
      <4>5. \A d \in Tabs : d # c /\ refreshes'[d].at = "claim" => refreshes'[d].gives # h
        BY <1>7, <4>2, <4>3
      <4> QED
        BY <1>6, <4>1, <4>2, <4>3, <4>4, <4>5
    <3> QED
      BY <3>1, <3>2
  <2>4. ended' \/ accused' => \A t \in Tokens : Known(t)' => family'[t].state # "valid"
    BY <1>1, <1>3, <1>6, <1>10, <1>11 DEF OneLine
  <2> QED
    BY <2>1, <2>2, <2>3, <2>4 DEF OneLine
<1>13. ASSUME Undisturbed PROVE Undisturbed'
  <2>1. \A c \in Tabs : c # b => refreshes[c].at = "idle"
    BY <1>2, <1>13, Alone
  <2>2. \A c \in Tabs : c # b => refreshes'[c].at = "idle"
    BY <1>7, <2>1
  <2>3. Good(refreshes[b].token) /\ Good(jar)
    BY <1>2, <1>13, <2>1 DEF Undisturbed
  <2>4. refreshes[b].token # g /\ jar # g
    BY <1>9 DEF Known
  <2>5. Good(refreshes[b].token)' /\ Good(refreshes[b].gives)' /\ Good(jar)'
    BY <1>3, <1>6, <1>7, <2>3, <2>4 DEF Good
  <2>6. ended' => \A t \in Tokens :
          \/ family'[t].state \in {"absent", "deleted"}
          \/ \E c \in Tabs : refreshes'[c].at \in {"claim", "drop"} /\ t = refreshes'[c].gives
    BY <1>2, <1>3, <1>6, <1>7, <1>13, <2>1 DEF Undisturbed
  <2>7. \A c \in Tabs :
          /\ refreshes'[c].at \in {"check", "read", "insert", "claim"} => Good(refreshes[c].token)'
          /\ refreshes'[c].at \in {"claim", "answer"} => Good(refreshes[c].gives)'
          /\ refreshes'[c].at \in {"drop", "again", "revoke"} => ended'
    BY <1>7, <2>2, <2>5
  <2> QED
    BY <1>3, <1>13, <2>2, <2>5, <2>6, <2>7 DEF Undisturbed
<1> QED
  BY <1>1, <1>3, <1>8, <1>12, <1>13 DEF TokensInv

\* The claim that still finds the token valid: the successor takes its place.
LEMMA ClaimWon ==
    ASSUME TokensInv, NEW b \in Tabs, refreshes[b].at = "claim",
           family[refreshes[b].token].state = "valid",
           family' = [family EXCEPT ![refreshes[b].token] =
                        [state |-> "revoked", next |-> refreshes[b].gives]],
           Proceed(b, "answer"),
           UNCHANGED <<graceOver, denied, jar, webLocks, Ending, troubles>>
    PROVE  TokensInv'
<1>1. /\ TokensShape /\ OneLine /\ (webLocks /\ troubles = 0 => Undisturbed)
      /\ refreshes \in [Tabs -> Refresh] /\ family \in [Tokens -> Row]
  BY DEF TokensInv, TokensShape
<1>2. /\ UNCHANGED jar /\ UNCHANGED exit /\ UNCHANGED webLocks /\ UNCHANGED ended
      /\ UNCHANGED accused /\ UNCHANGED troubles /\ UNCHANGED graceOver /\ UNCHANGED denied
  BY DEF Ending
<1>3. PICK t \in Tokens : t = refreshes[b].token
  BY Carried
<1>4. PICK g \in Tokens : g = refreshes[b].gives
  BY <1>1 DEF OneLine
<1>5. Known(t) /\ family[t].state = "valid" /\ ~ended /\ ~accused
  <2>1. Known(t)
    BY <1>3 DEF Known
  <2> QED
    BY <1>1, <1>3, <2>1 DEF OneLine, TokensShape
<1>6. /\ ~Known(g) /\ family[g].state # "absent" /\ g # t
      /\ \A c \in Tabs : c # b /\ refreshes[c].at = "claim" => refreshes[c].gives # g
  BY <1>1, <1>4, <1>5 DEF OneLine
<1>7. /\ refreshes' \in [Tabs -> Refresh] /\ refreshes'[b].at = "answer"
      /\ refreshes'[b].token = t /\ refreshes'[b].gives = g
      /\ \A c \in Tabs : c # b => refreshes'[c] = refreshes[c]
  BY <1>1, <1>3, <1>4, Proceeds DEF Stages
<1>8. /\ family' \in [Tokens -> Row]
      /\ family'[t].state = "revoked" /\ family'[t].next = g
      /\ \A u \in Tokens : u # t => family'[u] = family[u]
  <2>1. PICK row : row = [state |-> "revoked", next |-> g]
    OBVIOUS
  <2>2. row \in Row /\ row.state = "revoked" /\ row.next = g
    BY <2>1 DEF Row, AnyToken
  <2>3. family' = [family EXCEPT ![t] = row]
    BY <1>3, <1>4, <2>1
  <2> QED
    BY <1>1, <2>2, <2>3, ZenonT(30)
<1>9. TokensShape'
  <2>1. \A c \in Tabs :
          /\ refreshes'[c].at # "idle" => refreshes'[c].token \in Tokens
          /\ refreshes'[c].at \in {"claim", "drop"} => refreshes'[c].gives \in Tokens
    BY <1>1, <1>7 DEF TokensShape
  <2> QED
    BY <1>1, <1>2, <1>7, <1>8, <2>1 DEF TokensShape
<1>10. ASSUME NEW x \in Tokens, Known(x)', x # g PROVE Known(x)
  <2>1. \/ x = jar \/ x = exit.token
        \/ \E c \in Tabs : x = refreshes'[c].token
        \/ \E c \in Tabs : refreshes'[c].at = "answer" /\ x = refreshes'[c].gives
        \/ \E u \in Tokens : x = family'[u].next
    BY <1>2, <1>10 DEF Known
  <2>2. ASSUME NEW c \in Tabs, x = refreshes'[c].token PROVE Known(x)
    BY <1>3, <1>7, <2>2 DEF Known
  <2>3. ASSUME NEW c \in Tabs, refreshes'[c].at = "answer", x = refreshes'[c].gives
        PROVE  Known(x)
    BY <1>7, <1>10, <2>3 DEF Known
  <2>4. ASSUME NEW u \in Tokens, x = family'[u].next PROVE Known(x)
    BY <1>8, <1>10, <2>4 DEF Known
  <2> QED
    BY <2>1, <2>2, <2>3, <2>4 DEF Known
<1>11. OneLine'
  <2>1. \A x \in Tokens : family'[x].state = "absent" => ~Known(x)' /\ family'[x].next = NoToken
    BY <1>1, <1>6, <1>8, <1>10 DEF OneLine
  <2>2. \A x \in Tokens : Known(x)' /\ family'[x].state = "valid" => x = g
    BY <1>1, <1>5, <1>8, <1>10 DEF OneLine
  <2>3. ASSUME NEW c \in Tabs, refreshes'[c].at = "claim"
        PROVE  /\ refreshes'[c].gives \in Tokens /\ ~Known(refreshes[c].gives)'
               /\ family'[refreshes'[c].gives].state # "absent"
               /\ \A d \in Tabs : d # c /\ refreshes'[d].at = "claim" =>
                     refreshes'[d].gives # refreshes'[c].gives
    <3>1. PICK h : h = refreshes'[c].gives
      OBVIOUS
    <3>2. c # b /\ refreshes'[c] = refreshes[c] /\ refreshes[c].at = "claim"
      BY <1>7, <2>3
    <3>3. /\ h \in Tokens /\ ~Known(h) /\ family[h].state # "absent" /\ h # g
          /\ \A d \in Tabs : d # c /\ refreshes[d].at = "claim" => refreshes[d].gives # h
      BY <1>1, <1>6, <3>1, <3>2 DEF OneLine
    <3>4. ~Known(h)' /\ family'[h].state # "absent"
      BY <1>8, <1>10, <3>3
    <3>5. ~Known(refreshes[c].gives)'
      BY <3>1, <3>4 DEF Known
    <3>6. \A d \in Tabs : d # c /\ refreshes'[d].at = "claim" => refreshes'[d].gives # h
      BY <1>7, <3>3
    <3> QED
      BY <3>1, <3>3, <3>4, <3>5, <3>6
  <2> QED
    BY <1>2, <1>5, <2>1, <2>2, <2>3 DEF OneLine
<1>12. ASSUME Undisturbed PROVE Undisturbed'
  <2>1. \A c \in Tabs : c # b => refreshes'[c].at = "idle"
    BY <1>7, <1>12, Alone
  <2>2. Good(g)
    BY <1>4, <1>12 DEF Undisturbed
  <2>3. Good(refreshes[b].gives)'
    BY <1>2, <1>6, <1>7, <1>8, <2>2 DEF Good
  <2>4. \A c \in Tabs :
          /\ refreshes'[c].at \notin {"check", "read", "insert", "claim", "drop", "again", "revoke"}
          /\ refreshes'[c].at \in {"claim", "answer"} => Good(refreshes[c].gives)'
    BY <1>7, <2>1, <2>3
  <2> QED
    BY <1>2, <1>5, <1>7, <1>12, <2>1, <2>4 DEF Undisturbed
<1> QED
  BY <1>1, <1>2, <1>9, <1>11, <1>12 DEF TokensInv

LEMMA ClaimKeeps ==
    ASSUME TokensInv, NEW b \in Tabs, ClaimToken(b) PROVE TokensInv'
<1>1. refreshes[b].at = "claim"
  BY DEF ClaimToken, Asking
<1>2. CASE family[refreshes[b].token].state = "valid"
  BY <1>1, <1>2, ClaimWon DEF ClaimToken
<1>3. CASE family[refreshes[b].token].state # "valid"
  <2>1. /\ TokensShape /\ refreshes[b].token \in Tokens /\ Known(refreshes[b].token)
        /\ refreshes[b].gives \in Tokens
    BY <1>1, Carried DEF TokensShape
  <2>2. Proceed(b, "drop") /\ UNCHANGED family
    BY <1>3 DEF ClaimToken
  <2>3. /\ UNCHANGED <<family, graceOver, denied, jar, webLocks, exit, ended, accused>>
        /\ UNCHANGED troubles
    BY <2>2 DEF ClaimToken, Ending
  <2>4. troubles' \in 0..MaxTroubles /\ troubles' >= troubles
    BY <2>1, <2>3, TroubleCounted
  <2>5. /\ refreshes' \in [Tabs -> Refresh] /\ refreshes'[b].at = "drop"
        /\ refreshes'[b].token = refreshes[b].token /\ refreshes'[b].gives = refreshes[b].gives
        /\ \A c \in Tabs : c # b => refreshes'[c] = refreshes[c]
    BY <2>1, <2>2, Proceeds DEF Stages
  <2>6. Undisturbed => ended /\ \A c \in Tabs : c # b => refreshes[c].at = "idle"
    BY <1>1, <1>3, <2>1, Alone DEF Undisturbed, Good
  <2> QED
    BY <1>1, <2>1, <2>3, <2>4, <2>5, <2>6, OneTab
<1> QED
  BY <1>2, <1>3

LEMMA DropKeeps ==
    ASSUME TokensInv, NEW b \in Tabs, DropSuccessor(b) PROVE TokensInv'
<1>1. /\ TokensShape /\ OneLine /\ (webLocks /\ troubles = 0 => Undisturbed)
      /\ refreshes \in [Tabs -> Refresh] /\ family \in [Tokens -> Row]
  BY DEF TokensInv, TokensShape
<1>2. refreshes[b].at = "drop"
  BY DEF DropSuccessor, Asking
<1>3. /\ UNCHANGED jar /\ UNCHANGED exit /\ UNCHANGED webLocks /\ UNCHANGED ended
      /\ UNCHANGED accused /\ UNCHANGED troubles /\ UNCHANGED graceOver /\ UNCHANGED denied
  BY DEF DropSuccessor, Ending
<1>4. PICK g \in Tokens : g = refreshes[b].gives
  BY <1>1, <1>2 DEF TokensShape
<1>5. /\ family' \in [Tokens -> Row]
      /\ family'[g].state = "deleted" /\ family'[g].next = family[g].next
      /\ \A u \in Tokens : u # g => family'[u] = family[u]
  <2>1. PICK row : row = [family[g] EXCEPT !.state = "deleted"]
    OBVIOUS
  <2>2. row \in Row /\ row.state = "deleted" /\ row.next = family[g].next
    BY <1>1, <2>1 DEF Row
  <2>3. family' = [family EXCEPT ![g] = row]
    BY <1>1, <1>4, <2>1 DEF DropSuccessor
  <2> QED
    BY <1>1, <2>2, <2>3
<1>6. /\ refreshes' \in [Tabs -> Refresh] /\ refreshes'[b].at = "again"
      /\ refreshes'[b].token = refreshes[b].token
      /\ \A c \in Tabs : c # b => refreshes'[c] = refreshes[c]
  BY <1>1, Proceeds DEF DropSuccessor, Stages
<1>7. TokensShape'
  <2>1. \A c \in Tabs :
          /\ refreshes'[c].at # "idle" => refreshes'[c].token \in Tokens
          /\ refreshes'[c].at \in {"claim", "drop"} => refreshes'[c].gives \in Tokens
    BY <1>1, <1>2, <1>6 DEF TokensShape
  <2> QED
    BY <1>1, <1>3, <1>5, <1>6, <2>1 DEF TokensShape
<1>8. ASSUME NEW t \in Tokens, Known(t)' PROVE Known(t)
  <2>1. \/ t = jar \/ t = exit.token
        \/ \E c \in Tabs : t = refreshes'[c].token
        \/ \E c \in Tabs : refreshes'[c].at = "answer" /\ t = refreshes'[c].gives
        \/ \E u \in Tokens : t = family'[u].next
    BY <1>3, <1>8 DEF Known
  <2>2. ASSUME NEW c \in Tabs, t = refreshes'[c].token PROVE Known(t)
    BY <1>6, <2>2 DEF Known
  <2>3. ASSUME NEW c \in Tabs, refreshes'[c].at = "answer", t = refreshes'[c].gives
        PROVE  Known(t)
    BY <1>6, <2>3 DEF Known
  <2>4. ASSUME NEW u \in Tokens, t = family'[u].next PROVE Known(t)
    BY <1>5, <2>4 DEF Known
  <2> QED
    BY <2>1, <2>2, <2>3, <2>4 DEF Known
<1>9. OneLine'
  <2>1. \A t \in Tokens : family'[t].state = "valid" => family[t].state = "valid"
    BY <1>5
  <2>2. \A t \in Tokens : family'[t].state = "absent" =>
              family[t].state = "absent" /\ family'[t].next = NoToken
    BY <1>1, <1>5 DEF OneLine
  <2>3. \A c \in Tabs : refreshes'[c].at = "claim" =>
              refreshes[c].at = "claim" /\ refreshes'[c].gives = refreshes[c].gives
    BY <1>6
  <2> QED
    BY <1>1, <1>3, <1>8, <2>1, <2>2, <2>3, LineKept
<1>10. ASSUME Undisturbed PROVE Undisturbed'
  <2>1. \A c \in Tabs : c # b => refreshes[c].at = "idle" /\ refreshes'[c].at = "idle"
    BY <1>2, <1>6, <1>10, Alone
  <2>2. ended /\ Good(jar)
    BY <1>2, <1>10, <2>1 DEF Undisturbed
  <2>3. Good(jar)'
    BY <1>3, <1>5, <2>2 DEF Good
  <2>4. \A t \in Tokens : family'[t].state \in {"absent", "deleted"}
    BY <1>4, <1>5, <1>10, <2>1, <2>2 DEF Undisturbed
  <2>5. \A c \in Tabs : refreshes'[c].at \notin {"check", "read", "insert", "claim", "answer"}
    BY <1>6, <2>1
  <2> QED
    BY <1>3, <1>10, <2>1, <2>2, <2>3, <2>4, <2>5 DEF Undisturbed
<1> QED
  BY <1>1, <1>3, <1>7, <1>9, <1>10 DEF TokensInv

LEMMA RevokeKeeps ==
    ASSUME TokensInv, NEW b \in Tabs, RevokeFamily(b) PROVE TokensInv'
<1>1. /\ TokensShape /\ OneLine /\ (webLocks /\ troubles = 0 => Undisturbed)
      /\ refreshes \in [Tabs -> Refresh] /\ family \in [Tokens -> Row]
  BY DEF TokensInv, TokensShape
<1>2. refreshes[b].at = "revoke"
  BY DEF RevokeFamily, Asking
<1>3. /\ UNCHANGED jar /\ UNCHANGED exit /\ UNCHANGED webLocks /\ UNCHANGED ended
      /\ UNCHANGED troubles /\ UNCHANGED graceOver /\ UNCHANGED denied
  BY DEF RevokeFamily
<1>4. ASSUME NEW t \in Tokens
      PROVE  /\ family'[t] \in Row /\ family'[t].state # "valid"
             /\ family'[t].state \in {"absent", "deleted"} => family'[t] = family[t]
             /\ family[t].state \in {"absent", "deleted"} => family'[t] = family[t]
             /\ family'[t].next \in {NoToken, family[t].next}
  <2>1. CASE family[t].state \in {"valid", "revoked"}
    <3>1. family'[t] = [state |-> "revoked", next |-> NoToken]
      BY <2>1 DEF RevokeFamily
    <3> QED
      BY <2>1, <3>1 DEF Row, AnyToken
  <2>2. CASE family[t].state \notin {"valid", "revoked"}
    <3>1. family'[t] = family[t]
      BY <2>2 DEF RevokeFamily
    <3> QED
      BY <1>1, <2>2, <3>1 DEF Row
  <2> QED
    BY <2>1, <2>2
<1>5. accused' = (accused \/ \E t \in Tokens : family[t].state \in {"valid", "revoked"})
  BY DEF RevokeFamily
<1>6. /\ refreshes' \in [Tabs -> Refresh] /\ refreshes'[b].at = "answer"
      /\ refreshes'[b].token = refreshes[b].token /\ refreshes'[b].gives = NoToken
      /\ \A c \in Tabs : c # b => refreshes'[c] = refreshes[c]
  BY <1>1, Gives DEF RevokeFamily, AnyToken
<1>7. NoToken \notin Tokens
  BY RefreshConstants DEF NoToken, Tokens
<1>8. TokensShape'
  <2>1. \A c \in Tabs :
          /\ refreshes'[c].at # "idle" => refreshes'[c].token \in Tokens
          /\ refreshes'[c].at \in {"claim", "drop"} => refreshes'[c].gives \in Tokens
    BY <1>1, <1>2, <1>6 DEF TokensShape
  <2>2. family' \in [Tokens -> Row]
    BY <1>4 DEF RevokeFamily
  <2>3. accused' \in BOOLEAN
    BY <1>5
  <2> QED
    BY <1>1, <1>3, <1>6, <2>1, <2>2, <2>3 DEF TokensShape
<1>9. ASSUME NEW t \in Tokens, Known(t)' PROVE Known(t)
  <2>1. \/ t = jar \/ t = exit.token
        \/ \E c \in Tabs : t = refreshes'[c].token
        \/ \E c \in Tabs : refreshes'[c].at = "answer" /\ t = refreshes'[c].gives
        \/ \E u \in Tokens : t = family'[u].next
    BY <1>3, <1>9 DEF Known
  <2>2. ASSUME NEW c \in Tabs, t = refreshes'[c].token PROVE Known(t)
    BY <1>6, <2>2 DEF Known
  <2>3. ASSUME NEW c \in Tabs, refreshes'[c].at = "answer", t = refreshes'[c].gives
        PROVE  Known(t)
    BY <1>6, <1>7, <2>3 DEF Known
  <2>4. ASSUME NEW u \in Tokens, t = family'[u].next PROVE Known(t)
    BY <1>4, <1>7, <2>4 DEF Known
  <2> QED
    BY <2>1, <2>2, <2>3, <2>4 DEF Known
<1>10. OneLine'
  <2>1. \A t \in Tokens : family'[t].state = "absent" =>
              family[t].state = "absent" /\ family'[t].next = NoToken
    BY <1>1, <1>4 DEF OneLine
  <2>2. \A c \in Tabs : refreshes'[c].at = "claim" =>
              refreshes[c].at = "claim" /\ refreshes'[c].gives = refreshes[c].gives
    BY <1>6
  <2> QED
    BY <1>1, <1>4, <1>9, <2>1, <2>2, LineKept
<1>11. ASSUME Undisturbed PROVE Undisturbed'
  <2>1. \A c \in Tabs : c # b => refreshes[c].at = "idle" /\ refreshes'[c].at = "idle"
    BY <1>2, <1>6, <1>11, Alone
  <2>2. ended /\ \A t \in Tokens : family[t].state \in {"absent", "deleted"}
    BY <1>2, <1>11, <2>1 DEF Undisturbed
  <2>3. ~accused' /\ \A t \in Tokens : family'[t] = family[t]
    BY <1>4, <1>5, <1>11, <2>2 DEF Undisturbed
  <2>4. \A c \in Tabs :
          /\ refreshes'[c].at \notin {"check", "read", "insert", "claim", "drop", "again", "revoke"}
          /\ refreshes'[c].at = "answer" => Good(refreshes[c].gives)'
    BY <1>6, <1>7, <2>1 DEF Good
  <2> QED
    BY <1>3, <1>6, <2>1, <2>2, <2>3, <2>4 DEF Undisturbed
<1> QED
  BY <1>1, <1>3, <1>8, <1>10, <1>11 DEF TokensInv

LEMMA TokensStart == TokensInit => TokensInv
<1> SUFFICES ASSUME TokensInit PROVE TokensInv
  OBVIOUS
<1>1. 1 \in Tokens /\ NoToken \notin Tokens /\ 0 \in 0..MaxTroubles
  BY RefreshConstants DEF Tokens, NoToken
<1>2. ASSUME NEW t \in Tokens
      PROVE  /\ family[t] \in Row /\ family[t].next = NoToken
             /\ family[t].state = IF t = 1 THEN "valid" ELSE "absent"
  <2>1. CASE t = 1
    <3>1. family[t] = [state |-> "valid", next |-> NoToken]
      BY <2>1 DEF TokensInit
    <3> QED
      BY <2>1, <3>1 DEF Row, AnyToken
  <2>2. CASE t # 1
    <3>1. family[t] = Absent
      BY <2>2 DEF TokensInit
    <3> QED
      BY <2>2, <3>1 DEF Row, AnyToken, Absent
  <2> QED
    BY <2>1, <2>2
<1>3. /\ Quiet \in Refresh /\ Quiet.at = "idle"
      /\ Quiet.token = NoToken /\ Quiet.gives = NoToken
      /\ Quiet \in [at : {"idle", "delete", "deny", "clear"}, token : AnyToken, gives : AnyToken]
  BY DEF Quiet, Refresh, Stages, AnyToken
<1>4. /\ jar = 1 /\ exit = Quiet /\ ended = FALSE /\ accused = FALSE
      /\ graceOver = {} /\ denied = {} /\ troubles = 0 /\ webLocks \in BOOLEAN
  BY DEF TokensInit
<1>5. refreshes \in [Tabs -> Refresh] /\ \A b \in Tabs : refreshes[b] = Quiet
  BY <1>3 DEF TokensInit
<1>6. TokensShape
  <2>1. family \in [Tokens -> Row]
    BY <1>2 DEF TokensInit
  <2> QED
    BY <1>1, <1>3, <1>4, <1>5, <2>1 DEF TokensShape, AnyToken
<1>7. \A t \in Tokens : Known(t) => t = 1
  BY <1>1, <1>2, <1>3, <1>4, <1>5 DEF Known
<1>8. OneLine
  <2>1. \A t \in Tokens : family[t].state = "absent" => ~Known(t) /\ family[t].next = NoToken
    BY <1>2, <1>7
  <2>2. \A b \in Tabs : refreshes[b].at # "claim"
    BY <1>3, <1>5
  <2> QED
    BY <1>4, <1>7, <2>1, <2>2 DEF OneLine
<1>9. Undisturbed
  <2>1. Good(jar)
    BY <1>1, <1>2, <1>4 DEF Good
  <2>2. \A b \in Tabs : refreshes[b].at = "idle"
    BY <1>3, <1>5
  <2> QED
    BY <1>4, <2>1, <2>2 DEF Undisturbed
<1> QED
  BY <1>6, <1>8, <1>9 DEF TokensInv

LEMMA TokensStep == TokensInv /\ [TokensNext]_tokenVars => TokensInv'
<1> SUFFICES ASSUME TokensInv, [TokensNext]_tokenVars PROVE TokensInv'
  OBVIOUS
<1>1. ASSUME NEW b \in Tabs, SendRefresh(b) \/ Refreshing(b) \/ RefreshFails(b)
      PROVE  TokensInv'
  BY <1>1, SendRefreshKeeps, CheckDeniedKeeps, ReadTokenKeeps, InsertKeeps, ClaimKeeps,
     DropKeeps, LookAgainKeeps, RevokeKeeps, ReceiveRefreshKeeps, RefreshFailsKeeps
     DEF Refreshing
<1>2. CASE \/ SendLogout \/ DenyToken \/ ReceiveLogout \/ LogoutFails
           \/ \E t \in Tokens : GraceEnds(t)
  BY <1>2, LogoutKeeps
<1>3. CASE DeleteFamily \/ ResetPassword
  BY <1>3, DeletionKeeps
<1>4. CASE UNCHANGED tokenVars
  <2>1. /\ UNCHANGED <<family, webLocks, refreshes, ended, accused>>
        /\ UNCHANGED graceOver /\ UNCHANGED denied /\ UNCHANGED jar
        /\ UNCHANGED exit /\ UNCHANGED troubles
    BY <1>4 DEF tokenVars
  <2>2. /\ graceOver \subseteq Tokens /\ denied \subseteq Tokens
        /\ exit \in [at : {"idle", "delete", "deny", "clear"}, token : AnyToken, gives : AnyToken]
        /\ exit.at # "idle" => exit.token \in Tokens
    BY DEF TokensInv, TokensShape
  <2> QED
    BY <2>1, <2>2, Elsewhere
<1> QED
  BY <1>1, <1>2, <1>3, <1>4 DEF TokensNext

LEMMA TokensInvariant == TokensSpec => []TokensInv
<1>1. TokensInit => TokensInv
  BY TokensStart
<1>2. TokensInv /\ [TokensNext]_tokenVars => TokensInv'
  BY TokensStep
<1> QED
  BY <1>1, <1>2, PTL DEF TokensSpec

LEMMA HandedOutIsKnown ==
    ASSUME TokensInv, NEW t \in HandedOut, Valid(t)
    PROVE  t \in Tokens /\ Known(t) /\ family[t].state = "valid"
<1>1. TokensShape
  BY DEF TokensInv
<1>2. \A b \in Tabs : refreshes[b].gives \in AnyToken
  BY <1>1 DEF TokensShape, Refresh
<1>3. \A u \in Tokens : family[u].next \in AnyToken
  BY <1>1 DEF TokensShape, Row
<1>4. t \in AnyToken
  BY <1>1, <1>2, <1>3 DEF HandedOut, TokensShape
<1>5. Known(t)
  BY DEF HandedOut, Asking, Known
<1> QED
  BY <1>4, <1>5 DEF Valid, AnyToken

\* Concurrent refreshes do not fork the family, for any number of tabs, tokens
\* and lost responses: of all tokens handed out, at most one can be rotated.
THEOREM TokensInOneLine == TokensSpec => []OneSuccessor
<1>1. TokensInv => OneSuccessor
  <2> SUFFICES ASSUME TokensInv
               PROVE  RefreshTypeOK /\ Cardinality({t \in HandedOut : Valid(t)}) <= 1
    BY DEF OneSuccessor
  <2>1. TokensShape /\ OneLine
    BY DEF TokensInv
  <2>2. RefreshTypeOK
    <3>1. family \in [Tokens -> [state : {"absent", "valid", "revoked", "deleted"},
                                 next : Tokens \cup {NoToken}]]
      BY <2>1 DEF TokensShape, Row, AnyToken
    <3>2. ASSUME NEW t \in Tokens, family[t].next # NoToken
          PROVE  family[family[t].next] # Absent
      <4>1. PICK u : u = family[t].next
        OBVIOUS
      <4>2. u \in Tokens /\ Known(u)
        BY <2>1, <3>2, <4>1 DEF TokensShape, Row, AnyToken, Known
      <4> QED
        BY <2>1, <4>1, <4>2 DEF OneLine, Absent
    <3>3. refreshes \in [Tabs ->
              [at : {"idle", "check", "read", "insert", "claim", "drop", "again",
                     "revoke", "answer", "refused"},
               token : Tokens \cup {NoToken}, gives : Tokens \cup {NoToken}]]
      BY <2>1 DEF TokensShape, Refresh, Stages, AnyToken
    <3>4. exit.at \in {"idle", "delete", "deny", "clear"}
      BY <2>1 DEF TokensShape
    <3>5. {webLocks, ended, accused} \subseteq BOOLEAN
      BY <2>1 DEF TokensShape
    <3> QED
      BY <2>1, <3>1, <3>2, <3>3, <3>4, <3>5 DEF RefreshTypeOK, TokensShape, AnyToken
  <2>3. PICK live : live = {t \in HandedOut : Valid(t)}
    OBVIOUS
  <2>4. ASSUME NEW t \in live, NEW u \in live PROVE t = u
    <3>1. t \in HandedOut /\ Valid(t) /\ u \in HandedOut /\ Valid(u)
      BY <2>3
    <3>2. /\ t \in Tokens /\ Known(t) /\ family[t].state = "valid"
          /\ u \in Tokens /\ Known(u) /\ family[u].state = "valid"
      BY <3>1, HandedOutIsKnown
    <3> QED
      BY <2>1, <3>2 DEF OneLine
  <2>5. CASE live = {}
    BY <2>2, <2>3, <2>5, FS_EmptySet
  <2>6. ASSUME NEW x \in live PROVE Cardinality(live) = 1
    <3>1. live = {x}
      BY <2>4
    <3>2. Cardinality({x}) = 1
      BY FS_Singleton, Zenon
    <3> QED
      BY <3>1, <3>2
  <2> QED
    BY <2>2, <2>3, <2>5, <2>6
<1> QED
  BY <1>1, TokensInvariant, PTL

\* A family that a logout, a reset or an accusation ended stays ended, whatever
\* refreshes were in flight; and tabs that take turns are not accused of reuse
\* unless a response was lost.
THEOREM FamiliesEndRightly == TokensSpec => []EndsRightly
<1>1. TokensInv => EndsRightly
  <2> SUFFICES ASSUME TokensInv PROVE EndedForGood /\ NoFalseAccusation
    BY DEF EndsRightly
  <2>1. EndedForGood
    BY HandedOutIsKnown DEF EndedForGood, TokensInv, OneLine
  <2>2. NoFalseAccusation
    BY DEF NoFalseAccusation, TokensInv, Undisturbed
  <2> QED
    BY <2>1, <2>2
<1> QED
  BY <1>1, TokensInvariant, PTL

-----------------------------------------------------------------------------
(* Requests and their keys.                                                *)

Wheres == {"unsent", "marker", "redis", "row", "mark", "handler", "paying", "clear",
           "store", "record", "answer", "over"}
RequestRecord == [where : Wheres, key : Keys, body : Bodies, token : BOOLEAN,
                  status : {"none", "ok", "refused", "error", "busy", "reused"},
                  replayed : BOOLEAN, spent : BOOLEAN]
Kept == [body : {0, 1, 2}, status : {"none", "ok", "refused"}]

RequestsShape ==
    /\ form \in [key : Keys, awaits : 0..MaxRequests]
    /\ queued \in BOOLEAN
    /\ requests \in [Requests -> RequestRecord]
    /\ inflight \subseteq Keys
    /\ answers \in [Keys -> Kept] /\ rows \in [Keys -> Kept]
    /\ paidBy \subseteq Requests
    /\ slipped \in 0..MaxSlips

\* An answer of the handler that was to be kept.
SpentBy(q) == ~q.replayed /\ q.where \in {"answer", "over"} /\ q.status \in {"ok", "refused"}

PaidFor(k, b) == \E p \in paidBy : requests[p].key = k /\ requests[p].body = b

\* What a request has been told, by where it is.
Told(q) ==
    /\ q.where \in {"unsent", "marker", "redis", "row", "mark", "handler", "paying"} =>
          q.status = "none"
    /\ q.where = "clear" => q.status \in {"ok", "refused", "error"}
    /\ q.where \in {"store", "record"} => q.status \in {"ok", "refused"}

\* Nobody is told of a success that was not a payment of this key and body.
SuccessBacked ==
    /\ \A r \in Requests :
          /\ Told(requests[r])
          /\ requests[r].where = "unsent" => ~requests[r].spent /\ r \notin paidBy
          /\ requests[r].status = "ok" => PaidFor(requests[r].key, requests[r].body)
    /\ \A k \in Keys :
          /\ answers[k].status = "ok" => PaidFor(k, answers[k].body)
          /\ rows[k].status = "ok" => PaidFor(k, rows[k].body)

\* Until a store fails both hold every answer, and one failure leaves one; a
\* request whose key was answered is past Redis only after that failure, and
\* then the row is there.
AnswersHeld ==
    /\ \A k \in Keys : Spent(k) =>
          /\ answers[k] # NothingKept \/ rows[k] # NothingKept
          /\ slipped = 0 => answers[k] # NothingKept /\ rows[k] # NothingKept
    /\ \A r \in Requests :
          /\ requests[r].where = "record" /\ slipped = 0 =>
                answers[requests[r].key] # NothingKept
          /\ requests[r].spent =>
                /\ Spent(requests[r].key) /\ r \notin paidBy
                /\ requests[r].where \in {"marker", "redis", "row", "answer", "over"}
                /\ requests[r].where = "row" =>
                      slipped # 0 /\ rows[requests[r].key] # NothingKept

RequestsInv ==
    /\ RequestsShape
    /\ SuccessBacked
    /\ MaxSlips <= 1 => AnswersHeld

\* A step of one request.  rec is its record after the step, and what is asked
\* of it is what the step may change of the claims above.
LEMMA OneRequest ==
    ASSUME RequestsInv, NEW r \in Requests, NEW rec \in RequestRecord,
           requests' = [requests EXCEPT ![r] = rec],
           form' \in [key : Keys, awaits : 0..MaxRequests],
           queued' \in BOOLEAN,
           inflight' \subseteq Keys,
           answers' \in [Keys -> Kept], rows' \in [Keys -> Kept],
           \A k \in Keys :
              /\ answers[k] # NothingKept => answers'[k] # NothingKept
              /\ rows[k] # NothingKept => rows'[k] # NothingKept
              /\ \/ answers'[k] = answers[k]
                 \/ /\ k = requests[r].key /\ answers'[k].body = requests[r].body
                    /\ answers'[k].status = requests[r].status
              /\ \/ rows'[k] = rows[k]
                 \/ /\ k = requests[r].key /\ rows'[k].body = requests[r].body
                    /\ rows'[k].status = requests[r].status,
           paidBy \subseteq paidBy', paidBy' \subseteq paidBy \cup {r},
           UNCHANGED slipped \/ Slips,
           rec.where # "unsent",
           requests[r].where # "unsent" =>
              /\ rec.key = requests[r].key /\ rec.body = requests[r].body
              /\ rec.spent = requests[r].spent,
           requests[r].where = "unsent" =>
              paidBy' = paidBy /\ rec.where = "marker" /\ (rec.spent => Spent(rec.key)),
           SpentBy(requests[r]) => SpentBy(rec),
           Told(rec),
           rec.status = "ok" =>
              requests[r].status = "ok" \/ r \in paidBy' \/ PaidFor(rec.key, rec.body),
           MaxSlips <= 1 /\ AnswersHeld =>
              /\ SpentBy(rec) =>
                    \/ SpentBy(requests[r])
                    \/ /\ answers'[rec.key] # NothingKept \/ rows'[rec.key] # NothingKept
                       /\ slipped' = 0 =>
                             answers'[rec.key] # NothingKept /\ rows'[rec.key] # NothingKept
              /\ rec.where = "record" /\ slipped' = 0 => answers'[rec.key] # NothingKept
              /\ rec.spent =>
                    /\ rec.where \in {"marker", "redis", "row", "answer", "over"}
                    /\ paidBy' = paidBy
                    /\ rec.where = "row" =>
                          slipped' # 0 /\ rows'[rec.key] # NothingKept
    PROVE  RequestsInv'
<1>1. /\ RequestsShape /\ SuccessBacked /\ (MaxSlips <= 1 => AnswersHeld)
      /\ requests \in [Requests -> RequestRecord]
  BY DEF RequestsInv, RequestsShape
<1>2. /\ requests' \in [Requests -> RequestRecord] /\ requests'[r] = rec
      /\ \A q \in Requests : q # r => requests'[q] = requests[q]
  BY <1>1
<1>3. slipped' \in 0..MaxSlips /\ (slipped' = 0 => slipped = 0)
  <2>1. slipped \in Nat /\ slipped <= MaxSlips /\ MaxSlips \in Nat
    BY <1>1, RequestConstants DEF RequestsShape
  <2> QED
    BY <2>1 DEF Slips
<1>4. RequestsShape'
  BY <1>1, <1>2, <1>3 DEF RequestsShape
<1>5. ASSUME NEW k, NEW b, PaidFor(k, b) PROVE \E p \in paidBy' : requests'[p].key = k /\ requests'[p].body = b
  <2>1. PICK p \in paidBy : requests[p].key = k /\ requests[p].body = b
    BY <1>5 DEF PaidFor
  <2>2. p \in Requests /\ requests[p].where # "unsent"
    BY <1>1, <2>1 DEF RequestsShape, SuccessBacked
  <2>3. requests'[p].key = k /\ requests'[p].body = b
    BY <1>2, <2>1, <2>2
  <2> QED
    BY <2>1, <2>3
<1>6. requests[r].status = "ok" => requests[r].where # "unsent" /\ PaidFor(requests[r].key, requests[r].body)
  BY <1>1 DEF SuccessBacked, Told
<1>7. SuccessBacked'
  <2>1. ASSUME NEW q \in Requests
        PROVE  /\ Told(requests[q])'
               /\ requests'[q].where = "unsent" => ~requests'[q].spent /\ q \notin paidBy'
               /\ requests'[q].status = "ok" => PaidFor(requests[q].key, requests[q].body)'
    <3>1. CASE q # r
      <4>1. Told(requests[q]) /\ requests'[q] = requests[q]
        BY <1>1, <1>2, <3>1 DEF SuccessBacked
      <4>2. Told(requests[q])'
        BY <4>1 DEF Told
      <4>3. requests[q].status = "ok" => PaidFor(requests[q].key, requests[q].body)'
        BY <1>1, <1>5, <4>1 DEF SuccessBacked, PaidFor
      <4> QED
        BY <1>1, <3>1, <4>1, <4>2, <4>3 DEF SuccessBacked
    <3>2. CASE q = r
      <4>1. Told(requests[q])'
        BY <1>2, <3>2 DEF Told
      <4>2. ASSUME rec.status = "ok" PROVE PaidFor(requests[q].key, requests[q].body)'
        <5>1. CASE requests[r].status = "ok"
          BY <1>2, <1>5, <1>6, <3>2, <5>1 DEF PaidFor
        <5>2. CASE r \in paidBy'
          BY <1>2, <3>2, <5>2 DEF PaidFor
        <5>3. CASE PaidFor(rec.key, rec.body)
          BY <1>2, <1>5, <3>2, <5>3 DEF PaidFor
        <5> QED
          BY <4>2, <5>1, <5>2, <5>3
      <4> QED
        BY <1>2, <3>2, <4>1, <4>2
    <3> QED
      BY <3>1, <3>2
  <2>2. ASSUME NEW k \in Keys
        PROVE  /\ answers'[k].status = "ok" => PaidFor(k, answers[k].body)'
               /\ rows'[k].status = "ok" => PaidFor(k, rows[k].body)'
    <3>1. answers'[k].status = "ok" => PaidFor(k, answers'[k].body)
      BY <1>1, <1>6 DEF SuccessBacked
    <3>2. rows'[k].status = "ok" => PaidFor(k, rows'[k].body)
      BY <1>1, <1>6 DEF SuccessBacked
    <3>3. PICK b, c : b = answers'[k].body /\ c = rows'[k].body
      OBVIOUS
    <3>4. ASSUME answers'[k].status = "ok" PROVE PaidFor(k, answers[k].body)'
      <4>1. \E p \in paidBy' : requests'[p].key = k /\ requests'[p].body = b
        BY <1>5, <3>1, <3>3, <3>4
      <4> QED
        BY <3>3, <4>1 DEF PaidFor
    <3>5. ASSUME rows'[k].status = "ok" PROVE PaidFor(k, rows[k].body)'
      <4>1. \E p \in paidBy' : requests'[p].key = k /\ requests'[p].body = c
        BY <1>5, <3>2, <3>3, <3>5
      <4> QED
        BY <3>3, <4>1 DEF PaidFor
    <3> QED
      BY <3>4, <3>5
  <2> QED
    BY <2>1, <2>2 DEF SuccessBacked
<1>8. ASSUME MaxSlips <= 1 PROVE AnswersHeld'
  <2>1. /\ AnswersHeld
        /\ SpentBy(rec) =>
              \/ SpentBy(requests[r])
              \/ /\ answers'[rec.key] # NothingKept \/ rows'[rec.key] # NothingKept
                 /\ slipped' = 0 =>
                       answers'[rec.key] # NothingKept /\ rows'[rec.key] # NothingKept
        /\ rec.where = "record" /\ slipped' = 0 => answers'[rec.key] # NothingKept
        /\ rec.spent =>
              /\ rec.where \in {"marker", "redis", "row", "answer", "over"}
              /\ paidBy' = paidBy
              /\ rec.where = "row" => slipped' # 0 /\ rows'[rec.key] # NothingKept
    BY <1>1, <1>8
  <2>2. ASSUME NEW k \in Keys, Spent(k) PROVE Spent(k)'
    <3>1. PICK q \in Requests : requests[q].key = k /\ SpentBy(requests[q])
      BY <2>2 DEF Spent, SpentBy
    <3>2. requests[q].where # "unsent"
      BY <3>1 DEF SpentBy
    <3>3. requests'[q].key = k /\ SpentBy(requests'[q])
      BY <1>2, <3>1, <3>2
    <3> QED
      BY <3>3 DEF Spent, SpentBy
  <2>3. ASSUME NEW k \in Keys, Spent(k)'
        PROVE  /\ answers'[k] # NothingKept \/ rows'[k] # NothingKept
               /\ slipped' = 0 => answers'[k] # NothingKept /\ rows'[k] # NothingKept
    <3>1. PICK q \in Requests : requests'[q].key = k /\ SpentBy(requests'[q])
      BY <2>3 DEF Spent, SpentBy
    <3>2. CASE Spent(k)
      BY <1>3, <2>1, <3>2 DEF AnswersHeld
    <3>3. CASE ~Spent(k)
      <4>1. q = r
        BY <1>2, <3>1, <3>3 DEF Spent, SpentBy
      <4>2. rec.key = k /\ SpentBy(rec)
        BY <1>2, <3>1, <4>1
      <4>3. ~SpentBy(requests[r])
        BY <3>3, <4>2 DEF Spent, SpentBy
      <4> QED
        BY <2>1, <4>2, <4>3
    <3> QED
      BY <3>2, <3>3
  <2>4. ASSUME NEW q \in Requests
        PROVE  /\ requests'[q].where = "record" /\ slipped' = 0 =>
                     answers'[requests'[q].key] # NothingKept
               /\ requests'[q].spent =>
                     /\ Spent(requests[q].key)' /\ q \notin paidBy'
                     /\ requests'[q].where \in {"marker", "redis", "row", "answer", "over"}
                     /\ requests'[q].where = "row" =>
                           slipped' # 0 /\ rows'[requests'[q].key] # NothingKept
    <3>1. requests[q].key \in Keys /\ rec.key \in Keys
      BY <1>1 DEF RequestRecord
    <3>2. CASE q # r
      <4>1. requests'[q] = requests[q]
        BY <1>2, <3>2
      <4>2. Spent(requests[q].key) => Spent(requests[q].key)'
        BY <2>2, <3>1, <4>1 DEF Spent
      <4> QED
        BY <1>3, <2>1, <3>1, <3>2, <4>1, <4>2 DEF AnswersHeld
    <3>3. CASE q = r
      <4>1. requests'[q] = rec
        BY <1>2, <3>3
      <4>2. rec.spent => Spent(rec.key) /\ r \notin paidBy
        BY <1>1, <2>1 DEF AnswersHeld, SuccessBacked
      <4>3. Spent(rec.key) => Spent(requests[q].key)'
        BY <2>2, <3>1, <4>1 DEF Spent
      <4> QED
        BY <2>1, <3>3, <4>1, <4>2, <4>3
    <3> QED
      BY <3>2, <3>3
  <2> QED
    BY <2>3, <2>4 DEF AnswersHeld
<1> QED
  BY <1>4, <1>7, <1>8 DEF RequestsInv

\* The same, where no store and no payment changes.
LEMMA QuietRequest ==
    ASSUME RequestsInv, NEW r \in Requests, NEW rec \in RequestRecord,
           requests' = [requests EXCEPT ![r] = rec],
           form' \in [key : Keys, awaits : 0..MaxRequests],
           queued' \in BOOLEAN,
           inflight' \subseteq Keys,
           UNCHANGED <<answers, rows, paidBy>>, UNCHANGED slipped \/ Slips,
           rec.where # "unsent",
           requests[r].where # "unsent" =>
              /\ rec.key = requests[r].key /\ rec.body = requests[r].body
              /\ rec.spent = requests[r].spent,
           requests[r].where = "unsent" =>
              rec.where = "marker" /\ (rec.spent => Spent(rec.key)),
           SpentBy(requests[r]) <=> SpentBy(rec),
           Told(rec),
           rec.status = "ok" => requests[r].status = "ok" \/ PaidFor(rec.key, rec.body),
           MaxSlips <= 1 /\ AnswersHeld =>
              /\ rec.where # "record"
              /\ rec.spent =>
                    /\ rec.where \in {"marker", "redis", "row", "answer", "over"}
                    /\ rec.where = "row" => slipped' # 0 /\ rows[rec.key] # NothingKept
    PROVE  RequestsInv'
<1>1. /\ UNCHANGED answers /\ UNCHANGED rows /\ UNCHANGED paidBy
      /\ answers \in [Keys -> Kept] /\ rows \in [Keys -> Kept]
  BY DEF RequestsInv, RequestsShape
<1> QED
  BY <1>1, OneRequest

\* A step that is no request's.
LEMMA NoRequest ==
    ASSUME RequestsInv,
           form' \in [key : Keys, awaits : 0..MaxRequests],
           queued' \in BOOLEAN,
           inflight' \subseteq Keys,
           UNCHANGED <<requests, answers, rows, paidBy, slipped>>
    PROVE  RequestsInv'
<1>1. /\ UNCHANGED answers /\ UNCHANGED rows /\ UNCHANGED paidBy
      /\ UNCHANGED requests /\ UNCHANGED slipped
  OBVIOUS
<1>2. RequestsShape'
  BY <1>1 DEF RequestsInv, RequestsShape
<1>3. SuccessBacked'
  BY <1>1 DEF RequestsInv, SuccessBacked, PaidFor, Told
<1>4. AnswersHeld => AnswersHeld'
  BY <1>1 DEF AnswersHeld, Spent
<1> QED
  BY <1>2, <1>3, <1>4 DEF RequestsInv

LEMMA Moved ==
    ASSUME RequestsShape, NEW r \in Requests, NEW where \in Wheres, Moves(r, where)
    PROVE  \E rec \in RequestRecord :
              /\ requests' = [requests EXCEPT ![r] = rec]
              /\ rec.where = where /\ rec.status = requests[r].status
              /\ rec.key = requests[r].key /\ rec.body = requests[r].body
              /\ rec.replayed = requests[r].replayed /\ rec.spent = requests[r].spent
<1>1. requests \in [Requests -> RequestRecord] /\ requests[r] \in RequestRecord
  BY DEF RequestsShape
<1>2. PICK rec : rec = [requests[r] EXCEPT !.where = where]
  OBVIOUS
<1>3. /\ rec \in RequestRecord
      /\ rec.where = where /\ rec.status = requests[r].status
      /\ rec.key = requests[r].key /\ rec.body = requests[r].body
      /\ rec.replayed = requests[r].replayed /\ rec.spent = requests[r].spent
  BY <1>1, <1>2 DEF RequestRecord
<1>4. requests' = [requests EXCEPT ![r] = rec]
  BY <1>1, <1>2 DEF Moves
<1> QED
  BY <1>3, <1>4

LEMMA Answered ==
    ASSUME RequestsShape, NEW r \in Requests, NEW where \in Wheres,
           NEW status \in {"ok", "refused", "error"}, Answers(r, where, status)
    PROVE  \E rec \in RequestRecord :
              /\ requests' = [requests EXCEPT ![r] = rec]
              /\ rec.where = where /\ rec.status = status
              /\ rec.key = requests[r].key /\ rec.body = requests[r].body
              /\ rec.replayed = requests[r].replayed /\ rec.spent = requests[r].spent
<1>1. requests \in [Requests -> RequestRecord] /\ requests[r] \in RequestRecord
  BY DEF RequestsShape
<1>2. PICK rec : rec = [requests[r] EXCEPT !.where = where, !.status = status]
  OBVIOUS
<1>3. /\ rec \in RequestRecord
      /\ rec.where = where /\ rec.status = status
      /\ rec.key = requests[r].key /\ rec.body = requests[r].body
      /\ rec.replayed = requests[r].replayed /\ rec.spent = requests[r].spent
  BY <1>1, <1>2 DEF RequestRecord
<1>4. requests' = [requests EXCEPT ![r] = rec]
  BY <1>1, <1>2 DEF Answers
<1> QED
  BY <1>3, <1>4

\* An answer that was not made for this request.
Replays(r, status) ==
    requests' = [requests EXCEPT ![r].where = "answer", ![r].status = status,
                                 ![r].replayed = TRUE]

LEMMA Replayed ==
    ASSUME RequestsShape, NEW r \in Requests,
           NEW status \in {"none", "ok", "refused", "busy", "reused"},
           Replays(r, status)
    PROVE  \E rec \in RequestRecord :
              /\ requests' = [requests EXCEPT ![r] = rec]
              /\ rec.where = "answer" /\ rec.status = status /\ rec.replayed
              /\ rec.key = requests[r].key /\ rec.body = requests[r].body
              /\ rec.spent = requests[r].spent
<1>1. requests \in [Requests -> RequestRecord] /\ requests[r] \in RequestRecord
  BY DEF RequestsShape
<1>2. PICK yes \in BOOLEAN : yes
  OBVIOUS
<1>3. PICK rec : rec = [requests[r] EXCEPT !.where = "answer", !.status = status,
                                           !.replayed = yes]
  OBVIOUS
<1>4. /\ rec \in RequestRecord
      /\ rec.where = "answer" /\ rec.status = status /\ rec.replayed = yes
      /\ rec.key = requests[r].key /\ rec.body = requests[r].body
      /\ rec.spent = requests[r].spent
  BY <1>1, <1>3 DEF RequestRecord, Wheres
<1>5. yes = TRUE
  BY <1>2
<1>6. rec = [requests[r] EXCEPT !.where = "answer", !.status = status, !.replayed = TRUE]
  BY <1>3, <1>5, Zenon
<1>7. requests' = [requests EXCEPT ![r] = rec]
  BY <1>1, <1>6 DEF Replays
<1> QED
  BY <1>2, <1>4, <1>7

LEMMA RequestTypes ==
    ASSUME RequestsInv
    PROVE  /\ RequestsShape
           /\ form \in [key : Keys, awaits : 0..MaxRequests]
           /\ queued \in BOOLEAN
           /\ inflight \subseteq Keys
           /\ \A r \in Requests : /\ requests[r] \in RequestRecord
                                 /\ requests[r].key \in Keys /\ Told(requests[r])
           /\ Requests \subseteq Keys /\ Requests \subseteq 0..MaxRequests /\ 0 \in Keys
BY RequestConstants DEF RequestsInv, RequestsShape, SuccessBacked, RequestRecord, Keys, Requests

LEMMA SendKeeps ==
    ASSUME RequestsInv, NEW r \in Requests, NEW k \in Keys, NEW b \in Bodies,
           NEW token \in BOOLEAN, Send(r, k, b, token),
           form' \in [key : Keys, awaits : 0..MaxRequests],
           queued' \in BOOLEAN,
           UNCHANGED <<inflight, answers, rows, paidBy, slipped>>
    PROVE  RequestsInv'
<1>1. requests \in [Requests -> RequestRecord] /\ requests[r].where = "unsent" /\ Told(requests[r])
  BY DEF RequestsInv, RequestsShape, SuccessBacked, Send, Is
<1>2. PICK no, spent \in BOOLEAN : ~no /\ (spent <=> Spent(k))
  OBVIOUS
<1>3. PICK u : u = [where |-> "unsent", key |-> 0, body |-> 1, token |-> no,
                    status |-> "none", replayed |-> no, spent |-> no]
  OBVIOUS
<1>4. PICK rec : rec = [u EXCEPT !.where = "marker", !.key = k, !.body = b,
                                 !.token = token, !.spent = spent]
  OBVIOUS
<1>5. /\ rec \in RequestRecord /\ rec.where = "marker" /\ rec.key = k
      /\ rec.status = "none" /\ rec.spent = spent
  <2>1. u \in RequestRecord /\ u.status = "none"
    BY <1>3, RequestTypes DEF RequestRecord, Wheres, Bodies
  <2> QED
    BY <1>4, <2>1 DEF RequestRecord, Wheres
<1>6. rec = [Unsent EXCEPT !.where = "marker", !.key = k, !.body = b,
                           !.token = token, !.spent = Spent(k)]
  <2>1. no = FALSE /\ spent = Spent(k)
    BY <1>2 DEF Spent
  <2>2. u = Unsent
    BY <1>3, <2>1, Zenon DEF Unsent
  <2> QED
    BY <1>4, <2>1, <2>2, Zenon
<1>7. requests' = [requests EXCEPT ![r] = rec]
  BY <1>6, Zenon DEF Send
<1>8. inflight' \subseteq Keys /\ UNCHANGED <<answers, rows, paidBy>> /\ UNCHANGED slipped
  BY DEF RequestsInv, RequestsShape
<1>9. ~SpentBy(requests[r]) /\ ~SpentBy(rec) /\ Told(rec) /\ (rec.spent => Spent(rec.key))
  BY <1>1, <1>2, <1>5 DEF SpentBy, Told
<1> QED
  BY <1>1, <1>5, <1>7, <1>8, <1>9, QuietRequest

LEMMA SubmitFormKeeps ==
    ASSUME RequestsInv, NEW r \in Requests, NEW b \in Bodies, SubmitForm(r, b)
    PROVE  RequestsInv'
<1>1. PICK k \in Keys : /\ Send(r, k, b, TRUE) /\ form' = [key |-> k, awaits |-> r]
                        /\ UNCHANGED <<queued, inflight, answers, rows, paidBy, slipped>>
  BY RequestTypes DEF SubmitForm
<1>2. PICK yes \in BOOLEAN : yes
  OBVIOUS
<1>3. yes = TRUE
  BY <1>2
<1>4. Send(r, k, b, yes)
  BY <1>1, <1>3, Zenon
<1>5. /\ form' \in [key : Keys, awaits : 0..MaxRequests]
      /\ queued' \in BOOLEAN
  BY <1>1, RequestTypes
<1> QED
  BY <1>1, <1>4, <1>5, SendKeeps

LEMMA SendQueuedKeeps ==
    ASSUME RequestsInv, NEW r \in Requests, SendQueued(r)
    PROVE  RequestsInv'
<1>1. PICK no \in BOOLEAN : ~no
  OBVIOUS
<1>2. no = FALSE
  BY <1>1
<1>3. Send(r, 0, 1, no)
  BY <1>2, Zenon DEF SendQueued
<1>4. /\ form' \in [key : Keys, awaits : 0..MaxRequests]
      /\ queued' \in BOOLEAN
      /\ 0 \in Keys /\ 1 \in Bodies
  BY RequestTypes DEF SendQueued, Bodies
<1> QED
  BY <1>3, <1>4, SendKeeps DEF SendQueued

\* The response reaches the client.
LEMMA Received ==
    ASSUME RequestsInv, NEW r \in Requests, Is(r, "answer"), Moves(r, "over"),
           form' \in [key : Keys, awaits : 0..MaxRequests],
           queued' \in BOOLEAN,
           UNCHANGED <<inflight, answers, rows, paidBy, slipped>>
    PROVE  RequestsInv'
<1>1. PICK rec \in RequestRecord :
              /\ requests' = [requests EXCEPT ![r] = rec]
              /\ rec.where = "over" /\ rec.status = requests[r].status
              /\ rec.key = requests[r].key /\ rec.body = requests[r].body
              /\ rec.replayed = requests[r].replayed /\ rec.spent = requests[r].spent
  BY Moved, RequestTypes DEF Wheres
<1>2. requests[r].where = "answer"
  BY DEF Is
<1>3. (SpentBy(requests[r]) <=> SpentBy(rec)) /\ Told(rec)
  BY <1>1, <1>2 DEF SpentBy, Told
<1>4. inflight' \subseteq Keys /\ UNCHANGED <<answers, rows, paidBy>> /\ UNCHANGED slipped
  BY RequestTypes
<1> QED
  BY <1>1, <1>2, <1>3, <1>4, QuietRequest

LEMMA ReceiveFormKeeps ==
    ASSUME RequestsInv, NEW r \in Requests, ReceiveForm(r)
    PROVE  RequestsInv'
<1>1. /\ form' \in [key : Keys, awaits : 0..MaxRequests]
      /\ queued' \in BOOLEAN
  BY RequestTypes, RequestConstants DEF ReceiveForm
<1> QED
  BY <1>1, Received DEF ReceiveForm

LEMMA ReceiveQueuedKeeps ==
    ASSUME RequestsInv, NEW r \in Requests, ReceiveQueued(r)
    PROVE  RequestsInv'
<1>1. Is(r, "answer") /\ Moves(r, "over")
  BY DEF ReceiveQueued
<1>2. queued' \in BOOLEAN
  BY Zenon DEF ReceiveQueued
<1>3. /\ form' \in [key : Keys, awaits : 0..MaxRequests]
      /\ UNCHANGED <<inflight, answers, rows, paidBy, slipped>>
  BY RequestTypes DEF ReceiveQueued
<1> QED
  BY <1>1, <1>2, <1>3, Received

\* The steps that move no request.
LEMMA ElsewhereKeeps ==
    ASSUME RequestsInv,
           \/ DiscardQueued
           \/ \E r \in Requests : LoseResponse(r)
           \/ \E k \in Keys : ExpireMarker(k)
    PROVE  RequestsInv'
<1>1. /\ form' \in [key : Keys, awaits : 0..MaxRequests]
      /\ inflight' \subseteq Keys
  BY RequestTypes, RequestConstants DEF DiscardQueued, LoseResponse, ExpireMarker
<1>2. queued \in BOOLEAN /\ (queued' = FALSE \/ queued' = queued)
  BY RequestTypes, Zenon DEF DiscardQueued, LoseResponse, ExpireMarker
<1>3. queued' \in BOOLEAN
  BY <1>2, Zenon
<1>4. UNCHANGED <<requests, answers, rows, paidBy, slipped>>
  BY DEF DiscardQueued, LoseResponse, ExpireMarker
<1> QED
  BY <1>1, <1>3, <1>4, NoRequest

LEMMA OtherStages ==
    ASSUME NEW q, Told(q), q.where \in {"marker", "redis", "row", "mark", "handler", "paying"}
    PROVE  /\ q.status = "none" /\ q.where # "unsent" /\ ~SpentBy(q)
           /\ q.where # "record"
BY DEF Told, SpentBy

\* A request answered with what was kept, or with a refusal to serve it.
LEMMA ReplayedKeeps ==
    ASSUME RequestsInv, NEW r \in Requests,
           requests[r].where \in {"marker", "redis", "row"},
           NEW status \in {"none", "ok", "refused", "busy", "reused"},
           status = "ok" => PaidFor(requests[r].key, requests[r].body),
           Replays(r, status),
           UNCHANGED <<form, queued, inflight, answers, rows, paidBy>>,
           UNCHANGED slipped \/ Slips
    PROVE  RequestsInv'
<1>1. PICK rec \in RequestRecord :
              /\ requests' = [requests EXCEPT ![r] = rec]
              /\ rec.where = "answer" /\ rec.status = status /\ rec.replayed
              /\ rec.key = requests[r].key /\ rec.body = requests[r].body
              /\ rec.spent = requests[r].spent
  BY Replayed, RequestTypes
<1>2. Told(requests[r]) /\ ~SpentBy(requests[r]) /\ requests[r].where # "unsent"
  BY OtherStages, RequestTypes
<1>3. ~SpentBy(rec) /\ Told(rec)
  BY <1>1 DEF SpentBy, Told
<1>4. /\ form' \in [key : Keys, awaits : 0..MaxRequests]
      /\ queued' \in BOOLEAN
      /\ inflight' \subseteq Keys /\ UNCHANGED <<answers, rows, paidBy>>
  BY RequestTypes
<1> QED
  BY <1>1, <1>2, <1>3, <1>4, QuietRequest

\* A request that goes on to its next stage without an answer.
LEMMA NextStage ==
    ASSUME RequestsInv, NEW r \in Requests,
           requests[r].where \in {"marker", "redis", "row", "mark", "handler"},
           NEW where \in {"redis", "row", "mark", "handler", "paying"}, Moves(r, where),
           inflight' \subseteq Keys,
           UNCHANGED <<form, queued, answers, rows, paidBy>>,
           UNCHANGED slipped \/ Slips,
           MaxSlips <= 1 /\ AnswersHeld /\ requests[r].spent =>
              /\ where \in {"redis", "row"}
              /\ where = "row" => slipped' # 0 /\ rows[requests[r].key] # NothingKept
    PROVE  RequestsInv'
<1>1. PICK rec \in RequestRecord :
              /\ requests' = [requests EXCEPT ![r] = rec]
              /\ rec.where = where /\ rec.status = requests[r].status
              /\ rec.key = requests[r].key /\ rec.body = requests[r].body
              /\ rec.replayed = requests[r].replayed /\ rec.spent = requests[r].spent
  BY Moved, RequestTypes DEF Wheres
<1>2. /\ ~SpentBy(requests[r]) /\ requests[r].where # "unsent"
      /\ requests[r].status = "none"
  BY OtherStages, RequestTypes
<1>3. ~SpentBy(rec) /\ Told(rec) /\ rec.where # "record" /\ rec.where # "unsent"
  BY <1>1, <1>2 DEF SpentBy, Told
<1>4. /\ form' \in [key : Keys, awaits : 0..MaxRequests]
      /\ queued' \in BOOLEAN
      /\ UNCHANGED <<answers, rows, paidBy>>
  BY RequestTypes
<1>5. ASSUME MaxSlips <= 1, AnswersHeld, rec.spent
      PROVE  /\ rec.where \in {"marker", "redis", "row", "answer", "over"}
             /\ rec.where = "row" => slipped' # 0 /\ rows[rec.key] # NothingKept
  BY <1>1, <1>5
<1> QED
  BY <1>1, <1>2, <1>3, <1>4, <1>5, QuietRequest

\* With one failure at most, what a request of an answered key finds.
LEMMA SpentFinds ==
    ASSUME RequestsInv, MaxSlips <= 1, AnswersHeld, NEW r \in Requests, requests[r].spent
    PROVE  /\ slipped \in {0, 1} /\ (Slips => slipped = 0 /\ slipped' = 1)
           /\ answers[requests[r].key] # NothingKept \/ rows[requests[r].key] # NothingKept
           /\ slipped = 0 => /\ answers[requests[r].key] # NothingKept
                             /\ rows[requests[r].key] # NothingKept
           /\ requests[r].where \in {"marker", "redis", "row", "answer", "over"}
           /\ requests[r].where = "row" =>
                 slipped # 0 /\ rows[requests[r].key] # NothingKept
<1>1. slipped \in Nat /\ slipped <= MaxSlips /\ MaxSlips \in Nat
  BY RequestConstants DEF RequestsInv, RequestsShape
<1>2. slipped \in {0, 1} /\ (Slips => slipped = 0 /\ slipped' = 1)
  BY <1>1 DEF Slips
<1> QED
  BY <1>2, RequestTypes DEF AnswersHeld

LEMMA CheckMarkerKeeps ==
    ASSUME RequestsInv, NEW r \in Requests, CheckMarker(r)
    PROVE  RequestsInv'
<1>1. requests[r].where = "marker" /\ UNCHANGED <<form, queued, inflight, answers, rows, paidBy>>
  BY DEF CheckMarker, Is
<1>2. CASE /\ UNCHANGED slipped
           /\ requests' = [requests EXCEPT ![r].where = "answer",
                              ![r].status = "busy", ![r].replayed = TRUE]
  <2>1. Replays(r, "busy")
    BY <1>2, Zenon DEF Replays
  <2> QED
    BY <1>1, <1>2, <2>1, ReplayedKeeps
<1>3. CASE Moves(r, "redis") /\ (UNCHANGED slipped \/ Slips)
  <2>1. inflight' \subseteq Keys
    BY <1>1, RequestTypes
  <2> QED
    BY <1>1, <1>3, <2>1, NextStage
<1> QED
  BY <1>2, <1>3 DEF CheckMarker

\* A store asked for the request's key.
LEMMA LookKeeps ==
    ASSUME RequestsInv, NEW r \in Requests, requests[r].where \in {"redis", "row"},
           NEW kept \in [Keys -> Kept], NEW next \in {"row", "mark"},
           \A k \in Keys : kept[k].status = "ok" => PaidFor(k, kept[k].body),
           Look(r, kept, next), UNCHANGED slipped,
           UNCHANGED <<form, queued, inflight, answers, rows, paidBy>>,
           MaxSlips <= 1 /\ AnswersHeld /\ requests[r].spent /\ Held(kept, r) = NothingKept =>
              next = "row" /\ slipped # 0 /\ rows[requests[r].key] # NothingKept
    PROVE  RequestsInv'
<1>1. CASE Held(kept, r) = NothingKept
  <2>1. Moves(r, next) /\ inflight' \subseteq Keys
    BY <1>1, RequestTypes DEF Look
  <2> QED
    BY <1>1, <2>1, NextStage
<1>2. CASE Held(kept, r) # NothingKept
  <2>1. PICK status :
           status = IF Held(kept, r).body = requests[r].body
                    THEN Held(kept, r).status ELSE "reused"
    OBVIOUS
  <2>2. Held(kept, r) \in Kept /\ Held(kept, r) = kept[requests[r].key]
    BY RequestTypes DEF Held
  <2>3. /\ status \in {"none", "ok", "refused", "busy", "reused"}
        /\ status = "ok" => PaidFor(requests[r].key, requests[r].body)
    <3>1. Held(kept, r).status \in {"none", "ok", "refused"}
      BY <2>2 DEF Kept
    <3>2. kept[requests[r].key].status = "ok" =>
             PaidFor(requests[r].key, kept[requests[r].key].body)
      BY RequestTypes
    <3> QED
      BY <2>1, <2>2, <3>1, <3>2
  <2>4. requests' = [requests EXCEPT ![r].where = "answer", ![r].replayed = TRUE,
                                     ![r].status = status]
    BY <1>2, <2>1, Zenon DEF Look
  <2>5. Replays(r, status)
    <3>1. PICK yes \in BOOLEAN : yes
      OBVIOUS
    <3>2. yes = TRUE
      BY <3>1
    <3>3. requests \in [Requests -> RequestRecord] /\ requests[r] \in RequestRecord
      BY DEF RequestsInv, RequestsShape
    <3>4. [requests EXCEPT ![r].where = "answer", ![r].replayed = yes, ![r].status = status]
           = [requests EXCEPT ![r].where = "answer", ![r].status = status, ![r].replayed = yes]
      BY <3>3 DEF RequestRecord
    <3> QED
      BY <2>4, <3>2, <3>4, Zenon DEF Replays
  <2> QED
    BY <2>3, <2>5, ReplayedKeeps
<1> QED
  BY <1>1, <1>2

LEMMA CheckRedisKeeps ==
    ASSUME RequestsInv, NEW r \in Requests, CheckRedis(r)
    PROVE  RequestsInv'
<1>1. requests[r].where = "redis" /\ UNCHANGED <<form, queued, inflight, answers, rows, paidBy>>
  BY DEF CheckRedis, Is
<1>2. CASE Look(r, answers, "row") /\ UNCHANGED slipped
  <2>1. /\ answers \in [Keys -> Kept]
        /\ \A k \in Keys : answers[k].status = "ok" => PaidFor(k, answers[k].body)
    BY DEF RequestsInv, RequestsShape, SuccessBacked
  <2>2. ASSUME MaxSlips <= 1, AnswersHeld, requests[r].spent, Held(answers, r) = NothingKept
        PROVE  slipped # 0 /\ rows[requests[r].key] # NothingKept
    BY <2>2, SpentFinds DEF Held
  <2> QED
    BY <1>1, <1>2, <2>1, <2>2, LookKeeps
<1>3. CASE Moves(r, "row") /\ Slips
  <2>1. ASSUME MaxSlips <= 1, AnswersHeld, requests[r].spent
        PROVE  slipped' # 0 /\ rows[requests[r].key] # NothingKept
    BY <1>3, <2>1, SpentFinds
  <2>2. inflight' \subseteq Keys
    BY <1>1, RequestTypes
  <2> QED
    BY <1>1, <1>3, <2>1, <2>2, NextStage
<1> QED
  BY <1>2, <1>3 DEF CheckRedis

LEMMA CheckRowKeeps ==
    ASSUME RequestsInv, NEW r \in Requests, CheckRow(r)
    PROVE  RequestsInv'
<1>1. requests[r].where = "row" /\ UNCHANGED <<form, queued, inflight, answers, rows, paidBy>>
  BY DEF CheckRow, Is
<1>2. CASE Look(r, rows, "mark") /\ UNCHANGED slipped
  <2>1. /\ rows \in [Keys -> Kept]
        /\ \A k \in Keys : rows[k].status = "ok" => PaidFor(k, rows[k].body)
    BY DEF RequestsInv, RequestsShape, SuccessBacked
  <2>2. ASSUME MaxSlips <= 1, AnswersHeld, requests[r].spent
        PROVE  Held(rows, r) # NothingKept
    BY <1>1, <2>2, SpentFinds DEF Held
  <2> QED
    BY <1>1, <1>2, <2>1, <2>2, LookKeeps
<1>3. CASE Moves(r, "mark") /\ Slips
  <2>1. ~(MaxSlips <= 1 /\ AnswersHeld /\ requests[r].spent)
    BY <1>1, <1>3, SpentFinds
  <2>2. inflight' \subseteq Keys
    BY <1>1, RequestTypes
  <2> QED
    BY <1>1, <1>3, <2>1, <2>2, NextStage
<1> QED
  BY <1>2, <1>3 DEF CheckRow

\* An answer made for this request, not yet kept: the payment it tells of is
\* there already, and no request of an answered key is so far.
LEMMA AnsweredKeeps ==
    ASSUME RequestsInv, NEW r \in Requests, requests[r].where \in {"mark", "handler", "paying"},
           NEW status \in {"ok", "refused", "error"}, Answers(r, "clear", status),
           UNCHANGED <<form, queued, answers, rows>>, inflight' \subseteq Keys,
           paidBy \subseteq paidBy', paidBy' \subseteq paidBy \cup {r},
           status = "ok" => r \in paidBy',
           UNCHANGED slipped \/ Slips
    PROVE  RequestsInv'
<1>1. PICK rec \in RequestRecord :
              /\ requests' = [requests EXCEPT ![r] = rec]
              /\ rec.where = "clear" /\ rec.status = status
              /\ rec.key = requests[r].key /\ rec.body = requests[r].body
              /\ rec.replayed = requests[r].replayed /\ rec.spent = requests[r].spent
  BY Answered, RequestTypes DEF Wheres
<1>2. ~SpentBy(requests[r]) /\ requests[r].where # "unsent"
  BY OtherStages, RequestTypes
<1>3. ~SpentBy(rec) /\ Told(rec) /\ rec.where # "unsent" /\ rec.where # "record"
  BY <1>1 DEF SpentBy, Told
<1>4. /\ form' \in [key : Keys, awaits : 0..MaxRequests]
      /\ queued' \in BOOLEAN
      /\ answers' = answers /\ rows' = rows
      /\ answers' \in [Keys -> Kept] /\ rows' \in [Keys -> Kept]
  BY DEF RequestsInv, RequestsShape
<1>5. MaxSlips <= 1 /\ AnswersHeld => ~rec.spent
  BY <1>1, SpentFinds
<1>6. rec.status = "ok" => r \in paidBy'
  BY <1>1
<1> QED
  BY <1>1, <1>2, <1>3, <1>4, <1>5, <1>6, OneRequest

LEMMA SetMarkerKeeps ==
    ASSUME RequestsInv, NEW r \in Requests, SetMarker(r)
    PROVE  RequestsInv'
<1>1. /\ requests[r].where = "mark" /\ UNCHANGED <<form, queued, answers, rows, paidBy>>
      /\ UNCHANGED slipped \/ Slips
  BY DEF SetMarker, Is
<1>2. inflight' \subseteq Keys
  BY RequestTypes DEF SetMarker
<1>3. CASE Moves(r, "handler")
  <2>1. ~(MaxSlips <= 1 /\ AnswersHeld /\ requests[r].spent)
    BY <1>1, SpentFinds
  <2> QED
    BY <1>1, <1>2, <1>3, <2>1, NextStage
<1>4. CASE Answers(r, "clear", "refused")
  <2>1. /\ UNCHANGED <<form, queued, answers, rows>>
        /\ paidBy \subseteq paidBy' /\ paidBy' \subseteq paidBy \cup {r}
    BY <1>1
  <2> QED
    BY <1>1, <1>2, <1>4, <2>1, AnsweredKeeps
<1> QED
  BY <1>3, <1>4 DEF SetMarker, StepUp

LEMMA EnterHandlerKeeps ==
    ASSUME RequestsInv, NEW r \in Requests, EnterHandler(r)
    PROVE  RequestsInv'
<1>1. /\ requests[r].where = "handler" /\ UNCHANGED <<form, queued, answers, rows, paidBy>>
      /\ UNCHANGED slipped /\ inflight' \subseteq Keys
  BY RequestTypes DEF EnterHandler, Is
<1>2. CASE Moves(r, "paying")
  <2>1. ~(MaxSlips <= 1 /\ AnswersHeld /\ requests[r].spent)
    BY <1>1, SpentFinds
  <2> QED
    BY <1>1, <1>2, <2>1, NextStage
<1>3. CASE Answers(r, "clear", "refused")
  <2>1. /\ UNCHANGED <<form, queued, answers, rows>>
        /\ paidBy \subseteq paidBy' /\ paidBy' \subseteq paidBy \cup {r}
    BY <1>1
  <2> QED
    BY <1>1, <1>3, <2>1, AnsweredKeeps
<1> QED
  BY <1>2, <1>3 DEF EnterHandler

LEMMA PayKeeps ==
    ASSUME RequestsInv, NEW r \in Requests, Pay(r)
    PROVE  RequestsInv'
<1>1. /\ requests[r].where = "paying" /\ UNCHANGED <<form, queued, answers, rows>>
      /\ UNCHANGED slipped /\ inflight' \subseteq Keys
  BY RequestTypes DEF Pay, Is
<1>2. paidBy \subseteq paidBy' /\ paidBy' \subseteq paidBy \cup {r}
  BY DEF Pay
<1>3. CASE Answers(r, "clear", "ok") /\ paidBy' = paidBy \cup {r}
  BY <1>1, <1>2, <1>3, AnsweredKeeps
<1>4. CASE Answers(r, "clear", "refused")
  BY <1>1, <1>2, <1>4, AnsweredKeeps
<1>5. CASE Answers(r, "clear", "error")
  BY <1>1, <1>2, <1>5, AnsweredKeeps
<1> QED
  BY <1>3, <1>4, <1>5 DEF Pay

LEMMA ClearMarkerKeeps ==
    ASSUME RequestsInv, NEW r \in Requests, ClearMarker(r)
    PROVE  RequestsInv'
<1>1. /\ requests[r].where = "clear" /\ UNCHANGED <<form, queued, answers, rows, paidBy>>
      /\ UNCHANGED slipped \/ Slips
      /\ Moves(r, IF requests[r].status = "error" THEN "answer" ELSE "store")
  BY DEF ClearMarker, Is
<1>2. PICK where \in {"answer", "store"} :
         /\ Moves(r, where)
         /\ requests[r].status = "error" <=> where = "answer"
  BY <1>1
<1>3. PICK rec \in RequestRecord :
              /\ requests' = [requests EXCEPT ![r] = rec]
              /\ rec.where = where /\ rec.status = requests[r].status
              /\ rec.key = requests[r].key /\ rec.body = requests[r].body
              /\ rec.replayed = requests[r].replayed /\ rec.spent = requests[r].spent
  BY <1>2, Moved, RequestTypes DEF Wheres
<1>4. (SpentBy(requests[r]) <=> SpentBy(rec)) /\ Told(rec)
  BY <1>1, <1>2, <1>3, RequestTypes DEF SpentBy, Told
<1>5. inflight' \subseteq Keys
  BY RequestTypes DEF ClearMarker
<1>6. MaxSlips <= 1 /\ AnswersHeld => ~rec.spent
  BY <1>1, <1>3, SpentFinds
<1>7. /\ form' \in [key : Keys, awaits : 0..MaxRequests]
      /\ queued' \in BOOLEAN
      /\ UNCHANGED <<answers, rows, paidBy>>
  BY <1>1, RequestTypes
<1>8. rec.where # "unsent" /\ rec.where # "record"
  BY <1>2, <1>3
<1> QED
  BY <1>1, <1>3, <1>4, <1>5, <1>6, <1>7, <1>8, QuietRequest

\* What a request in these stages has to be kept.
LEMMA ToBeKept ==
    ASSUME RequestsInv, NEW r \in Requests, requests[r].where \in {"store", "record"}
    PROVE  /\ [body |-> requests[r].body, status |-> requests[r].status] \in Kept
           /\ [body |-> requests[r].body, status |-> requests[r].status] # NothingKept
           /\ requests[r].where # "unsent" /\ ~SpentBy(requests[r])
           /\ MaxSlips <= 1 /\ AnswersHeld => ~requests[r].spent
<1>1. requests[r].body \in {1, 2} /\ requests[r].status \in {"ok", "refused"}
  BY RequestTypes DEF Told, RequestRecord, Bodies
<1>2. MaxSlips <= 1 /\ AnswersHeld => ~requests[r].spent
  BY SpentFinds
<1> QED
  BY <1>1, <1>2 DEF Kept, NothingKept, SpentBy

LEMMA StoreAnswerKeeps ==
    ASSUME RequestsInv, NEW r \in Requests, StoreAnswer(r)
    PROVE  RequestsInv'
<1>1. /\ requests[r].where = "store" /\ UNCHANGED <<form, queued, inflight, rows, paidBy>>
      /\ Moves(r, "record") /\ requests[r].key \in Keys
  BY RequestTypes DEF StoreAnswer, Is
<1>2. PICK rec \in RequestRecord :
              /\ requests' = [requests EXCEPT ![r] = rec]
              /\ rec.where = "record" /\ rec.status = requests[r].status
              /\ rec.key = requests[r].key /\ rec.body = requests[r].body
              /\ rec.replayed = requests[r].replayed /\ rec.spent = requests[r].spent
  BY <1>1, Moved, RequestTypes DEF Wheres
<1>3. PICK a : a = [body |-> requests[r].body, status |-> requests[r].status]
  OBVIOUS
<1>4. /\ a \in Kept /\ a # NothingKept
      /\ a.body = requests[r].body /\ a.status = requests[r].status
      /\ requests[r].where # "unsent" /\ ~SpentBy(requests[r])
      /\ MaxSlips <= 1 /\ AnswersHeld => ~rec.spent
  BY <1>1, <1>2, <1>3, ToBeKept
<1>5. ~SpentBy(rec) /\ Told(rec)
  BY <1>1, <1>2, RequestTypes DEF SpentBy, Told
<1>6. answers \in [Keys -> Kept] /\ rows' = rows /\ rows' \in [Keys -> Kept] /\ slipped \in Nat
  BY <1>1 DEF RequestsInv, RequestsShape
<1>7. \/ answers' = [answers EXCEPT ![requests[r].key] = a] /\ UNCHANGED slipped
      \/ answers' = answers /\ Slips
  BY <1>3 DEF StoreAnswer
<1>8. UNCHANGED slipped \/ Slips
  BY <1>7
<1>9. /\ answers' \in [Keys -> Kept]
      /\ \A k \in Keys :
            /\ answers[k] # NothingKept => answers'[k] # NothingKept
            /\ \/ answers'[k] = answers[k]
               \/ /\ k = requests[r].key /\ answers'[k].body = requests[r].body
                  /\ answers'[k].status = requests[r].status
  BY <1>1, <1>4, <1>6, <1>7
<1>10. slipped' = 0 => answers'[rec.key] # NothingKept
  BY <1>1, <1>2, <1>4, <1>6, <1>7 DEF Slips
<1>11. /\ form' \in [key : Keys, awaits : 0..MaxRequests]
       /\ queued' \in BOOLEAN
       /\ inflight' \subseteq Keys
       /\ paidBy \subseteq paidBy' /\ paidBy' \subseteq paidBy \cup {r}
  BY <1>1, RequestTypes
<1> QED
  BY <1>2, <1>4, <1>5, <1>6, <1>8, <1>9, <1>10, <1>11, OneRequest, ZenonT(30)

LEMMA RecordAnswerKeeps ==
    ASSUME RequestsInv, NEW r \in Requests, RecordAnswer(r)
    PROVE  RequestsInv'
<1>1. /\ requests[r].where = "record" /\ UNCHANGED <<form, queued, answers, paidBy>>
      /\ Moves(r, "answer") /\ requests[r].key \in Keys
      /\ inflight' \subseteq Keys
  BY RequestTypes DEF RecordAnswer, Is
<1>2. PICK rec \in RequestRecord :
              /\ requests' = [requests EXCEPT ![r] = rec]
              /\ rec.where = "answer" /\ rec.status = requests[r].status
              /\ rec.key = requests[r].key /\ rec.body = requests[r].body
              /\ rec.replayed = requests[r].replayed /\ rec.spent = requests[r].spent
  BY <1>1, Moved, RequestTypes DEF Wheres
<1>3. PICK a : a = [body |-> requests[r].body, status |-> requests[r].status]
  OBVIOUS
<1>4. /\ a \in Kept /\ a # NothingKept
      /\ a.body = requests[r].body /\ a.status = requests[r].status
      /\ requests[r].where # "unsent" /\ ~SpentBy(requests[r])
      /\ MaxSlips <= 1 /\ AnswersHeld => ~rec.spent
  BY <1>1, <1>2, <1>3, ToBeKept
<1>5. Told(rec) /\ rec.where # "record" /\ rec.where # "unsent"
  BY <1>2 DEF Told
<1>6. /\ rows \in [Keys -> Kept] /\ answers' = answers /\ answers' \in [Keys -> Kept]
      /\ slipped \in Nat /\ slipped <= MaxSlips /\ MaxSlips \in Nat
  BY <1>1, RequestConstants DEF RequestsInv, RequestsShape
<1>7. \/ /\ rows' = [rows EXCEPT ![requests[r].key] = IF @ # NothingKept THEN @ ELSE a]
         /\ UNCHANGED slipped
      \/ rows' = rows /\ Slips
  BY <1>3 DEF RecordAnswer
<1>8. UNCHANGED slipped \/ Slips
  BY <1>7
<1>9. /\ rows' \in [Keys -> Kept]
      /\ \A k \in Keys :
            /\ rows[k] # NothingKept => rows'[k] # NothingKept
            /\ \/ rows'[k] = rows[k]
               \/ /\ k = requests[r].key /\ rows'[k].body = requests[r].body
                  /\ rows'[k].status = requests[r].status
  BY <1>1, <1>4, <1>6, <1>7
<1>10. MaxSlips <= 1 /\ AnswersHeld =>
          /\ answers'[rec.key] # NothingKept \/ rows'[rec.key] # NothingKept
          /\ slipped' = 0 => answers'[rec.key] # NothingKept /\ rows'[rec.key] # NothingKept
  <2>1. MaxSlips <= 1 /\ AnswersHeld /\ slipped = 0 => answers[rec.key] # NothingKept
    BY <1>1, <1>2 DEF AnswersHeld
  <2>2. CASE rows' = [rows EXCEPT ![requests[r].key] = IF @ # NothingKept THEN @ ELSE a]
             /\ UNCHANGED slipped
    <3>1. rows'[rec.key] # NothingKept
      BY <1>1, <1>2, <1>4, <1>6, <2>2
    <3> QED
      BY <1>6, <2>1, <2>2, <3>1
  <2>3. CASE Slips
    <3>1. MaxSlips <= 1 => slipped = 0 /\ slipped' = 1
      BY <1>6, <2>3 DEF Slips
    <3> QED
      BY <1>6, <2>1, <3>1
  <2> QED
    BY <1>7, <2>2, <2>3
<1>11. /\ form' \in [key : Keys, awaits : 0..MaxRequests]
       /\ queued' \in BOOLEAN
       /\ paidBy \subseteq paidBy' /\ paidBy' \subseteq paidBy \cup {r}
  BY <1>1, RequestTypes
<1> QED
  BY <1>1, <1>2, <1>4, <1>5, <1>6, <1>8, <1>9, <1>10, <1>11, OneRequest, ZenonT(30)

\* Redis loses everything: the one failure, so the rows are all there.
LEMMA FlushRedisKeeps ==
    ASSUME RequestsInv, FlushRedis
    PROVE  RequestsInv'
<1>1. /\ Slips /\ inflight' = {} /\ answers' = [k \in Keys |-> NothingKept]
      /\ form' = form /\ queued' = queued /\ requests' = requests
      /\ rows' = rows /\ paidBy' = paidBy
  BY DEF FlushRedis
<1>2. slipped \in Nat /\ slipped <= MaxSlips /\ MaxSlips \in Nat /\ slipped' = slipped + 1
  BY <1>1, RequestConstants DEF RequestsInv, RequestsShape, Slips
<1>3. NothingKept \in Kept /\ NothingKept.status # "ok"
  BY DEF NothingKept, Kept
<1>4. RequestsShape'
  BY <1>1, <1>2, <1>3 DEF RequestsInv, RequestsShape, Slips
<1>5. SuccessBacked'
  BY <1>1, <1>3 DEF RequestsInv, SuccessBacked, PaidFor, Told
<1>6. ASSUME MaxSlips <= 1, AnswersHeld PROVE AnswersHeld'
  <2>1. slipped = 0 /\ slipped' # 0
    BY <1>1, <1>2, <1>6 DEF Slips
  <2>2. \A k \in Keys : Spent(k) => rows[k] # NothingKept
    BY <1>6, <2>1 DEF AnswersHeld
  <2>3. \A k \in Keys : Spent(k)' <=> Spent(k)
    BY <1>1 DEF Spent
  <2>4. \A k \in Keys : Spent(k)' => rows'[k] # NothingKept
    BY <1>1, <2>2, <2>3
  <2>5. ASSUME NEW r \in Requests, requests'[r].spent
        PROVE  /\ Spent(requests[r].key)' /\ r \notin paidBy'
               /\ requests'[r].where \in {"marker", "redis", "row", "answer", "over"}
               /\ requests'[r].where = "row" => rows'[requests'[r].key] # NothingKept
    <3>1. Spent(requests[r].key)' <=> Spent(requests[r].key)
      BY <1>1 DEF Spent
    <3> QED
      BY <1>1, <1>6, <2>2, <2>5, <3>1, RequestTypes DEF AnswersHeld
  <2> QED
    BY <2>1, <2>4, <2>5 DEF AnswersHeld
<1> QED
  BY <1>4, <1>5, <1>6 DEF RequestsInv

LEMMA RequestsStart == RequestsInit => RequestsInv
<1> SUFFICES ASSUME RequestsInit PROVE RequestsInv
  OBVIOUS
<1>1. 0 \in Keys /\ 0 \in 0..MaxRequests /\ 0 \in 0..MaxSlips /\ MaxSlips \in Nat
  BY RequestConstants DEF Keys
<1>2. PICK no \in BOOLEAN : ~no
  OBVIOUS
<1>3. PICK u : u = [where |-> "unsent", key |-> 0, body |-> 1, token |-> no,
                    status |-> "none", replayed |-> no, spent |-> no]
  OBVIOUS
<1>4. /\ u \in RequestRecord /\ u.status = "none" /\ u.where = "unsent" /\ u.spent = no
      /\ ~SpentBy(u)
  BY <1>1, <1>3 DEF RequestRecord, Wheres, Bodies, SpentBy
<1>5. requests = [r \in Requests |-> u]
  <2>1. no = FALSE
    BY <1>2
  <2>2. u = Unsent
    BY <1>3, <2>1, Zenon DEF Unsent
  <2> QED
    BY <2>2, Zenon DEF RequestsInit
<1>6. NothingKept \in Kept /\ NothingKept.status # "ok"
  BY DEF NothingKept, Kept
<1>7. RequestsShape
  BY <1>1, <1>4, <1>5, <1>6 DEF RequestsInit, RequestsShape
<1>8. SuccessBacked
  BY <1>2, <1>4, <1>5, <1>6 DEF RequestsInit, SuccessBacked, Told
<1>9. AnswersHeld
  <2>1. \A k \in Keys : ~Spent(k)
    BY <1>4, <1>5 DEF Spent, SpentBy
  <2>2. \A r \in Requests : ~requests[r].spent /\ requests[r].where # "record"
    BY <1>2, <1>4, <1>5
  <2> QED
    BY <2>1, <2>2 DEF AnswersHeld
<1> QED
  BY <1>7, <1>8, <1>9 DEF RequestsInv

LEMMA RequestsStep == RequestsInv /\ [RequestsNext]_requestVars => RequestsInv'
<1> SUFFICES ASSUME RequestsInv, [RequestsNext]_requestVars PROVE RequestsInv'
  OBVIOUS
<1>1. CASE \E r \in Requests : \E b \in Bodies : SubmitForm(r, b)
  BY <1>1, SubmitFormKeeps
<1>2. CASE \E r \in Requests : SendQueued(r) \/ ReceiveForm(r) \/ ReceiveQueued(r)
  BY <1>2, SendQueuedKeeps, ReceiveFormKeeps, ReceiveQueuedKeeps
<1>3. CASE \/ DiscardQueued
           \/ \E r \in Requests : LoseResponse(r)
           \/ \E k \in Keys : ExpireMarker(k)
  BY <1>3, ElsewhereKeeps
<1>4. CASE \E r \in Requests : Serve(r)
  <2>1. PICK r \in Requests : Serve(r)
    BY <1>4
  <2> QED
    BY <2>1, CheckMarkerKeeps, CheckRedisKeeps, CheckRowKeeps, SetMarkerKeeps,
       EnterHandlerKeeps, PayKeeps, ClearMarkerKeeps, StoreAnswerKeeps,
       RecordAnswerKeeps DEF Serve
<1>5. CASE FlushRedis
  BY <1>5, FlushRedisKeeps
<1>6. CASE UNCHANGED requestVars
  <2>1. /\ UNCHANGED <<requests, answers, rows, paidBy, slipped>>
        /\ form' = form /\ queued' = queued /\ inflight' = inflight
    BY <1>6 DEF requestVars
  <2> QED
    BY <2>1, NoRequest, RequestTypes
<1> QED
  BY <1>1, <1>2, <1>3, <1>4, <1>5, <1>6 DEF RequestsNext

LEMMA RequestsInvariant == RequestsSpec => []RequestsInv
BY RequestsStart, RequestsStep, PTL DEF RequestsSpec

\* Whatever requests the form and the offline queue send, with whatever keys
\* kept, dropped and resent, and with any one call of Redis or of the database
\* failing at any point: a request whose key had been answered when it was sent
\* is not handled and pays nothing, and no request is told of a success that is
\* not a payment of its own key, amounts and recipients (idempotency.js reads
\* Redis and then the table, and writes both before the response leaves).  With
\* two failures both copies can be lost, hence the hypothesis.
THEOREM AnswersAreKept ==
    ASSUME MaxSlips <= 1 PROVE RequestsSpec => []AnswersKept
<1>1. ASSUME RequestsInv PROVE AnswersKept
  <2>1. RequestTypeOK
    BY <1>1 DEF RequestsInv, RequestsShape, RequestTypeOK, RequestRecord, Wheres, Kept
  <2>2. SpentKeyNotHandled
    <3>1. AnswersHeld
      BY <1>1 DEF RequestsInv
    <3> QED
      BY <3>1 DEF AnswersHeld, SpentKeyNotHandled
  <2>3. SuccessIsOwnPayment
    BY <1>1 DEF RequestsInv, SuccessBacked, PaidFor, SuccessIsOwnPayment
  <2> QED
    BY <2>1, <2>2, <2>3 DEF AnswersKept
<1> QED
  BY <1>1, RequestsInvariant, PTL

=============================================================================
