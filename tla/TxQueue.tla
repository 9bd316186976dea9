------------------------------ MODULE TxQueue ------------------------------
(***************************************************************************)
(* The per-wallet transaction queue (backend/src/utils/txQueue.js): the    *)
(* Map of promise chains, the 30 second timer of each task, and the count  *)
(* of unsettled tasks.                                                     *)
(*                                                                         *)
(* A task's promise settles when its function does or when its timer       *)
(* fires; the timer is started with the function and may fire at any       *)
(* moment of it.  The function itself cannot be stopped: what it does      *)
(* after a timeout no longer changes the promise.                          *)
(***************************************************************************)
EXTENDS Integers, Sequences, FiniteSets

CONSTANTS
    Sends,    \* the tasks that are enqueued
    Wallets,  \* the wallet keys
    sender    \* the wallet each task is enqueued for

ASSUME QueueConstants == sender \in [Sends -> Wallets]

VARIABLES
    queues,           \* queues: each wallet's chain, oldest task first
    call,             \* the state of the promise enqueue returned
    pendingTasksTotal

queueVars == <<queues, call, pendingTasksTotal>>

Settled == {"resolved", "rejected", "timed out"}

QueueInit ==
    /\ queues = [w \in Wallets |-> <<>>]
    /\ call = [t \in Sends |-> "not called"]
    /\ pendingTasksTotal = 0

\* The tasks the promise of t is chained after.
Before(t) ==
    LET q == queues[sender[t]] IN
    {u \in Sends : \E i, j \in DOMAIN q : i < j /\ q[i] = u /\ q[j] = t}

Enqueue(t) ==
    /\ call[t] = "not called"
    /\ call' = [call EXCEPT ![t] = "waiting"]
    /\ queues' = [queues EXCEPT ![sender[t]] = Append(@, t)]
    /\ pendingTasksTotal' = pendingTasksTotal + 1

\* Mutant of Begin: tasks are not chained.
BeginAtOnce(t) ==
    /\ call[t] = "waiting"
    /\ call' = [call EXCEPT ![t] = "running"]
    /\ UNCHANGED <<queues, pendingTasksTotal>>

\* prev.then: the function runs, and the timer with it, once the promise
\* before it has settled, whichever way.
Begin(t) ==
    /\ call[t] = "waiting"
    /\ \A u \in Before(t) : call[u] \in Settled
    /\ call' = [call EXCEPT ![t] = "running"]
    /\ UNCHANGED <<queues, pendingTasksTotal>>

Uncount == pendingTasksTotal' =
               IF pendingTasksTotal > 0 THEN pendingTasksTotal - 1 ELSE 0

\* The function settles: only the first settlement of a promise counts.
Settle(t, outcome) ==
    /\ UNCHANGED queues
    /\ \/ /\ call[t] = "running"
          /\ call' = [call EXCEPT ![t] = outcome]
          /\ Uncount
       \/ call[t] # "running" /\ UNCHANGED <<call, pendingTasksTotal>>

\* Mutant of Timeout: no timer.
NeverTimeout(t) == FALSE /\ UNCHANGED queueVars

Timeout(t) ==
    /\ call[t] = "running"
    /\ call' = [call EXCEPT ![t] = "timed out"]
    /\ Uncount
    /\ UNCHANGED queues

-----------------------------------------------------------------------------
\* The metric behind the backpressure alert counts exactly the calls that have
\* not settled, whatever mixture of results and timeouts settled the others.
PendingCounted ==
    pendingTasksTotal =
        Cardinality({t \in Sends : call[t] \in {"waiting", "running"}})

\* Every call settles, even one whose function never does.
CallsSettle == \A t \in Sends : call[t] = "waiting" ~> call[t] \in Settled

=============================================================================
