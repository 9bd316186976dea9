----------------------------- MODULE MCRequests -----------------------------
(***************************************************************************)
(* What the backend does while it serves requests, in small instances: the *)
(* payment queue, idempotent requests, refresh tokens, and agent escrows   *)
(* with their contract.  They share no state, so a behaviour follows one.  *)
(***************************************************************************)
EXTENDS PaymentQueue, IdempotentRequests, RefreshTokens, AgentPayouts

CONSTANTS s1, s2, w1

\* Both sends are of one wallet.
OneWallet == [t \in {s1, s2} |-> w1]

VARIABLE followed  \* what a behaviour is about

requestsVars ==
    <<followed, queueVars, paymentVars, requestVars, tokenVars, payoutVars>>

Init ==
    /\ PaymentInit /\ RequestsInit /\ TokensInit /\ PayoutsInit
    /\ followed \in {"payments", "requests", "tokens", "payouts"}
    /\ followed # "tokens" => webLocks

\* Bounds of "payouts": one escrow, one agent, one rate, no withdrawal, all of
\* which MCSettlements varies without the backend; one call given up at a time.
SmallPayouts ==
    /\ created' <= 1
    /\ agents' \subseteq {"g1"}
    /\ \A c \in Callers : calls'[c].call.agent # "g2"
    /\ shareBps' = shareBps
    /\ agentFees' >= agentFees
    /\ Cardinality(strays') <= 1

Next ==
    \/ /\ followed = "payments" /\ PaymentNext
       /\ UNCHANGED <<followed, requestVars, tokenVars, payoutVars>>
    \/ /\ followed = "requests" /\ RequestsNext
       /\ UNCHANGED <<followed, vars, tokenVars, payoutVars>>
    \/ /\ followed = "tokens" /\ TokensNext
       /\ UNCHANGED <<followed, vars, requestVars, payoutVars>>
    \/ /\ followed = "payouts" /\ PayoutsNext /\ SmallPayouts
       /\ UNCHANGED <<followed, vars, requestVars, tokenVars>>

\* The fairness of FairPaymentSpec.
Fairness ==
    \A t \in Sends :
        /\ WF_vars(followed = "payments" /\ Start(t))
        /\ WF_vars(followed = "payments" /\ TimerFires(t))

Spec == Init /\ [][Next]_requestsVars /\ Fairness
=============================================================================
