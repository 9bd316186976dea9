------------------------------- MODULE MCJobs -------------------------------
(***************************************************************************)
(* The background work of a backend process (scheduler.js, index.js), and  *)
(* the two contracts that live by the clock, in small instances.  They     *)
(* share no state, so a behaviour follows one of them: their interleavings *)
(* would only multiply the graphs.                                         *)
(***************************************************************************)
EXTENDS LoyaltyMint, FeeConfigs, ClaimableBalances, Confirmations,
        RecurringPayments, SavingsVault

CONSTANTS r1, r2  \* the replicas

VARIABLE followed  \* what a behaviour is about

jobsVars ==
    <<followed, keys, holds, faults, mintVars, feeVars, balanceVars, confirmVars,
      now, scheduleVars, vaultVars>>

Init ==
    /\ LoyaltyInit /\ FeeInit /\ BalancesInit /\ ConfirmInit
    /\ RecurringInit /\ SavingsInit
    /\ followed \in {"loyalty", "fees", "balances", "confirmations", "schedules", "vaults"}

\* Bound of "loyalty": the one failure is r1's.  The replicas are alike, so that
\* a behaviour in which r2 fails is one of these with the names exchanged.
FirstFails ==
    faults' # faults => work'[r2] = work[r2] /\ holds'[r2] = holds[r2]

\* Bounds of "vaults": two seconds, one funding of the reserve, one
\* distribution, and other lock bounds for later deposits only.
SmallVaults ==
    /\ now' <= 2
    /\ reserve' <= 2
    /\ vaultFunds' - totalLocked' - reserve' <= 3
    /\ bounds' # bounds => opened = 0

Next ==
    \/ /\ followed = "loyalty" /\ LoyaltyNext /\ FirstFails
       /\ UNCHANGED <<followed, feeVars, balanceVars, confirmVars, now, scheduleVars, vaultVars>>
    \/ /\ followed = "fees" /\ FeeNext
       /\ UNCHANGED <<followed, vars, balanceVars, confirmVars, now, scheduleVars, vaultVars>>
    \/ /\ followed = "balances" /\ BalancesNext
       /\ UNCHANGED <<followed, vars, feeVars, confirmVars, now, scheduleVars, vaultVars>>
    \/ /\ followed = "confirmations" /\ ConfirmNext
       /\ UNCHANGED <<followed, vars, feeVars, balanceVars, now, scheduleVars, vaultVars>>
    \/ /\ followed = "schedules" /\ RecurringNext
       /\ UNCHANGED <<followed, vars, feeVars, balanceVars, confirmVars, vaultVars>>
    \/ /\ followed = "vaults" /\ SavingsNext /\ SmallVaults
       /\ UNCHANGED <<followed, vars, feeVars, balanceVars, confirmVars, scheduleVars>>

\* The fairness of each job's own specification.
Fairness ==
    /\ \A r \in Replicas : WF_vars(followed = "loyalty" /\ Work(r))
    /\ WF_vars(followed = "loyalty" /\ TimePasses)
    /\ WF_feeVars(followed = "fees" /\ JobStep)
    /\ \A l \in Listeners : WF_balanceVars(followed = "balances" /\ Listens(l))
    /\ WF_balanceVars(followed = "balances" /\ Handles)
    /\ \A w \in Workers : WF_confirmVars(followed = "confirmations" /\ Confirms(w))

Spec == Init /\ [][Next]_jobsVars /\ Fairness
=============================================================================
