---------------------------- MODULE EscrowPromise ----------------------------
(***************************************************************************)
(* What the escrow and dispute contracts together, and the agent-escrow    *)
(* contract by itself, promise the parties of an escrow.  Left out is who  *)
(* is allowed to do what, when, and which contract the money sits in       *)
(* meanwhile.  An escrow is funded once, may be topped up, and pays out;   *)
(* all that was put in is paid out, it is closed exactly when nothing is   *)
(* left, and a closed escrow never moves again.                            *)
(***************************************************************************)
EXTENDS Integers

CONSTANT Promised       \* the escrow ids

VARIABLES
    phase,      \* "unborn", "held" or "closed"
    kept,       \* what is still due, wherever it is held
    paidOut     \* what has been paid, fees included

promiseVars == <<phase, kept, paidOut>>

PromiseInit ==
    /\ phase = [e \in Promised |-> "unborn"]
    /\ kept = [e \in Promised |-> 0]
    /\ paidOut = [e \in Promised |-> 0]

\* One transaction may create several escrows.
Fund(fresh) ==
    /\ fresh # {}
    /\ \A e \in fresh : phase[e] = "unborn"
    /\ phase' = [e \in Promised |-> IF e \in fresh THEN "held" ELSE phase[e]]
    /\ \A e \in fresh : kept'[e] > 0
    /\ \A e \in Promised \ fresh : kept'[e] = kept[e]
    /\ UNCHANGED paidOut

TopUp(e) ==
    /\ phase[e] = "held"
    /\ kept'[e] > kept[e]
    /\ \A f \in Promised \ {e} : kept'[f] = kept[f]
    /\ UNCHANGED <<phase, paidOut>>

\* What is paid is what is no longer due; the payment that leaves nothing
\* closes the escrow.
PayOut(e) ==
    /\ phase[e] = "held"
    /\ kept'[e] \in 0..(kept[e] - 1)
    /\ paidOut' = [paidOut EXCEPT ![e] = @ + (kept[e] - kept'[e])]
    /\ phase' = [phase EXCEPT ![e] = IF kept'[e] = 0 THEN "closed" ELSE "held"]
    /\ \A f \in Promised \ {e} : kept'[f] = kept[f]

PromiseNext ==
    \/ \E fresh \in SUBSET Promised : Fund(fresh)
    \/ \E e \in Promised : TopUp(e) \/ PayOut(e)

PromiseSpec == PromiseInit /\ [][PromiseNext]_promiseVars
=============================================================================
