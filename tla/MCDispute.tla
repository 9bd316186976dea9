------------------------------ MODULE MCDispute ------------------------------
(***************************************************************************)
(* Model-checking instances of DisputeResolution.                          *)
(***************************************************************************)
EXTENDS DisputeResolution

CONSTANTS a1, a2, a3, o1, o2, o3      \* users and officials

\* A free-form dispute between a1 and a2.
OneClaim == {[sender |-> a1, recipient |-> a2, amount |-> 5]}

\* Escrow 1, with a3 as the agent that has or has not confirmed the payout.
OneBacking ==
    {[sender |-> a1, recipient |-> a2, agent |-> a3, amount |-> 3,
      confirmed |-> c, escrow |-> 1] : c \in BOOLEAN}

\* A filing fee below zero passes update_filing_fee.
FeeChoices == {0 - 1, 4}
=============================================================================
