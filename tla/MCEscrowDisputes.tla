-------------------------- MODULE MCEscrowDisputes --------------------------
(***************************************************************************)
(* Model-checking instances of EscrowDisputes.                             *)
(***************************************************************************)
EXTENDS EscrowDisputes

CONSTANTS a1, a2, a3, o1, o2    \* users and officials

OneOffer == {[recipient |-> a2, agent |-> a3, amount |-> 100, maxFeeBps |-> 1000]}

\* A free-form dispute between the parties of the escrow.
OneClaim == {[sender |-> a1, recipient |-> a2, amount |-> 7]}

FeeChoices == {0 - 1}

\* The escrow contract passes these; the set bounds nothing.
AnyBacking ==
    [sender : Accounts, recipient : Accounts, agent : Accounts, amount : {100, 160},
     confirmed : BOOLEAN, escrow : Ids]
=============================================================================
