------------------------------ MODULE MCEscrow ------------------------------
(***************************************************************************)
(* Model-checking instances of Escrow.                                     *)
(***************************************************************************)
EXTENDS Escrow

CONSTANTS a1, a2, a3    \* the users

Offer(recipient, agent, amount, maxFeeBps) ==
    [recipient |-> recipient, agent |-> agent, amount |-> amount,
     maxFeeBps |-> maxFeeBps]

\* One set of roles: a1 (the only account that is neither) sends.
OneOffer == {Offer(a2, a3, 100, 1000)}

\* Two senders whose roles cross, one of them guarding against a fee rise.
CrossedOffers == {Offer(a2, a3, 100, 1000), Offer(a1, a3, 200, 250)}
=============================================================================
