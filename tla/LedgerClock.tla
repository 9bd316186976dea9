----------------------------- MODULE LedgerClock -----------------------------
(***************************************************************************)
(* The ledger timestamp every Soroban contract reads with                  *)
(* env.ledger().timestamp().  It never goes backwards and is the same for  *)
(* every contract called inside one transaction, so one variable serves    *)
(* all the contracts of a composition.                                     *)
(***************************************************************************)
EXTENDS Integers

CONSTANT MaxTime        \* bound: the clock stops here in a finite model

ASSUME MaxTimeAssumption == MaxTime \in Nat

VARIABLE now

ClockTypeOK == now \in 0..MaxTime

ClockInit == now = 0

Tick ==
    /\ now < MaxTime
    /\ now' = now + 1
=============================================================================
