---------------------------- MODULE EscrowProofs ----------------------------
(***************************************************************************)
(* Proofs about the escrow contract, for any number of users, escrows,     *)
(* amounts, fees and periods.                                              *)
(*                                                                         *)
(* The invariant is local: a predicate Sound of one escrow record and of   *)
(* the history of that escrow, plus the equation Solvent that ties all     *)
(* the records to the contract's balance.  An entry point that works on    *)
(* one escrow is shown to produce a sound record and to change the balance *)
(* by what the record changed (the lemmas ending in Step); CellStep then   *)
(* re-establishes the invariant for all of them.                           *)
(***************************************************************************)
EXTENDS Escrow, SumsProofs

-----------------------------------------------------------------------------
(* Fee arithmetic.                                                         *)

\* The fee is a natural number, and at most the rate allows.
LEMMA FeeBound ==
    ASSUME NEW amount \in Nat, NEW bps \in Nat
    PROVE  FeeOf(amount, bps) \in Nat /\ FeeOf(amount, bps) * 10000 <= amount * bps
<1>1. amount * bps \in Nat
  OBVIOUS
<1>2. \A x \in Nat : x \div 10000 \in Nat /\ (x \div 10000) * 10000 <= x
  OBVIOUS
<1>3. QED
  BY <1>1, <1>2 DEF FeeOf

\* Charging a fee at a rate not above the agreed one keeps the total fee
\* within the agreed rate.
LEMMA FeeAccumulates ==
    ASSUME NEW agreed \in Nat, NEW bps \in Nat, bps <= agreed,
           NEW toFees \in Nat, NEW toAgent \in Nat, NEW amount \in Nat, NEW fee \in Nat,
           toFees * 10000 <= agreed * (toFees + toAgent),
           fee * 10000 <= amount * bps
    PROVE  (toFees + fee) * 10000 <= agreed * ((toFees + fee) + (toAgent + (amount - fee)))
<1>1. amount * bps <= amount * agreed
  OBVIOUS
<1>2. agreed * ((toFees + toAgent) + amount) = agreed * (toFees + toAgent) + amount * agreed
  OBVIOUS
<1>3. (toFees + fee) * 10000 = toFees * 10000 + fee * 10000
  OBVIOUS
<1>4. (toFees + fee) + (toAgent + (amount - fee)) = (toFees + toAgent) + amount
  OBVIOUS
<1> DEFINE x == agreed * (toFees + toAgent)
           y == amount * agreed
           z == amount * bps
<1>5. x \in Nat /\ y \in Nat /\ z \in Nat
  OBVIOUS
<1>6. toFees * 10000 <= x /\ fee * 10000 <= z /\ z <= y
  BY <1>1
<1>7. agreed * ((toFees + toAgent) + amount) = x + y
  BY <1>2
<1> HIDE DEF x, y, z
<1>8. toFees * 10000 + fee * 10000 <= x + y
  BY <1>5, <1>6
<1>9. QED
  BY <1>3, <1>4, <1>7, <1>8

-----------------------------------------------------------------------------
(* The invariant.                                                          *)

\* What the contract holds for an escrow record, and what has left it.
Kept(r) == IF r.status = "Pending" THEN r.amount ELSE 0

Out(f) == f.toAgent + f.toSender + f.toFees + f.toDispute

\* A record r and its history f agree.
Sound(r, f) ==
    /\ r \in EscrowRecord
    /\ f \in FlowRecord
    /\ f.paidIn = Kept(r) + Out(f)
    /\ r.status = "Pending" => r.amount > 0 /\ r.feeBps <= f.agreedBps
    /\ f.toFees * 10000 <= f.agreedBps * (f.toFees + f.toAgent)

\* The ids above the counter have never been used.
Unused == \A e \in Ids : e > counter => escrows[e] = NoEscrow /\ flow[e] = NoFlow

EscrowInv ==
    /\ EscrowTypeOK
    /\ \A e \in Ids : Sound(escrows[e], flow[e])
    /\ Unused
    /\ Solvent

LEMMA ConstantFacts ==
    /\ MaxTime \in Nat /\ MaxEscrows \in Nat /\ MaxFeeBps \in Nat /\ MaxHoldSecs \in Nat
    /\ ExpirySecs \in Nat /\ Nobody \notin Accounts
    /\ \A f \in 0..MaxFeeBps : f \in Nat
    /\ \A a \in Amounts : a \in Int
<1>1. MaxFeeBps \in Nat /\ ExpirySecs \in Nat /\ MaxHoldSecs \in Nat
  BY EscrowConstants
<1>2. QED
  BY <1>1, EscrowConstants, MaxTimeAssumption

LEMMA NothingIsSound == Sound(NoEscrow, NoFlow)
<1>1. NoEscrow \in EscrowRecord /\ NoFlow \in FlowRecord
  BY ConstantFacts DEF NoEscrow, NoFlow, EscrowRecord, FlowRecord, Statuses
<1>2. QED
  BY <1>1 DEF Sound, Kept, Out, NoEscrow, NoFlow

\* The record of an existing escrow has an id that is not above the counter.
LEMMA ExistsBelowCounter ==
    ASSUME EscrowInv, NEW e \in Ids, escrows[e].status # "None"
    PROVE  ~(e > counter)
BY DEF EscrowInv, Unused, NoEscrow

\* A step on one escrow that stores a sound record and moves as much money as
\* the record says preserves the invariant.
LEMMA CellStep ==
    ASSUME EscrowInv, NEW e \in Ids, escrows[e].status # "None",
           NEW r, NEW f, Store(e, r), Book(e, f), Sound(r, f),
           vault' \in Nat, fees' \in Nat,
           (vault' - fees') - Kept(r) = (vault - fees) - Kept(escrows[e]),
           now' \in 0..MaxTime, counter' = counter, config' \in ConfigRecord,
           link' \in [Ids -> LinkRecord], winner' \in [Ids -> Accounts \cup {Nobody}]
    PROVE  EscrowInv'
<1>1. /\ escrows \in [Ids -> EscrowRecord] /\ flow \in [Ids -> FlowRecord]
      /\ counter \in 0..MaxEscrows /\ vault \in Nat /\ fees \in Nat
      /\ vault = Total(Owed, MaxEscrows) + fees
      /\ \A i \in Ids : Sound(escrows[i], flow[i])
      /\ Unused
  BY DEF EscrowInv, EscrowTypeOK, Solvent
<1>2. escrows' = [escrows EXCEPT ![e] = r] /\ flow' = [flow EXCEPT ![e] = f]
  BY DEF Store, Book
<1>3. r \in EscrowRecord /\ f \in FlowRecord
  BY DEF Sound
<1>4. escrows' \in [Ids -> EscrowRecord] /\ flow' \in [Ids -> FlowRecord]
  BY <1>1, <1>2, <1>3
<1>5. /\ escrows'[e] = r /\ flow'[e] = f
      /\ \A i \in Ids : i # e => escrows'[i] = escrows[i] /\ flow'[i] = flow[i]
  BY <1>1, <1>2
<1>6. EscrowTypeOK'
  BY <1>1, <1>4 DEF EscrowTypeOK, ClockTypeOK
<1>7. \A i \in Ids : Sound(escrows'[i], flow'[i])
  BY <1>1, <1>5
<1>8. Unused'
  BY <1>1, <1>5, ExistsBelowCounter DEF Unused
<1>9. Solvent'
  <2>1. ASSUME NEW i \in Ids
        PROVE  /\ Owed[i] = Kept(escrows[i]) /\ Owed'[i] = Kept(escrows'[i])
               /\ Owed[i] \in Nat /\ Owed'[i] \in Nat
    BY <1>1, <1>4 DEF Owed, Held, Kept, EscrowRecord
  <2>2. MaxEscrows \in Nat /\ e \in 1..MaxEscrows
    BY ConstantFacts DEF Ids
  <2>3. \A i \in 1..MaxEscrows : i # e => Owed'[i] = Owed[i]
    BY <1>5, <2>1 DEF Ids
  <2>4. \A i \in 1..MaxEscrows : Owed[i] \in Nat /\ Owed'[i] \in Nat
    BY <2>1 DEF Ids
  <2>5. Total(Owed', MaxEscrows) = (Total(Owed, MaxEscrows) - Owed[e]) + Owed'[e]
    BY <2>2, <2>3, <2>4, TotalUpdate
  <2>6. Owed[e] = Kept(escrows[e]) /\ Owed'[e] = Kept(r) /\ Owed[e] \in Nat /\ Owed'[e] \in Nat
    BY <1>5, <2>1
  <2>7. Total(Owed, MaxEscrows) \in Nat
    BY <2>2, <2>4, TotalNat
  <2>8. QED
    BY <1>1, <2>5, <2>6, <2>7 DEF Solvent
<1>10. QED
  BY <1>6, <1>7, <1>8, <1>9 DEF EscrowInv

\* A step that moves no money and touches no record.
LEMMA QuietStep ==
    ASSUME EscrowInv, UNCHANGED <<escrows, flow, counter, link, winner>>,
           vault' \in Nat, fees' \in Nat, vault' - fees' = vault - fees,
           now' \in 0..MaxTime, config' \in ConfigRecord
    PROVE  EscrowInv'
<1>1. EscrowTypeOK'
  BY DEF EscrowInv, EscrowTypeOK, ClockTypeOK
<1>2. Unused' /\ \A e \in Ids : Sound(escrows'[e], flow'[e])
  BY DEF EscrowInv, Unused
<1>3. Owed' = Owed
  BY DEF Owed, Held
<1>4. Total(Owed, MaxEscrows) \in Nat
  <2>1. \A i \in 1..MaxEscrows : Owed[i] \in Nat
    BY DEF EscrowInv, EscrowTypeOK, Owed, Held, EscrowRecord, Ids
  <2>2. QED
    BY <2>1, ConstantFacts, TotalNat
<1>5. vault = Total(Owed, MaxEscrows) + fees /\ vault \in Nat /\ fees \in Nat
  BY DEF EscrowInv, Solvent, EscrowTypeOK
<1>6. Solvent'
  BY <1>3, <1>4, <1>5 DEF Solvent
<1>7. QED
  BY <1>1, <1>2, <1>6 DEF EscrowInv

-----------------------------------------------------------------------------
(* One lemma per entry point.                                              *)

\* What the invariant says of one escrow, and the parts of the state that
\* most operations leave alone.
LEMMA InvFacts ==
    ASSUME EscrowInv, NEW e \in Ids
    PROVE  /\ Sound(escrows[e], flow[e])
           /\ escrows[e] \in EscrowRecord /\ flow[e] \in FlowRecord
           /\ escrows[e].amount \in Nat /\ escrows[e].feeBps \in Nat
           /\ vault \in Nat /\ fees \in Nat /\ now \in 0..MaxTime /\ now \in Nat
           /\ config \in ConfigRecord /\ config.feeBps \in 0..MaxFeeBps
           /\ counter \in 0..MaxEscrows /\ counter \in Nat
           /\ link \in [Ids -> LinkRecord] /\ winner \in [Ids -> Accounts \cup {Nobody}]
           /\ flow[e].paidIn \in Nat /\ flow[e].toAgent \in Nat /\ flow[e].toSender \in Nat
           /\ flow[e].toFees \in Nat /\ flow[e].toDispute \in Nat /\ flow[e].agreedBps \in Nat
<1>1. Sound(escrows[e], flow[e]) /\ EscrowTypeOK
  BY DEF EscrowInv
<1>2. escrows[e] \in EscrowRecord /\ flow[e] \in FlowRecord
  BY <1>1 DEF Sound
<1>3. escrows[e].amount \in Nat /\ escrows[e].feeBps \in Nat
  BY <1>2, ConstantFacts DEF EscrowRecord
<1>4. config.feeBps \in 0..MaxFeeBps
  BY <1>1 DEF EscrowTypeOK, ConfigRecord
<1>5. now \in Nat /\ counter \in Nat
  BY <1>1, ConstantFacts DEF EscrowTypeOK, ClockTypeOK
<1>6. QED
  BY <1>1, <1>2, <1>3, <1>4, <1>5 DEF EscrowTypeOK, ClockTypeOK, FlowRecord

\* A fresh escrow is sound: it holds what was paid in, at the platform's fee.
LEMMA NewIsSound ==
    ASSUME EscrowInv, NEW s \in Accounts, NEW p \in Offers, ValidTerms(s, p)
    PROVE  /\ Sound(NewEscrow(s, p), NewFlow(p))
           /\ p.amount \in Nat /\ Kept(NewEscrow(s, p)) = p.amount
           /\ NewEscrow(s, p).status = "Pending"
<1>1. p \in Terms /\ MinAmount \in Nat \ {0} /\ MaxAmount \in Nat
  BY EscrowConstants
<1>2. p.amount \in Nat /\ p.amount > 0 /\ p.recipient \in Accounts /\ p.agent \in Accounts
  BY <1>1 DEF ValidTerms, Terms
<1>3. /\ config.feeBps \in 0..MaxFeeBps /\ config.feeBps \in Nat
      /\ now \in Nat /\ now + ExpirySecs \in Nat
  BY ConstantFacts DEF EscrowInv, EscrowTypeOK, ClockTypeOK, ConfigRecord
<1>4. NewEscrow(s, p) \in EscrowRecord
  BY <1>2, <1>3 DEF NewEscrow, EscrowRecord, Statuses
<1>5. NewFlow(p) = [paidIn |-> p.amount, toAgent |-> 0, toSender |-> 0, toFees |-> 0,
                    toDispute |-> 0, agreedBps |-> config.feeBps]
  BY DEF NewFlow
<1>6. NewFlow(p) \in FlowRecord
  BY <1>2, <1>3, <1>5 DEF FlowRecord
<1>7. NewEscrow(s, p).status = "Pending" /\ Kept(NewEscrow(s, p)) = p.amount
  BY DEF NewEscrow, Kept
<1>8. NewFlow(p).paidIn = Kept(NewEscrow(s, p)) + Out(NewFlow(p))
  BY <1>2, <1>5, <1>7 DEF Out
<1>9. NewFlow(p).toFees * 10000 <= NewFlow(p).agreedBps * (NewFlow(p).toFees + NewFlow(p).toAgent)
  BY <1>3, <1>5
<1>10. NewEscrow(s, p).amount > 0 /\ NewEscrow(s, p).feeBps <= NewFlow(p).agreedBps
  BY <1>2, <1>3, <1>5 DEF NewEscrow
<1>11. QED
  BY <1>2, <1>4, <1>6, <1>7, <1>8, <1>9, <1>10 DEF Sound

\* Writing the block counter+1 .. counter+n of fresh ids and receiving the sum
\* of their amounts preserves the invariant: batch_create_escrow, and
\* create_escrow as the block of length one.
LEMMA BlockStep ==
    ASSUME EscrowInv, NEW n \in Nat, NEW R, NEW F, NEW A,
           counter + n <= MaxEscrows,
           \A i \in 1..n : /\ Sound(R[i], F[i]) /\ R[i].status = "Pending"
                           /\ A[i] = Kept(R[i]) /\ A[i] \in Nat,
           escrows' = [e \in Ids |-> IF e \in counter + 1 .. counter + n
                                     THEN R[e - counter] ELSE escrows[e]],
           flow' = [e \in Ids |-> IF e \in counter + 1 .. counter + n
                                  THEN F[e - counter] ELSE flow[e]],
           counter' = counter + n, vault' = vault + Total(A, n),
           UNCHANGED <<now, fees, config, link, winner>>
    PROVE  EscrowInv'
<1>1. /\ escrows \in [Ids -> EscrowRecord] /\ flow \in [Ids -> FlowRecord]
      /\ counter \in 0..MaxEscrows /\ vault \in Nat /\ fees \in Nat
      /\ vault = Total(Owed, MaxEscrows) + fees
      /\ \A i \in Ids : Sound(escrows[i], flow[i])
      /\ Unused
  BY DEF EscrowInv, EscrowTypeOK, Solvent
<1>2. MaxEscrows \in Nat /\ counter \in Nat
  BY <1>1, ConstantFacts
<1> DEFINE fresh == counter + 1 .. counter + n
<1>3. ASSUME NEW e \in fresh PROVE e - counter \in 1..n /\ e \in Ids /\ e > counter
  BY <1>2, <1>3 DEF Ids
<1>4. \A e \in Ids : /\ e \in fresh => escrows'[e] = R[e - counter] /\ flow'[e] = F[e - counter]
                     /\ e \notin fresh => escrows'[e] = escrows[e] /\ flow'[e] = flow[e]
  OBVIOUS
<1>5. ASSUME NEW e \in Ids PROVE Sound(escrows'[e], flow'[e])
  <2>1. CASE e \in fresh
    BY <1>3, <1>4, <2>1
  <2>2. CASE e \notin fresh
    BY <1>1, <1>4, <2>2
  <2>3. QED
    BY <2>1, <2>2
<1>6. escrows' \in [Ids -> EscrowRecord] /\ flow' \in [Ids -> FlowRecord]
  <2>1. \A e \in Ids : escrows'[e] \in EscrowRecord /\ flow'[e] \in FlowRecord
    BY <1>5 DEF Sound
  <2>2. escrows' = [e \in Ids |-> escrows'[e]] /\ flow' = [e \in Ids |-> flow'[e]]
    OBVIOUS
  <2>3. QED
    BY <2>1, <2>2
<1>7. Total(A, n) \in Nat
  BY TotalNat
<1>8. EscrowTypeOK'
  BY <1>1, <1>2, <1>6, <1>7 DEF EscrowInv, EscrowTypeOK, ClockTypeOK
<1>9. Unused'
  BY <1>1, <1>2, <1>4 DEF Unused, Ids
<1>10. Solvent'
  <2>1. ASSUME NEW i \in Ids
        PROVE  /\ Owed[i] = Kept(escrows[i]) /\ Owed'[i] = Kept(escrows'[i])
               /\ Owed[i] \in Nat /\ Owed'[i] \in Nat
    BY <1>1, <1>6 DEF Owed, Held, Kept, EscrowRecord
  <2>2. \A i \in 1..MaxEscrows : Owed[i] \in Nat /\ Owed'[i] \in Nat
    BY <2>1 DEF Ids
  <2>3. \A i \in 1..MaxEscrows : i \notin fresh => Owed'[i] = Owed[i]
    BY <1>4, <2>1 DEF Ids
  <2>4. \A i \in fresh : Owed[i] = 0
    <3>1. TAKE i \in fresh
    <3>2. escrows[i] = NoEscrow
      BY <1>1, <1>3 DEF Unused
    <3>3. QED
      BY <1>3, <2>1, <3>2 DEF Kept, NoEscrow
  <2>5. \A j \in 1..n : A[j] = Owed'[counter + j]
    <3>1. TAKE j \in 1..n
    <3>2. counter + j \in fresh /\ (counter + j) - counter = j
      BY <1>2
    <3>3. QED
      BY <1>3, <1>4, <2>1, <3>2
  <2>6. Total(Owed', MaxEscrows) = Total(Owed, MaxEscrows) + Total(A, n)
    <3>1. FillsBlock(Owed, Owed', A, counter, n, MaxEscrows)
      BY <2>2, <2>3, <2>4, <2>5 DEF FillsBlock
    <3>2. QED
      BY <1>2, <3>1, TotalBlock
  <2>7. Total(Owed, MaxEscrows) \in Nat
    BY <1>2, <2>2, TotalNat
  <2>8. QED
    BY <1>1, <1>7, <2>6, <2>7 DEF Solvent
<1>11. QED
  BY <1>5, <1>8, <1>9, <1>10 DEF EscrowInv

LEMMA CreateStep ==
    ASSUME EscrowInv, NEW s \in Accounts, NEW p \in Offers, CreateEscrow(s, p)
    PROVE  EscrowInv'
<1> DEFINE R == [i \in 1..1 |-> NewEscrow(s, p)]
           F == [i \in 1..1 |-> NewFlow(p)]
           A == [i \in 1..1 |-> p.amount]
<1>1. /\ Sound(NewEscrow(s, p), NewFlow(p)) /\ p.amount \in Nat
      /\ Kept(NewEscrow(s, p)) = p.amount /\ NewEscrow(s, p).status = "Pending"
  BY NewIsSound DEF CreateEscrow
<1>2. counter \in Nat /\ MaxEscrows \in Nat
      /\ escrows \in [Ids -> EscrowRecord] /\ flow \in [Ids -> FlowRecord]
  BY ConstantFacts DEF EscrowInv, EscrowTypeOK
<1>3. counter + 1 <= MaxEscrows /\ counter' = counter + 1
  BY <1>2 DEF CreateEscrow
<1>4. \A e \in Ids : e \in counter + 1 .. counter + 1 <=> e = counter + 1
  BY <1>2 DEF Ids
<1>5. (counter + 1) - counter = 1 /\ 1 \in 1..1
  BY <1>2
<1>6. escrows' = [e \in Ids |-> IF e \in counter + 1 .. counter + 1
                                THEN R[e - counter] ELSE escrows[e]]
  BY <1>2, <1>4, <1>5 DEF CreateEscrow, Store
<1>7. flow' = [e \in Ids |-> IF e \in counter + 1 .. counter + 1
                             THEN F[e - counter] ELSE flow[e]]
  BY <1>2, <1>4, <1>5 DEF CreateEscrow, Book
<1>8. Total(A, 1) = p.amount
  <2>1. Total(A, 0 + 1) = Total(A, 0) + A[0 + 1] /\ Total(A, 0) = 0
    BY TotalStep, TotalZero
  <2>2. QED
    BY <1>1, <2>1
<1>9. \A i \in 1..1 : /\ Sound(R[i], F[i]) /\ R[i].status = "Pending"
                      /\ A[i] = Kept(R[i]) /\ A[i] \in Nat
  BY <1>1
<1>10. vault' = vault + Total(A, 1) /\ UNCHANGED <<now, fees, config, link, winner>>
  BY <1>8 DEF CreateEscrow
<1> HIDE DEF R, F, A
<1>11. QED
  BY <1>3, <1>6, <1>7, <1>9, <1>10, BlockStep

LEMMA BatchStep ==
    ASSUME EscrowInv, NEW s \in Accounts, NEW n \in 1..MaxBatch,
           NEW ps \in [1..n -> Offers], BatchCreateEscrow(s, n, ps)
    PROVE  EscrowInv'
<1> DEFINE R == [i \in 1..n |-> NewEscrow(s, ps[i])]
           F == [i \in 1..n |-> NewFlow(ps[i])]
           A == [i \in 1..n |-> ps[i].amount]
<1>1. \A i \in 1..n : ps[i] \in Offers /\ ValidTerms(s, ps[i])
  BY DEF BatchCreateEscrow
<1>2. \A i \in 1..n : /\ Sound(R[i], F[i]) /\ R[i].status = "Pending"
                      /\ A[i] = Kept(R[i]) /\ A[i] \in Nat
  BY <1>1, NewIsSound
<1>3. n \in Nat /\ counter \in Nat
  BY DEF EscrowInv, EscrowTypeOK
<1>4. \A e \in counter + 1 .. counter + n : e - counter \in 1..n
  BY <1>3
<1>5. /\ escrows' = [e \in Ids |-> IF e \in counter + 1 .. counter + n
                                   THEN R[e - counter] ELSE escrows[e]]
      /\ flow' = [e \in Ids |-> IF e \in counter + 1 .. counter + n
                                THEN F[e - counter] ELSE flow[e]]
  BY <1>4 DEF BatchCreateEscrow
<1>6. /\ counter + n <= MaxEscrows /\ counter' = counter + n /\ vault' = vault + Total(A, n)
      /\ UNCHANGED <<now, fees, config, link, winner>>
  BY DEF BatchCreateEscrow
<1> HIDE DEF R, F, A
<1>7. QED
  BY <1>2, <1>3, <1>5, <1>6, BlockStep

LEMMA DepositStep ==
    ASSUME EscrowInv, NEW e \in Ids, NEW amount \in Amounts, Deposit(e, amount)
    PROVE  EscrowInv'
<1> DEFINE r == [escrows[e] EXCEPT !.amount = @ + amount]
           f == [flow[e] EXCEPT !.paidIn = @ + amount]
<1>1. amount \in Nat /\ amount > 0 /\ escrows[e].status = "Pending"
  BY ConstantFacts DEF Deposit, IsPending
<1>2. /\ r \in EscrowRecord /\ r.status = "Pending" /\ r.amount = escrows[e].amount + amount
      /\ r.feeBps = escrows[e].feeBps
  BY <1>1, InvFacts DEF EscrowRecord
<1>3. /\ f \in FlowRecord /\ f.paidIn = flow[e].paidIn + amount /\ Out(f) = Out(flow[e])
      /\ f.agreedBps = flow[e].agreedBps /\ f.toFees = flow[e].toFees
      /\ f.toAgent = flow[e].toAgent
  BY <1>1, InvFacts DEF FlowRecord, Out
<1>4. Store(e, r) /\ Book(e, f) /\ vault' = vault + amount
      /\ UNCHANGED <<now, counter, config, link, winner, fees>>
  BY DEF Deposit, KeepsSettings
<1> HIDE DEF r, f
<1>5. Out(flow[e]) \in Nat
  BY InvFacts DEF Out
<1>6. Sound(r, f) /\ Kept(r) = Kept(escrows[e]) + amount /\ Kept(escrows[e]) \in Nat
  BY <1>1, <1>2, <1>3, <1>5, InvFacts DEF Sound, Kept
<1>7. QED
  BY <1>1, <1>4, <1>6, InvFacts, CellStep

\* The shared tail of release_escrow and partial_release, on the records.
LEMMA PayAgentSound ==
    ASSUME EscrowInv, NEW e \in Ids, NEW amount \in Nat, IsPending(e),
           amount <= escrows[e].amount, PayAgent(e, amount),
           NEW r \in EscrowRecord, Kept(r) = escrows[e].amount - amount,
           r.status = "Pending" => r.amount > 0 /\ r.feeBps = escrows[e].feeBps
    PROVE  \E f : /\ Book(e, f) /\ Sound(r, f) /\ vault' \in Nat /\ fees' \in Nat
                  /\ (vault' - fees') - Kept(r) = (vault - fees) - Kept(escrows[e])
<1> DEFINE fee == FeeOf(amount, escrows[e].feeBps)
           f == [flow[e] EXCEPT !.toAgent = @ + (amount - fee), !.toFees = @ + fee]
<1>1. fee \in Nat /\ fee * 10000 <= amount * escrows[e].feeBps
  <2>1. escrows[e].feeBps \in Nat
    BY InvFacts
  <2>2. PICK bps \in Nat : bps = escrows[e].feeBps
    BY <2>1
  <2>3. FeeOf(amount, bps) \in Nat /\ FeeOf(amount, bps) * 10000 <= amount * bps
    BY ONLY amount \in Nat, bps \in Nat, FeeBound
  <2>4. QED
    BY <2>2, <2>3
<1>2. /\ amount - fee > 0 /\ amount - fee <= vault
      /\ fees' = fees + fee /\ vault' = vault - (amount - fee) /\ Book(e, f)
  BY DEF PayAgent
<1> HIDE DEF fee
<1>3. amount - fee \in Nat
  BY <1>1, <1>2
<1>4. /\ f \in FlowRecord /\ f.paidIn = flow[e].paidIn /\ f.agreedBps = flow[e].agreedBps
      /\ f.toFees = flow[e].toFees + fee /\ f.toAgent = flow[e].toAgent + (amount - fee)
      /\ f.toSender = flow[e].toSender /\ f.toDispute = flow[e].toDispute
  <2>1. flow[e] \in FlowRecord
    BY InvFacts
  <2>2. PICK x \in Nat, y \in Nat : x = flow[e].toAgent + (amount - fee)
                                    /\ y = flow[e].toFees + fee
    BY <1>1, <1>3, InvFacts
  <2>3. f = [flow[e] EXCEPT !.toAgent = x, !.toFees = y]
    BY <2>2
  <2> HIDE DEF f
  <2>4. f \in FlowRecord
    BY <2>1, <2>2, <2>3 DEF FlowRecord
  <2>5. /\ f.paidIn = flow[e].paidIn /\ f.agreedBps = flow[e].agreedBps
        /\ f.toSender = flow[e].toSender /\ f.toDispute = flow[e].toDispute
    BY <2>1, <2>3 DEF FlowRecord
  <2>6. f.toFees = y /\ f.toAgent = x
    BY <2>1, <2>3 DEF FlowRecord
  <2>7. QED
    BY <2>2, <2>4, <2>5, <2>6
<1> HIDE DEF f
<1>5. Kept(escrows[e]) = escrows[e].amount /\ escrows[e].feeBps <= flow[e].agreedBps
      /\ flow[e].paidIn = Kept(escrows[e]) + Out(flow[e])
      /\ flow[e].toFees * 10000 <= flow[e].agreedBps * (flow[e].toFees + flow[e].toAgent)
  BY InvFacts DEF Sound, Kept, IsPending
<1>6. f.paidIn = Kept(r) + Out(f)
  BY <1>1, <1>3, <1>4, <1>5, InvFacts DEF Out
<1>7. f.toFees * 10000 <= f.agreedBps * (f.toFees + f.toAgent)
  <2>1. /\ flow[e].agreedBps \in Nat /\ escrows[e].feeBps \in Nat
        /\ flow[e].toFees \in Nat /\ flow[e].toAgent \in Nat
    BY InvFacts
  <2>2. (flow[e].toFees + fee) * 10000
        <= flow[e].agreedBps * ((flow[e].toFees + fee) + (flow[e].toAgent + (amount - fee)))
    BY <1>1, <1>5, <2>1, FeeAccumulates
  <2>3. QED
    BY <1>4, <2>2
<1>8. r.status = "Pending" => r.amount > 0 /\ r.feeBps <= f.agreedBps
  BY <1>4, <1>5
<1>9. Sound(r, f)
  BY <1>4, <1>6, <1>7, <1>8 DEF Sound
<1>10. vault' \in Nat /\ fees' \in Nat
  BY <1>1, <1>2, <1>3, InvFacts
<1>11. (vault' - fees') - Kept(r) = (vault - fees) - Kept(escrows[e])
  BY <1>1, <1>2, <1>3, <1>5, InvFacts
<1>12. QED
  BY <1>2, <1>9, <1>10, <1>11

LEMMA ReleaseStep ==
    ASSUME EscrowInv, NEW a \in Accounts, NEW e \in Ids, ReleaseEscrow(a, e)
    PROVE  EscrowInv'
<1> DEFINE r == [escrows[e] EXCEPT !.status = "Released", !.updatedAt = now]
<1>1. r \in EscrowRecord /\ r.status = "Released"
  BY InvFacts, ZenonT(30) DEF EscrowRecord, Statuses
<1>2. /\ Store(e, r) /\ PayAgent(e, escrows[e].amount) /\ IsPending(e)
      /\ UNCHANGED <<now, counter, config, link, winner>>
  BY DEF ReleaseEscrow, KeepsSettings
<1> HIDE DEF r
<1>3. Kept(r) = escrows[e].amount - escrows[e].amount
  BY <1>1, InvFacts DEF Kept
<1>4. PICK f : /\ Book(e, f) /\ Sound(r, f) /\ vault' \in Nat /\ fees' \in Nat
               /\ (vault' - fees') - Kept(r) = (vault - fees) - Kept(escrows[e])
  BY <1>1, <1>2, <1>3, InvFacts, PayAgentSound
<1>5. QED
  BY <1>2, <1>4, InvFacts, CellStep DEF IsPending

LEMMA PartialReleaseStep ==
    ASSUME EscrowInv, NEW a \in Accounts, NEW e \in Ids, NEW amount \in Amounts,
           PartialRelease(a, e, amount)
    PROVE  EscrowInv'
<1> DEFINE st == IF amount = escrows[e].amount THEN "Released" ELSE escrows[e].status
           r == [escrows[e] EXCEPT !.amount = @ - amount, !.status = st, !.updatedAt = now]
<1>1. /\ amount \in Nat /\ amount > 0 /\ amount <= escrows[e].amount
      /\ IsPending(e) /\ escrows[e].status = "Pending"
  BY ConstantFacts DEF PartialRelease, IsPending
<1>2. st \in Statuses /\ escrows[e].amount - amount \in Nat
  BY <1>1, InvFacts DEF Statuses
<1>3. Store(e, r) /\ PayAgent(e, amount) /\ UNCHANGED <<now, counter, config, link, winner>>
  BY DEF PartialRelease, KeepsSettings
<1>4. st = "Released" <=> amount = escrows[e].amount
  BY <1>1
<1>5. st # "Released" => st = "Pending"
  BY <1>1
<1> HIDE DEF st
<1>6. /\ r \in EscrowRecord /\ r.status = st /\ r.feeBps = escrows[e].feeBps
      /\ r.amount = escrows[e].amount - amount
  BY <1>2, InvFacts DEF EscrowRecord
<1> HIDE DEF r
<1>7. Kept(r) = escrows[e].amount - amount
  BY <1>1, <1>4, <1>5, <1>6, InvFacts DEF Kept
<1>8. r.status = "Pending" => r.amount > 0 /\ r.feeBps = escrows[e].feeBps
  BY <1>1, <1>4, <1>6, InvFacts
<1>9. PICK f : /\ Book(e, f) /\ Sound(r, f) /\ vault' \in Nat /\ fees' \in Nat
               /\ (vault' - fees') - Kept(r) = (vault - fees) - Kept(escrows[e])
  BY <1>1, <1>3, <1>6, <1>7, <1>8, PayAgentSound
<1>10. QED
  BY <1>1, <1>3, <1>9, InvFacts, CellStep

\* A step that rewrites one record without moving money.
LEMMA RecordStep ==
    ASSUME EscrowInv, NEW e \in Ids, escrows[e].status # "None",
           NEW r \in EscrowRecord, Store(e, r), Kept(r) = Kept(escrows[e]),
           r.status = "Pending" => r.amount > 0 /\ r.feeBps <= flow[e].agreedBps,
           UNCHANGED <<now, counter, fees, vault, config, flow>>,
           link' \in [Ids -> LinkRecord], winner' \in [Ids -> Accounts \cup {Nobody}]
    PROVE  EscrowInv'
<1>1. Sound(r, flow[e])
  BY InvFacts DEF Sound
<1>2. Book(e, flow[e])
  BY DEF Book, EscrowInv, EscrowTypeOK
<1>3. QED
  BY <1>1, <1>2, InvFacts, CellStep

LEMMA ConfirmStep ==
    ASSUME EscrowInv, NEW a \in Accounts, NEW e \in Ids, ConfirmDelivery(a, e)
    PROVE  EscrowInv'
<1> DEFINE r == [escrows[e] EXCEPT !.confirmed = TRUE, !.updatedAt = now]
<1>1. /\ r \in EscrowRecord /\ r.status = escrows[e].status /\ r.amount = escrows[e].amount
      /\ r.feeBps = escrows[e].feeBps
  BY InvFacts DEF EscrowRecord
<1>2. /\ Store(e, r) /\ IsPending(e)
      /\ UNCHANGED <<now, counter, config, link, winner, fees, vault, flow>>
  BY DEF ConfirmDelivery, KeepsSettings
<1> HIDE DEF r
<1>3. Kept(r) = Kept(escrows[e])
  BY <1>1 DEF Kept
<1>4. r.status = "Pending" => r.amount > 0 /\ r.feeBps <= flow[e].agreedBps
  <2>1. Sound(escrows[e], flow[e])
    BY InvFacts
  <2>2. QED
    BY <1>1, <2>1 DEF Sound
<1>5. QED
  BY <1>1, <1>2, <1>3, <1>4, InvFacts, RecordStep DEF IsPending

LEMMA UpdateFeeStep ==
    ASSUME EscrowInv, NEW e \in Ids, NEW bps \in Fees, UpdateFee(e, bps)
    PROVE  EscrowInv'
<1> DEFINE r == [escrows[e] EXCEPT !.feeBps = bps]
<1>1. bps \in Nat /\ bps <= MaxFeeBps /\ bps \in 0..MaxFeeBps
  BY EscrowConstants DEF UpdateFee
<1>2. /\ r \in EscrowRecord /\ r.status = escrows[e].status /\ r.amount = escrows[e].amount
      /\ r.feeBps = bps
  BY <1>1, InvFacts DEF EscrowRecord
<1>3. /\ Store(e, r) /\ IsPending(e) /\ bps <= escrows[e].feeBps
      /\ UNCHANGED <<now, counter, config, link, winner, fees, vault, flow>>
  BY DEF UpdateFee, KeepsSettings
<1> HIDE DEF r
<1>4. Kept(r) = Kept(escrows[e])
  BY <1>2 DEF Kept
<1>5. r.status = "Pending" => r.amount > 0 /\ r.feeBps <= flow[e].agreedBps
  BY <1>1, <1>2, <1>3, InvFacts DEF Sound, IsPending
<1>6. QED
  BY <1>2, <1>3, <1>4, <1>5, InvFacts, RecordStep DEF IsPending

LEMMA CloseDisputedStep ==
    ASSUME EscrowInv, NEW c, NEW e \in Ids, NEW w \in Accounts,
           CloseDisputed(c, e, w), now' = now
    PROVE  EscrowInv'
<1> DEFINE st == IF w = escrows[e].sender THEN "Cancelled" ELSE "Released"
           r == [escrows[e] EXCEPT !.status = st, !.updatedAt = now]
<1>1. st \in Statuses /\ st # "Pending"
  BY DEF Statuses
<1>2. /\ Store(e, r) /\ escrows[e].status = "UnderDispute"
      /\ winner' = [winner EXCEPT ![e] = w]
      /\ UNCHANGED <<now, counter, config, link, fees, vault, flow>>
  BY DEF CloseDisputed
<1> HIDE DEF st
<1>3. r \in EscrowRecord /\ r.status = st
  BY <1>1, InvFacts DEF EscrowRecord
<1> HIDE DEF r
<1>4. Kept(r) = Kept(escrows[e])
  BY <1>1, <1>2, <1>3 DEF Kept
<1>5. winner' \in [Ids -> Accounts \cup {Nobody}]
  BY <1>2, InvFacts
<1>6. QED
  BY <1>1, <1>2, <1>3, <1>4, <1>5, InvFacts, RecordStep

LEMMA CleanupStep ==
    ASSUME EscrowInv, NEW e \in Ids, CleanupEscrow(e)
    PROVE  EscrowInv'
<1>1. /\ Store(e, NoEscrow) /\ escrows[e].status \in {"Released", "Cancelled"}
      /\ link' = [link EXCEPT ![e] = NoLink] /\ winner' = [winner EXCEPT ![e] = Nobody]
      /\ UNCHANGED <<now, counter, fees, vault, config, flow>>
  BY DEF CleanupEscrow
<1>2. NoEscrow \in EscrowRecord /\ NoEscrow.status = "None"
  BY NothingIsSound DEF Sound, NoEscrow
<1>3. Kept(NoEscrow) = Kept(escrows[e])
  BY <1>1, <1>2 DEF Kept
<1>4. link' \in [Ids -> LinkRecord] /\ winner' \in [Ids -> Accounts \cup {Nobody}]
  <2>1. NoLink \in LinkRecord
    BY DEF NoLink, LinkRecord
  <2>2. QED
    BY <1>1, <2>1, InvFacts
<1>5. QED
  BY <1>1, <1>2, <1>3, <1>4, RecordStep

\* The whole amount of a pending escrow leaves for the sender or the dispute
\* contract, and the record is no longer pending.
LEMMA PayOutAllStep ==
    ASSUME EscrowInv, NEW e \in Ids, IsPending(e),
           NEW r \in EscrowRecord, r.status # "Pending", Store(e, r),
           NEW f \in FlowRecord, Book(e, f),
           Out(f) = Out(flow[e]) + escrows[e].amount, f.paidIn = flow[e].paidIn,
           f.toFees = flow[e].toFees, f.toAgent = flow[e].toAgent,
           f.agreedBps = flow[e].agreedBps,
           escrows[e].amount <= vault, vault' = vault - escrows[e].amount,
           UNCHANGED <<now, counter, fees, config, winner>>, link' \in [Ids -> LinkRecord]
    PROVE  EscrowInv'
<1>1. Kept(r) = 0 /\ Kept(escrows[e]) = escrows[e].amount
  BY DEF Kept, IsPending
<1>2. Out(flow[e]) \in Nat
  BY InvFacts DEF Out
<1>3. Sound(r, f)
  <2>1. /\ flow[e].paidIn = Kept(escrows[e]) + Out(flow[e])
        /\ flow[e].toFees * 10000 <= flow[e].agreedBps * (flow[e].toFees + flow[e].toAgent)
    BY InvFacts DEF Sound
  <2>2. f.paidIn = Kept(r) + Out(f)
    BY <1>1, <1>2, <2>1, InvFacts
  <2>3. f.toFees * 10000 <= f.agreedBps * (f.toFees + f.toAgent)
    BY <2>1
  <2>4. QED
    BY <2>2, <2>3 DEF Sound
<1>4. vault' \in Nat /\ (vault' - fees') - Kept(r) = (vault - fees) - Kept(escrows[e])
  BY <1>1, InvFacts
<1>5. QED
  BY <1>3, <1>4, InvFacts, CellStep DEF IsPending

LEMMA RefundStep ==
    ASSUME EscrowInv, NEW e \in Ids, IsPending(e), RefundSender(e),
           NEW r \in EscrowRecord, r.status # "Pending", Store(e, r)
    PROVE  EscrowInv'
<1> DEFINE f == [flow[e] EXCEPT !.toSender = @ + escrows[e].amount]
<1>1. /\ f \in FlowRecord /\ f.paidIn = flow[e].paidIn /\ f.toFees = flow[e].toFees
      /\ f.toAgent = flow[e].toAgent /\ f.agreedBps = flow[e].agreedBps
      /\ f.toSender = flow[e].toSender + escrows[e].amount /\ f.toDispute = flow[e].toDispute
  BY InvFacts DEF FlowRecord
<1>2. /\ escrows[e].amount <= vault /\ vault' = vault - escrows[e].amount /\ Book(e, f)
      /\ UNCHANGED <<now, counter, fees, config, winner, link>>
  BY DEF RefundSender, KeepsSettings
<1> HIDE DEF f
<1>3. Out(f) = Out(flow[e]) + escrows[e].amount
  BY <1>1, InvFacts DEF Out
<1>4. QED
  BY <1>1, <1>2, <1>3, InvFacts, PayOutAllStep

LEMMA CancelStep ==
    ASSUME EscrowInv, NEW a \in Accounts, NEW e \in Ids, CancelEscrow(a, e)
    PROVE  EscrowInv'
<1> DEFINE r == [escrows[e] EXCEPT !.status = "Cancelled", !.updatedAt = now]
<1>1. r \in EscrowRecord /\ r.status = "Cancelled"
  BY InvFacts, ZenonT(30) DEF EscrowRecord, Statuses
<1>2. IsPending(e) /\ RefundSender(e) /\ Store(e, r)
  BY DEF CancelEscrow
<1> HIDE DEF r
<1>3. QED
  BY <1>1, <1>2, RefundStep

LEMMA ExpireStep ==
    ASSUME EscrowInv, NEW e \in Ids, ExpireEscrow(e)
    PROVE  EscrowInv'
<1> DEFINE r == [escrows[e] EXCEPT !.status = "Cancelled"]
<1>1. r \in EscrowRecord /\ r.status = "Cancelled"
  BY InvFacts DEF EscrowRecord, Statuses
<1>2. IsPending(e) /\ RefundSender(e) /\ Store(e, r)
  BY DEF ExpireEscrow
<1> HIDE DEF r
<1>3. QED
  BY <1>1, <1>2, RefundStep

LEMMA MarkDisputedStep ==
    ASSUME EscrowInv, NEW a \in Accounts, NEW e \in Ids, NEW id \in Nat,
           MarkDisputed(a, e, id), now' = now
    PROVE  EscrowInv'
<1> DEFINE r == [escrows[e] EXCEPT !.status = "UnderDispute", !.updatedAt = now]
           f == [flow[e] EXCEPT !.toDispute = @ + escrows[e].amount]
<1>1. r \in EscrowRecord /\ r.status = "UnderDispute"
  BY InvFacts, ZenonT(30) DEF EscrowRecord, Statuses
<1>2. /\ f \in FlowRecord /\ f.paidIn = flow[e].paidIn /\ f.toFees = flow[e].toFees
      /\ f.toAgent = flow[e].toAgent /\ f.agreedBps = flow[e].agreedBps
      /\ f.toSender = flow[e].toSender /\ f.toDispute = flow[e].toDispute + escrows[e].amount
  BY InvFacts DEF FlowRecord
<1>3. /\ IsPending(e) /\ Store(e, r) /\ Book(e, f)
      /\ escrows[e].amount <= vault /\ vault' = vault - escrows[e].amount
      /\ link' = [link EXCEPT ![e] = [contract |-> config.court, id |-> id]]
      /\ UNCHANGED <<now, counter, fees, config, winner>>
  BY DEF MarkDisputed
<1> HIDE DEF r, f
<1>4. Out(f) = Out(flow[e]) + escrows[e].amount
  BY <1>2, InvFacts DEF Out
<1>5. link' \in [Ids -> LinkRecord]
  <2>1. config.court \in DisputeContracts \cup {Nobody}
    BY InvFacts DEF ConfigRecord
  <2>2. QED
    BY <1>3, <2>1, InvFacts DEF LinkRecord
<1>6. QED
  BY <1>1, <1>2, <1>3, <1>4, <1>5, PayOutAllStep

LEMMA WithdrawStep ==
    ASSUME EscrowInv, NEW amount \in Takings, WithdrawFees(amount)
    PROVE  EscrowInv'
<1>1. amount \in Int
  BY EscrowConstants
<1>2. /\ amount > 0 /\ amount <= fees /\ amount <= vault
      /\ fees' = fees - amount /\ vault' = vault - amount
      /\ UNCHANGED <<now, counter, config, link, winner, escrows, flow>>
  BY DEF WithdrawFees, KeepsSettings
<1>3. vault \in Nat /\ fees \in Nat /\ now \in 0..MaxTime /\ config \in ConfigRecord
  BY DEF EscrowInv, EscrowTypeOK, ClockTypeOK
<1>4. QED
  BY <1>1, <1>2, <1>3, QuietStep

\* A setting that stays in its range disturbs nothing.
LEMMA ConfigureStep ==
    ASSUME EscrowInv, NEW field, NEW value, Configure(field, value),
           [config EXCEPT ![field] = value] \in ConfigRecord
    PROVE  EscrowInv'
<1>1. vault \in Nat /\ fees \in Nat /\ now \in 0..MaxTime
  BY DEF EscrowInv, EscrowTypeOK, ClockTypeOK
<1>2. QED
  BY <1>1, QuietStep DEF Configure

LEMMA AdministerStep ==
    ASSUME EscrowInv, Administer
    PROVE  EscrowInv'
<1>1. config \in ConfigRecord
  BY DEF EscrowInv, EscrowTypeOK
<1>2. ASSUME NEW e \in Ids, NEW bps \in Fees, UpdateFee(e, bps) PROVE EscrowInv'
  BY <1>2, UpdateFeeStep
<1>3. ASSUME NEW amount \in Takings, WithdrawFees(amount) PROVE EscrowInv'
  BY <1>3, WithdrawStep
<1>4. ASSUME NEW bps \in Fees, SetFeeBps(bps) PROVE EscrowInv'
  <2>1. bps \in 0..MaxFeeBps
    BY <1>4, EscrowConstants DEF SetFeeBps
  <2>2. [config EXCEPT !["feeBps"] = bps] \in ConfigRecord
    BY <1>1, <2>1 DEF ConfigRecord
  <2>3. QED
    BY <1>4, <2>2, ConfigureStep DEF SetFeeBps
<1>5. ASSUME NEW secs \in Periods, SetCancelHoldPeriod(secs) PROVE EscrowInv'
  <2>1. secs \in 0..MaxHoldSecs
    BY <1>5, EscrowConstants DEF SetCancelHoldPeriod
  <2>2. [config EXCEPT !["holdSecs"] = secs] \in ConfigRecord
    BY <1>1, <2>1 DEF ConfigRecord
  <2>3. QED
    BY <1>5, <2>2, ConfigureStep DEF SetCancelHoldPeriod
<1>6. ASSUME NEW secs \in Periods, SetRetentionPeriod(secs) PROVE EscrowInv'
  <2>1. secs \in Nat
    BY EscrowConstants
  <2>2. [config EXCEPT !["retention"] = secs] \in ConfigRecord
    BY <1>1, <2>1 DEF ConfigRecord
  <2>3. QED
    BY <1>6, <2>2, ConfigureStep DEF SetRetentionPeriod
<1>7. ASSUME SetKycContract \/ ClearKycContract \/ Pause \/ Unpause PROVE EscrowInv'
  <2>1. \A b \in BOOLEAN : /\ [config EXCEPT !["kyc"] = b] \in ConfigRecord
                           /\ [config EXCEPT !["paused"] = b] \in ConfigRecord
    BY <1>1 DEF ConfigRecord
  <2>2. QED
    BY <1>7, <2>1, ConfigureStep DEF SetKycContract, ClearKycContract, Pause, Unpause
<1>8. ASSUME NEW c \in DisputeContracts, SetDisputeContract(c) PROVE EscrowInv'
  <2>1. [config EXCEPT !["court"] = c] \in ConfigRecord
    BY <1>1 DEF ConfigRecord
  <2>2. QED
    BY <1>8, <2>1, ConfigureStep DEF SetDisputeContract
<1>9. QED
  BY <1>2, <1>3, <1>4, <1>5, <1>6, <1>7, <1>8 DEF Administer

LEMMA SettleStep ==
    ASSUME EscrowInv, NEW e \in Ids, Settle(e)
    PROVE  EscrowInv'
BY ReleaseStep, PartialReleaseStep, ConfirmStep, CancelStep, ExpireStep, CleanupStep
   DEF Settle

LEMMA LitigateStep ==
    ASSUME EscrowInv, NEW e \in Ids, Litigate(e)
    PROVE  EscrowInv'
<1>1. ASSUME NEW a \in Accounts, DisputeEscrow(a, e) PROVE EscrowInv'
  BY <1>1, EscrowConstants, MarkDisputedStep DEF DisputeEscrow
<1>2. ASSUME NEW a \in Accounts, NEW c \in DisputeContracts, CloseDisputedEscrow(c, e, a)
      PROVE  EscrowInv'
  BY <1>2, CloseDisputedStep DEF CloseDisputedEscrow
<1>3. QED
  BY <1>1, <1>2 DEF Litigate

-----------------------------------------------------------------------------
(* The theorems.                                                           *)

\* The contract starts with nothing held and nothing owed.
LEMMA InitSound == EscrowInit => EscrowInv
<1> SUFFICES ASSUME EscrowInit PROVE EscrowInv
  OBVIOUS
<1>1. NoEscrow \in EscrowRecord /\ NoFlow \in FlowRecord /\ Sound(NoEscrow, NoFlow)
  BY NothingIsSound DEF Sound
<1>2. config \in ConfigRecord
  <2>1. DefaultFeeBps \in 0..MaxFeeBps /\ DefaultHoldSecs \in 0..MaxHoldSecs
        /\ DefaultRetention \in Nat
    BY EscrowConstants
  <2>2. QED
    BY <2>1 DEF EscrowInit, ConfigRecord
<1>3. NoLink \in LinkRecord
  BY DEF NoLink, LinkRecord
<1>4. 0 \in 0..MaxTime /\ 0 \in 0..MaxEscrows
  BY ConstantFacts
<1>5. EscrowTypeOK
  BY <1>1, <1>2, <1>3, <1>4 DEF EscrowInit, EscrowTypeOK, ClockInit, ClockTypeOK
<1>6. Unused /\ \A e \in Ids : Sound(escrows[e], flow[e])
  BY <1>1 DEF EscrowInit, Unused
<1>7. Solvent
  <2>1. \A i \in 1..MaxEscrows : Owed[i] = 0
    BY DEF EscrowInit, Owed, Held, NoEscrow, Ids
  <2>2. Total(Owed, MaxEscrows) = 0
    BY <2>1, ConstantFacts, TotalOfZeros
  <2>3. QED
    BY <2>2 DEF EscrowInit, Solvent
<1>8. QED
  BY <1>5, <1>6, <1>7 DEF EscrowInv

\* Every step of the contract, and the passing of time, preserves it.
LEMMA NextSound == EscrowInv /\ [EscrowNext]_vars => EscrowInv'
<1> SUFFICES ASSUME EscrowInv, [EscrowNext]_vars PROVE EscrowInv'
  OBVIOUS
<1>1. vault \in Nat /\ fees \in Nat /\ now \in 0..MaxTime /\ config \in ConfigRecord
  BY DEF EscrowInv, EscrowTypeOK, ClockTypeOK
<1>2. CASE Tick /\ UNCHANGED escrowVars
  <2>1. now' \in 0..MaxTime
    BY <1>1, <1>2, ConstantFacts DEF Tick
  <2>2. QED
    BY <1>1, <1>2, <2>1, QuietStep DEF escrowVars
<1>3. CASE Fund
  BY <1>3, CreateStep, BatchStep, DepositStep DEF Fund
<1>4. ASSUME NEW e \in Ids, Settle(e) \/ Litigate(e) PROVE EscrowInv'
  BY <1>4, SettleStep, LitigateStep
<1>5. CASE Administer
  BY <1>5, AdministerStep
<1>6. CASE UNCHANGED vars
  BY <1>1, <1>6, QuietStep DEF vars, escrowVars
<1>7. QED
  BY <1>2, <1>3, <1>4, <1>5, <1>6 DEF EscrowNext

\* The inductive invariant holds in every reachable state.
THEOREM EscrowInvariant == EscrowSpec => []EscrowInv
BY InitSound, NextSound, PTL DEF EscrowSpec

\* Type correctness of the escrow contract's storage and balance.
THEOREM EscrowTypeCorrect == EscrowSpec => []EscrowTypeOK
<1>1. EscrowInv => EscrowTypeOK
  BY DEF EscrowInv
<1>2. QED
  BY <1>1, EscrowInvariant, PTL

\* The escrow contract always holds exactly what it owes: its USDC balance is
\* the sum of the pending escrows plus the accumulated fees.
THEOREM EscrowSolvent == EscrowSpec => []Solvent
<1>1. EscrowInv => Solvent
  BY DEF EscrowInv
<1>2. QED
  BY <1>1, EscrowInvariant, PTL

\* No path through the entry points loses or creates money in an escrow.
THEOREM EscrowFlowsBalance == EscrowSpec => []FlowsBalance
<1>1. EscrowInv => FlowsBalance
  BY DEF EscrowInv, FlowsBalance, Sound, Held, Kept, PaidOut, Out
<1>2. QED
  BY <1>1, EscrowInvariant, PTL

\* The platform never takes more than the rate agreed at creation, over any
\* number of partial releases and fee changes.
THEOREM EscrowFeeBounded == EscrowSpec => []FeeNeverAboveAgreed
<1>1. EscrowInv => FeeNeverAboveAgreed
  BY DEF EscrowInv, FeeNeverAboveAgreed, Sound
<1>2. QED
  BY <1>1, EscrowInvariant, PTL

\* An escrow that can still be disputed has something in it.
THEOREM EscrowPendingFunded == EscrowSpec => []PendingIsFunded
<1>1. EscrowInv => PendingIsFunded
  BY DEF EscrowInv, PendingIsFunded, Sound, IsPending
<1>2. QED
  BY <1>1, EscrowInvariant, PTL
-----------------------------------------------------------------------------
(* When money leaves.                                                      *)

\* What a step must not do to escrow e too late or too early.
Timely(e) ==
    /\ flow'[e].toAgent # flow[e].toAgent => now < escrows[e].expiresAt
    /\ flow'[e].toSender # flow[e].toSender /\ escrows[e].confirmed
          => now > escrows[e].expiresAt

\* A step that books on one escrow is timely if it is for that one.
LEMMA BooksOne ==
    ASSUME EscrowInv, NEW e \in Ids, NEW record,
           Book(e, record),
           record.toAgent # flow[e].toAgent => now < escrows[e].expiresAt,
           record.toSender # flow[e].toSender /\ escrows[e].confirmed
              => now > escrows[e].expiresAt
    PROVE  \A i \in Ids : Timely(i)
<1>1. flow \in [Ids -> FlowRecord]
  BY DEF EscrowInv, EscrowTypeOK
<1> QED
  BY <1>1 DEF Book, Timely

LEMMA PayAgentTimely ==
    ASSUME EscrowInv, NEW e \in Ids, NEW amount, PayAgent(e, amount), ~EscrowExpired(e)
    PROVE  \A i \in Ids : Timely(i)
<1>1. /\ flow[e] \in FlowRecord /\ now \in Nat /\ escrows[e].expiresAt \in Nat
  BY InvFacts, ConstantFacts DEF EscrowRecord
<1>2. PICK record : /\ Book(e, record)
                    /\ record = [flow[e] EXCEPT
                          !.toAgent = @ + (amount - FeeOf(amount, escrows[e].feeBps)),
                          !.toFees = @ + FeeOf(amount, escrows[e].feeBps)]
  BY DEF PayAgent
<1>3. record.toSender = flow[e].toSender
  BY <1>1, <1>2 DEF FlowRecord
<1>4. now < escrows[e].expiresAt
  BY <1>1 DEF EscrowExpired
<1> QED
  BY <1>2, <1>3, <1>4, BooksOne

LEMMA RefundTimely ==
    ASSUME EscrowInv, NEW e \in Ids, RefundSender(e),
           escrows[e].confirmed => now > escrows[e].expiresAt
    PROVE  \A i \in Ids : Timely(i)
<1>1. flow[e] \in FlowRecord
  BY InvFacts
<1>2. PICK record : /\ Book(e, record)
                    /\ record = [flow[e] EXCEPT !.toSender = @ + escrows[e].amount]
  BY DEF RefundSender
<1>3. record.toAgent = flow[e].toAgent
  BY <1>1, <1>2 DEF FlowRecord
<1> QED
  BY <1>2, <1>3, BooksOne

\* New escrows have had no payout, and funding one is none.
LEMMA FundTimely ==
    ASSUME EscrowInv, Fund PROVE \A i \in Ids : Timely(i)
<1>1. /\ flow \in [Ids -> FlowRecord] /\ counter \in Nat
      /\ \A i \in Ids : i > counter => flow[i].toAgent = 0 /\ flow[i].toSender = 0
  BY ConstantFacts DEF EscrowInv, EscrowTypeOK, Unused, NoFlow
<1>2. ASSUME NEW s \in Accounts, NEW p \in Offers, CreateEscrow(s, p)
      PROVE  \A i \in Ids : Timely(i)
  <2>1. \A i \in Ids : \/ flow'[i] = flow[i]
                       \/ i = counter + 1 /\ flow'[i] = NewFlow(p)
    BY <1>1, <1>2 DEF CreateEscrow, Book
  <2> QED
    BY <1>1, <2>1 DEF Timely, NewFlow
<1>3. ASSUME NEW s \in Accounts, NEW n \in 1..MaxBatch, NEW ps \in [1..n -> Offers],
             BatchCreateEscrow(s, n, ps)
      PROVE  \A i \in Ids : Timely(i)
  <2>1. \A i \in Ids : \/ flow'[i] = flow[i]
                       \/ i > counter /\ flow'[i] = NewFlow(ps[i - counter])
    BY <1>1, <1>3 DEF BatchCreateEscrow
  <2>2. \A p : NewFlow(p).toAgent = 0 /\ NewFlow(p).toSender = 0
    BY DEF NewFlow
  <2> QED
    BY <1>1, <2>1, <2>2 DEF Timely
<1>4. ASSUME NEW e \in Ids, NEW amount \in Amounts, Deposit(e, amount)
      PROVE  \A i \in Ids : Timely(i)
  <2>1. PICK record : Book(e, record) /\ record = [flow[e] EXCEPT !.paidIn = @ + amount]
    BY <1>4 DEF Deposit
  <2>2. record.toAgent = flow[e].toAgent /\ record.toSender = flow[e].toSender
    BY <1>1, <2>1 DEF FlowRecord
  <2> QED
    BY <2>1, <2>2, BooksOne
<1> QED
  BY <1>2, <1>3, <1>4 DEF Fund

LEMMA SettleTimely ==
    ASSUME EscrowInv, NEW e \in Ids, Settle(e) \/ Litigate(e)
    PROVE  \A i \in Ids : Timely(i)
<1>1. ASSUME NEW a \in Accounts, ReleaseEscrow(a, e) PROVE \A i \in Ids : Timely(i)
  BY <1>1, PayAgentTimely DEF ReleaseEscrow
<1>2. ASSUME NEW a \in Accounts, NEW amount \in Amounts, PartialRelease(a, e, amount)
      PROVE  \A i \in Ids : Timely(i)
  BY <1>2, PayAgentTimely DEF PartialRelease
<1>3. ASSUME NEW a \in Accounts, CancelEscrow(a, e) PROVE \A i \in Ids : Timely(i)
  BY <1>3, RefundTimely DEF CancelEscrow
<1>4. ASSUME ExpireEscrow(e) PROVE \A i \in Ids : Timely(i)
  BY <1>4, RefundTimely DEF ExpireEscrow
<1>5. ASSUME NEW a \in Accounts, DisputeEscrow(a, e) PROVE \A i \in Ids : Timely(i)
  <2>1. PICK record : Book(e, record) /\ record = [flow[e] EXCEPT !.toDispute = @ + escrows[e].amount]
    BY <1>5 DEF DisputeEscrow, MarkDisputed
  <2>2. record.toAgent = flow[e].toAgent /\ record.toSender = flow[e].toSender
    BY <2>1, InvFacts DEF FlowRecord
  <2> QED
    BY <2>1, <2>2, BooksOne
<1>6. CASE UNCHANGED flow
  BY <1>6 DEF Timely
<1>7. ASSUME NEW a \in Accounts,
             \/ ConfirmDelivery(a, e)
             \/ CleanupEscrow(e)
             \/ \E c \in DisputeContracts : CloseDisputedEscrow(c, e, a)
      PROVE  UNCHANGED flow
  BY <1>7 DEF ConfirmDelivery, CleanupEscrow, CloseDisputedEscrow, CloseDisputed
<1>8. CleanupEscrow(e) => UNCHANGED flow
  BY DEF CleanupEscrow
<1> QED
  BY <1>1, <1>2, <1>3, <1>4, <1>5, <1>6, <1>7, <1>8 DEF Settle, Litigate

\* The agent is paid only before the expiry, and a sender whose agent confirmed
\* the cash payout gets money back only after it: release_escrow,
\* partial_release, cancel_escrow and expire_escrow each test the time on their
\* own, and no other entry point pays either of the two.
THEOREM EscrowPayoutsInTime == EscrowSpec => PayoutWindows
<1> DEFINE AllTimely == \A e \in Ids : Timely(e)
<1>1. ASSUME EscrowInv, [EscrowNext]_vars PROVE AllTimely
  <2>1. CASE Fund
    BY <1>1, <2>1, FundTimely
  <2>2. CASE \E e \in Ids : Settle(e) \/ Litigate(e)
    BY <1>1, <2>2, SettleTimely
  <2>3. CASE UNCHANGED flow
    BY <2>3 DEF Timely
  <2>4. Administer => UNCHANGED flow
    BY DEF Administer, UpdateFee, WithdrawFees, SetFeeBps, SetCancelHoldPeriod,
           SetRetentionPeriod, SetKycContract, ClearKycContract, SetDisputeContract,
           Pause, Unpause, Configure
  <2> QED
    BY <1>1, <2>1, <2>2, <2>3, <2>4 DEF EscrowNext, escrowVars, vars
<1>2. EscrowInv /\ [EscrowNext]_vars => [AllTimely]_vars
  BY <1>1
<1> HIDE DEF AllTimely
<1>3. [][EscrowNext]_vars /\ []EscrowInv => [][AllTimely]_vars
  BY <1>2, PTL
<1>4. [][AllTimely]_vars => PayoutWindows
  BY DEF PayoutWindows, AllTimely, Timely
<1> QED
  BY <1>3, <1>4, EscrowInvariant, PTL DEF EscrowSpec


-----------------------------------------------------------------------------
(* The ways out of a pending escrow are open.  An entry point is a guard,  *)
(* which reads the present state only, and a value for every variable in   *)
(* the next: it can be called in just the states where the guard holds,    *)
(* and the guards follow from the invariant.                               *)

CancelGuard(e) ==
    /\ IsPending(e) /\ ~escrows[e].confirmed
    /\ now >= escrows[e].createdAt + config.holdSecs
    /\ escrows[e].amount <= vault

ReleaseGuard(e) ==
    LET net == escrows[e].amount - FeeOf(escrows[e].amount, escrows[e].feeBps)
    IN  IsPending(e) /\ now < escrows[e].expiresAt /\ net > 0 /\ net <= vault

ExpireGuard(e) ==
    IsPending(e) /\ now > escrows[e].expiresAt /\ escrows[e].amount <= vault

\* What a refund that stores record does to every variable.
Refunded(e, record) ==
    /\ Store(e, record)
    /\ vault' = vault - escrows[e].amount
    /\ Book(e, [flow[e] EXCEPT !.toSender = @ + escrows[e].amount])
    /\ UNCHANGED <<now, counter, fees, config, link, winner>>

\* What the release of the whole escrow does to every variable.
ReleasedWhole(e) ==
    LET fee == FeeOf(escrows[e].amount, escrows[e].feeBps)
    IN  /\ Store(e, [escrows[e] EXCEPT !.status = "Released", !.updatedAt = now])
        /\ vault' = vault - (escrows[e].amount - fee)
        /\ fees' = fees + fee
        /\ Book(e, [flow[e] EXCEPT !.toAgent = @ + (escrows[e].amount - fee),
                                   !.toFees = @ + fee])
        /\ UNCHANGED <<now, counter, config, link, winner>>

\* The guards and the next values are the whole of the three entry points.
LEMMA ExitsAreGuarded ==
    ASSUME EscrowTypeOK, NEW e \in Ids
    PROVE  /\ CancelEscrow(escrows[e].sender, e) <=>
                /\ CancelGuard(e)
                /\ Refunded(e, [escrows[e] EXCEPT !.status = "Cancelled", !.updatedAt = now])
           /\ ReleaseEscrow(escrows[e].agent, e) <=> ReleaseGuard(e) /\ ReleasedWhole(e)
           /\ ExpireEscrow(e) <=>
                /\ ExpireGuard(e)
                /\ Refunded(e, [escrows[e] EXCEPT !.status = "Cancelled"])
<1>1. now \in Nat /\ escrows[e].expiresAt \in Nat
  BY ConstantFacts DEF EscrowTypeOK, ClockTypeOK, EscrowRecord
<1>2. CancelEscrow(escrows[e].sender, e) <=>
        /\ CancelGuard(e)
        /\ Refunded(e, [escrows[e] EXCEPT !.status = "Cancelled", !.updatedAt = now])
  BY SMTT(30) DEF CancelEscrow, CancelGuard, Refunded, RefundSender, KeepsSettings
<1>3. ExpireEscrow(e) <=>
        ExpireGuard(e) /\ Refunded(e, [escrows[e] EXCEPT !.status = "Cancelled"])
  BY SMTT(30) DEF ExpireEscrow, ExpireGuard, Refunded, RefundSender, KeepsSettings
<1>4. ReleaseEscrow(escrows[e].agent, e) <=> ReleaseGuard(e) /\ ReleasedWhole(e)
  BY <1>1, SMTT(30) DEF ReleaseEscrow, ReleaseGuard, ReleasedWhole, PayAgent, EscrowExpired,
                        KeepsSettings
<1>5. QED
  BY <1>2, <1>3, <1>4

\* The contract can pay what it holds for an escrow.
LEMMA PendingIsCovered ==
    ASSUME EscrowInv, NEW e \in Ids, IsPending(e)
    PROVE  escrows[e].amount > 0 /\ escrows[e].amount <= vault
<1>1. vault = Total(Owed, MaxEscrows) + fees /\ Sound(escrows[e], flow[e])
  BY InvFacts DEF EscrowInv, Solvent
<1>2. \A i \in 1..MaxEscrows : Owed[i] \in Nat
  BY InvFacts DEF Owed, Held, Ids
<1>3. MaxEscrows \in Nat /\ e \in 1..MaxEscrows /\ Owed[e] = escrows[e].amount
  BY ConstantFacts DEF Ids, Owed, Held, IsPending
<1>4. escrows[e].amount <= Total(Owed, MaxEscrows) /\ Total(Owed, MaxEscrows) \in Nat
  BY <1>2, <1>3, TotalMember, TotalNat
<1>5. QED
  BY <1>1, <1>4, InvFacts DEF Sound, IsPending

\* A rate below 100% never takes the whole amount.
LEMMA SomethingIsLeft ==
    ASSUME NEW amount \in Nat, amount > 0, NEW bps \in Nat, bps < 10000
    PROVE  FeeOf(amount, bps) \in Nat /\ FeeOf(amount, bps) < amount
<1> DEFINE fee == FeeOf(amount, bps)
<1>1. fee \in Nat /\ fee * 10000 <= amount * bps
  BY FeeBound
<1>2. amount * bps < amount * 10000
  OBVIOUS
<1>3. amount * bps \in Nat
  OBVIOUS
<1> HIDE DEF fee
<1>4. fee < amount
  BY <1>1, <1>2, <1>3
<1>5. QED
  BY <1>1, <1>4 DEF fee

\* The cancel window of CancelWindow, as a guard: whatever hold periods the
\* admin sets and whether or not the contract is paused, an unconfirmed escrow
\* can be cancelled once MAX_CANCEL_HOLD_SECS have passed since its creation.
THEOREM CancelIsOpen ==
    EscrowSpec => [](\A e \in Ids :
        IsPending(e) /\ ~escrows[e].confirmed /\ now >= escrows[e].createdAt + MaxHoldSecs
        => CancelGuard(e))
<1>1. ASSUME EscrowInv, NEW e \in Ids, IsPending(e), ~escrows[e].confirmed,
             now >= escrows[e].createdAt + MaxHoldSecs
      PROVE  CancelGuard(e)
  <2>1. escrows[e].createdAt \in Nat
    BY <1>1, InvFacts DEF EscrowRecord
  <2>2. config.holdSecs \in 0..MaxHoldSecs
    BY <1>1, InvFacts DEF ConfigRecord
  <2>3. now >= escrows[e].createdAt + config.holdSecs
    BY <1>1, <2>1, <2>2, InvFacts, ConstantFacts
  <2>4. QED
    BY <1>1, <2>3, PendingIsCovered DEF CancelGuard
<1>2. EscrowInv => \A e \in Ids :
        IsPending(e) /\ ~escrows[e].confirmed /\ now >= escrows[e].createdAt + MaxHoldSecs
        => CancelGuard(e)
  BY <1>1
<1>3. QED
  BY <1>2, EscrowInvariant, PTL

\* The exits of ExitsOpen, as guards: before expires_at the agent can release
\* every pending escrow, after it anyone can expire it, paused or not.  With
\* the fee limited to MAX_FEE_BPS (10%) there is always something to release.
THEOREM ExitsAreOpen ==
    ASSUME MaxFeeBps < 10000
    PROVE  EscrowSpec => [](\A e \in Ids :
               /\ IsPending(e) /\ now < escrows[e].expiresAt => ReleaseGuard(e)
               /\ IsPending(e) /\ now > escrows[e].expiresAt => ExpireGuard(e))
<1>1. ASSUME EscrowInv, NEW e \in Ids, IsPending(e), now < escrows[e].expiresAt
      PROVE  ReleaseGuard(e)
  <2> DEFINE fee == FeeOf(escrows[e].amount, escrows[e].feeBps)
  <2>1. escrows[e].amount \in Nat /\ escrows[e].feeBps \in Nat /\ vault \in Nat
    BY <1>1, InvFacts
  <2>2. escrows[e].feeBps < 10000
    BY <1>1, <2>1, InvFacts, ConstantFacts DEF EscrowRecord
  <2>3. escrows[e].amount > 0 /\ escrows[e].amount <= vault
    BY <1>1, PendingIsCovered
  <2>4. fee \in Nat /\ fee < escrows[e].amount
    BY <2>1, <2>2, <2>3, SomethingIsLeft
  <2> HIDE DEF fee
  <2>5. escrows[e].amount - fee > 0 /\ escrows[e].amount - fee <= vault
    BY <2>1, <2>3, <2>4
  <2>6. QED
    BY <1>1, <2>5 DEF ReleaseGuard, fee
<1>2. ASSUME EscrowInv, NEW e \in Ids, IsPending(e), now > escrows[e].expiresAt
      PROVE  ExpireGuard(e)
  BY <1>2, PendingIsCovered DEF ExpireGuard
<1>3. EscrowInv => \A e \in Ids :
               /\ IsPending(e) /\ now < escrows[e].expiresAt => ReleaseGuard(e)
               /\ IsPending(e) /\ now > escrows[e].expiresAt => ExpireGuard(e)
  BY <1>1, <1>2
<1>4. QED
  BY <1>3, EscrowInvariant, PTL

=============================================================================
