--------------------------- MODULE DisputeProofs ---------------------------
(***************************************************************************)
(* Proofs about the dispute-resolution contract, for any number of users,  *)
(* disputes, amounts, filing fees, panels and periods.                     *)
(*                                                                         *)
(* The invariant is local, as in EscrowProofs: a predicate Lawful of one   *)
(* dispute record and its outcome, the ids that are not in use yet, and    *)
(* the equation that ties the records to the contract's balance.  Every    *)
(* entry point but the administration's stores one record; RecordStep      *)
(* re-establishes the invariant when that record is lawful and the balance *)
(* moved by what the record changed.                                       *)
(***************************************************************************)
EXTENDS DisputeResolution, SumsProofs

-----------------------------------------------------------------------------
(* The invariant.                                                          *)

\* What the contract holds for a dispute record.
Lodged(r) ==
    IF r.status \in {"Open", "Appealing", "UnderAppeal"} THEN r.amount + Charged(r.fee) ELSE 0

\* The ruling a record carries, and whom a ruling favours.
RulingOf(r) == IF r.forAgent THEN "Agent" ELSE IF r.forRecipient THEN "Recipient" ELSE "Sender"

Favoured(r, ruling) ==
    CASE ruling = "Recipient" -> r.recipient
      [] ruling = "Sender" -> r.sender
      [] OTHER -> r.agent

\* A record r and its outcome o agree.  The clauses on an open dispute and on
\* one that has a ruling are what RulingCarriedOut needs to survive a step:
\* only the panel and the deadline settle a dispute without a ruling, a
\* ruling always starts an appeal window, and a ruling for the agent is
\* never left standing beside one for the recipient.
Lawful(r, o) ==
    /\ r \in DisputeRecord
    /\ o \in OutcomeRecord
    /\ r.status # "None" => r.sender \in Accounts /\ r.recipient \in Accounts /\ r.opener \in Accounts
    /\ r.status \in {"None", "Open"} => r.appealBy = 0 /\ ~r.forAgent /\ ~r.forRecipient
    /\ r.status \in {"Appealing", "UnderAppeal"} => r.appealBy > 0
    /\ r.forAgent => r.agent # Nobody /\ ~r.forRecipient
    /\ r.status \in Settlements =>
          /\ o.winner \in Accounts
          /\ r.appealBy > 0 => /\ r.status = SettledAs(RulingOf(r))
                               /\ o.winner = Favoured(r, RulingOf(r))

\* The ids above the counter have never been used.
Unused == \A d \in DisputeIds : d > opened => disputes[d] = NoDispute

DisputeInv ==
    /\ DisputesFunded
    /\ \A d \in DisputeIds : Lawful(disputes[d], outcome[d])
    /\ Unused

LEMMA ConstantFacts ==
    /\ MaxTime \in Nat /\ MaxDisputes \in Nat /\ DeadlineSecs \in Nat
    /\ AppealSecs \in Nat /\ AppealSecs > 0
    /\ Nobody \notin Accounts /\ Nobody \notin Officials
    /\ Admin \in Officials /\ Arbitrator \in Officials /\ SuperArbitrator \in Officials
    /\ DefaultQuorumBps \in 1..10000 /\ DefaultFilingFee \in Int
    /\ FilingFees \subseteq Int
BY DisputeConstants, MaxTimeAssumption

LEMMA ChargedNat == \A fee \in Int : Charged(fee) \in Nat
BY DEF Charged

\* The fields of a dispute record, and what the contract holds for it.
LEMMA RecordFields ==
    ASSUME NEW r \in DisputeRecord
    PROVE  /\ r.sender \in Someone /\ r.recipient \in Someone /\ r.agent \in Someone
           /\ r.opener \in Someone /\ r.amount \in Nat /\ r.fee \in Int
           /\ r.status \in Statuses /\ r.deadline \in Nat /\ r.appealBy \in Nat
           /\ r.forRecipient \in BOOLEAN /\ r.forAgent \in BOOLEAN
           /\ Lodged(r) \in Nat
<1>1. r.amount \in Nat /\ r.fee \in Int
  BY DEF DisputeRecord
<1>2. Charged(r.fee) \in Nat
  BY <1>1, ChargedNat
<1>3. Lodged(r) \in Nat
  BY <1>1, <1>2 DEF Lodged
<1>4. QED
  BY <1>3 DEF DisputeRecord

\* What the invariant says of one dispute.
LEMMA InvFacts ==
    ASSUME DisputeInv, NEW d \in DisputeIds
    PROVE  /\ Lawful(disputes[d], outcome[d])
           /\ disputes[d] \in DisputeRecord /\ outcome[d] \in OutcomeRecord
           /\ DisputeTypeOK
           /\ disputes[d].status # "None" => d <= opened
<1>1. DisputeTypeOK /\ Lawful(disputes[d], outcome[d]) /\ Unused
  BY DEF DisputeInv, DisputesFunded
<1>2. d \in Nat /\ opened \in Nat
  BY <1>1, ConstantFacts DEF DisputeTypeOK, DisputeIds
<1>3. disputes[d].status # "None" => d <= opened
  BY <1>1, <1>2 DEF Unused, NoDispute
<1>4. QED
  BY <1>1, <1>3 DEF Lawful

LEMMA NothingIsLawful == Lawful(NoDispute, Undecided) /\ Lodged(NoDispute) = 0
<1>1. NoDispute \in DisputeRecord /\ Undecided \in OutcomeRecord
  BY DEF NoDispute, Undecided, DisputeRecord, OutcomeRecord, Statuses, Someone
<1>2. Lodged(NoDispute) = 0
  BY DEF NoDispute, Lodged
<1>3. QED
  BY <1>1, <1>2 DEF Lawful, NoDispute, Settlements

-----------------------------------------------------------------------------
(* The frame.                                                              *)

\* The balance the records call for is a natural number.
LEMMA HeldNat ==
    ASSUME DisputeTypeOK
    PROVE  /\ \A d \in DisputeIds : InCustody[d] = Lodged(disputes[d]) /\ InCustody[d] \in Nat
           /\ Total(InCustody, MaxDisputes) \in Nat
<1>1. ASSUME NEW d \in DisputeIds
      PROVE  InCustody[d] = Lodged(disputes[d]) /\ InCustody[d] \in Nat
  <2>1. disputes[d] \in DisputeRecord
    BY DEF DisputeTypeOK
  <2>2. Lodged(disputes[d]) \in Nat
    BY <2>1, RecordFields
  <2>3. InCustody[d] = Lodged(disputes[d])
    BY DEF InCustody, Lodged, Unsettled, Stake
  <2>4. QED
    BY <2>2, <2>3
<1>2. \A i \in 1..MaxDisputes : InCustody[i] \in Nat
  BY <1>1 DEF DisputeIds
<1>3. QED
  BY <1>1, <1>2, ConstantFacts, TotalNat

\* A step that stores one lawful record, under an id in use or the next one,
\* and moves as much money as the record says preserves the invariant.
LEMMA RecordStep ==
    ASSUME DisputeInv, NEW d \in DisputeIds, NEW r, NEW o,
           disputes' = [disputes EXCEPT ![d] = r], outcome' = [outcome EXCEPT ![d] = o],
           Lawful(r, o),
           custody' \in Nat, custody' - Lodged(r) = custody - Lodged(disputes[d]),
           opened' \in 0..MaxDisputes, opened <= opened', d <= opened',
           now' \in 0..MaxTime, bench' \in BenchRecord,
           votes' \in [DisputeIds -> [Officials -> {"none", "Recipient", "Sender"}]]
    PROVE  DisputeInv'
<1>1. /\ DisputeTypeOK /\ custody = Total(InCustody, MaxDisputes)
      /\ \A i \in DisputeIds : Lawful(disputes[i], outcome[i])
      /\ Unused
  BY DEF DisputeInv, DisputesFunded
<1>2. /\ disputes \in [DisputeIds -> DisputeRecord] /\ opened \in 0..MaxDisputes
      /\ outcome \in [DisputeIds -> OutcomeRecord] /\ custody \in Nat
  BY <1>1 DEF DisputeTypeOK
<1>3. r \in DisputeRecord /\ o \in OutcomeRecord
  BY DEF Lawful
<1>4. /\ disputes' \in [DisputeIds -> DisputeRecord]
      /\ outcome' \in [DisputeIds -> OutcomeRecord]
  BY <1>2, <1>3
<1>5. /\ disputes'[d] = r /\ outcome'[d] = o
      /\ \A i \in DisputeIds : i # d => disputes'[i] = disputes[i] /\ outcome'[i] = outcome[i]
  BY <1>2
<1>6. \A i \in DisputeIds : Lawful(disputes'[i], outcome'[i])
  BY <1>1, <1>5
<1>7. Unused'
  <2>1. SUFFICES ASSUME NEW i \in DisputeIds, i > opened' PROVE disputes'[i] = NoDispute
    BY DEF Unused
  <2>2. i \in Nat /\ d \in Nat /\ opened \in Nat /\ opened' \in Nat
    BY <1>2, ConstantFacts DEF DisputeIds
  <2>3. i # d /\ i > opened
    BY <2>1, <2>2
  <2>4. QED
    BY <1>1, <1>5, <2>3 DEF Unused
<1>8. DisputeTypeOK'
  <2>1. \A i \in DisputeIds :
           disputes'[i].status \in Settlements => outcome'[i].winner \in Accounts
    BY <1>6 DEF Lawful
  <2>2. QED
    BY <1>4, <2>1 DEF DisputeTypeOK, ClockTypeOK
<1>9. custody' = Total(InCustody, MaxDisputes)'
  <2>1. /\ \A i \in DisputeIds : InCustody[i] = Lodged(disputes[i]) /\ InCustody[i] \in Nat
        /\ Total(InCustody, MaxDisputes) \in Nat
    BY <1>1, HeldNat
  <2>2. ASSUME NEW i \in DisputeIds
        PROVE  InCustody'[i] = Lodged(disputes'[i]) /\ InCustody'[i] \in Nat
    <3>1. disputes'[i] \in DisputeRecord
      BY <1>4
    <3>2. Lodged(disputes'[i]) \in Nat
      BY <3>1, RecordFields
    <3>3. InCustody'[i] = Lodged(disputes'[i])
      BY DEF InCustody, Lodged, Unsettled, Stake
    <3>4. QED
      BY <3>2, <3>3
  <2>3. MaxDisputes \in Nat /\ d \in 1..MaxDisputes
    BY ConstantFacts DEF DisputeIds
  <2>4. \A i \in 1..MaxDisputes : InCustody[i] \in Nat /\ InCustody'[i] \in Nat
    BY <2>1, <2>2 DEF DisputeIds
  <2>5. \A i \in 1..MaxDisputes : i # d => InCustody'[i] = InCustody[i]
    BY <1>5, <2>1, <2>2 DEF DisputeIds
  <2>6. Total(InCustody', MaxDisputes) = (Total(InCustody, MaxDisputes) - InCustody[d]) + InCustody'[d]
    BY <2>3, <2>4, <2>5, TotalUpdate
  <2>7. /\ InCustody[d] = Lodged(disputes[d]) /\ InCustody'[d] = Lodged(r)
        /\ InCustody[d] \in Nat /\ InCustody'[d] \in Nat
    BY <1>5, <2>1, <2>2
  <2>8. custody' = Total(InCustody', MaxDisputes)
    BY <1>1, <1>2, <2>1, <2>6, <2>7
  <2>9. QED
    BY <2>8
<1>10. QED
  BY <1>6, <1>7, <1>8, <1>9 DEF DisputeInv, DisputesFunded

\* A step that touches no record and moves no money.
LEMMA QuietStep ==
    ASSUME DisputeInv, UNCHANGED <<disputes, opened, custody, outcome>>,
           now' \in 0..MaxTime, bench' \in BenchRecord,
           votes' \in [DisputeIds -> [Officials -> {"none", "Recipient", "Sender"}]]
    PROVE  DisputeInv'
<1>1. DisputeTypeOK'
  BY DEF DisputeInv, DisputesFunded, DisputeTypeOK, ClockTypeOK
<1>2. InCustody' = InCustody
  BY DEF InCustody, Unsettled, Stake
<1>3. custody' = Total(InCustody, MaxDisputes)'
  BY <1>2 DEF DisputeInv, DisputesFunded
<1>4. QED
  BY <1>1, <1>3 DEF DisputeInv, DisputesFunded, Unused

-----------------------------------------------------------------------------
(* One lemma per entry point.                                              *)

\* The field sets of BenchRecord under names of their own: a change of one field
\* keeps the record in BenchRecord whatever those sets are.
Nominees == Officials \cup {Nobody}
Panels == SUBSET Officials
QuorumRange == 1..10000
FeeRange == Int
Flags == BOOLEAN

LEMMA BenchShape ==
    BenchRecord = [arbitrator : Officials, nominee : Nominees, super : Officials,
                   panel : Panels, quorum : QuorumRange, filingFee : FeeRange,
                   distributor : Officials, paused : Flags, registered : Flags]
BY DEF BenchRecord, Nominees, Panels, QuorumRange, FeeRange, Flags

\* A new dispute is stored under the next id and its stake comes in.
LEMMA RegisterStep ==
    ASSUME DisputeInv, NEW opener, NEW agent \in Someone, NEW confirmed \in BOOLEAN,
           NEW escrow \in Nat, NEW p, p.sender \in Accounts, p.recipient \in Accounts,
           p.amount \in Int, Register(opener, agent, confirmed, escrow, p), UNCHANGED now
    PROVE  DisputeInv'
<1> DEFINE d == opened + 1
           fee == bench.filingFee
           r == [sender |-> p.sender, recipient |-> p.recipient, agent |-> agent,
                 opener |-> opener, amount |-> p.amount, fee |-> fee,
                 status |-> "Open", deadline |-> now + DeadlineSecs, appealBy |-> 0,
                 forRecipient |-> FALSE, forAgent |-> FALSE, confirmed |-> confirmed,
                 escrow |-> escrow, evidence |-> {}]
<1>1. DisputeTypeOK /\ Unused
  BY DEF DisputeInv, DisputesFunded
<1>2. /\ opened \in Nat /\ opened < MaxDisputes /\ opener \in Accounts /\ p.amount \in Nat
      /\ now \in Nat /\ fee \in Int /\ custody \in Nat
  <2>1. opened < MaxDisputes /\ opener \in Accounts /\ p.amount \in Nat
    BY ConstantFacts DEF Register
  <2>2. opened \in Nat /\ custody \in Nat /\ now \in Nat /\ bench \in BenchRecord
    BY <1>1, ConstantFacts DEF DisputeTypeOK, ClockTypeOK
  <2>3. fee \in Int
    BY <2>2, BenchShape DEF FeeRange
  <2>4. QED
    BY <2>1, <2>2, <2>3
<1>3. d \in DisputeIds /\ d > opened
  BY <1>2, ConstantFacts DEF DisputeIds
<1>4. disputes[d] = NoDispute
  BY <1>1, <1>3 DEF Unused
<1>5. Charged(fee) \in Nat
  BY <1>2, ChargedNat
<1>6. /\ disputes' = [disputes EXCEPT ![d] = r] /\ outcome' = outcome
      /\ custody' = (custody + p.amount) + Charged(fee)
      /\ opened' = opened + 1 /\ bench' = bench /\ votes' = votes
  BY DEF Register
<1>7. r \in DisputeRecord
  BY <1>2, ConstantFacts DEF DisputeRecord, Someone, Statuses
<1>8. outcome[d] \in OutcomeRecord /\ outcome' = [outcome EXCEPT ![d] = outcome[d]]
  BY <1>1, <1>3, <1>6 DEF DisputeTypeOK
<1>9. Lawful(r, outcome[d])
  BY <1>2, <1>7, <1>8 DEF Lawful, Settlements
<1>10. Lodged(r) = p.amount + Charged(fee) /\ Lodged(disputes[d]) = 0
  BY <1>4, NothingIsLawful DEF Lodged
<1>11. custody' \in Nat /\ custody' - Lodged(r) = custody - Lodged(disputes[d])
  BY <1>2, <1>5, <1>6, <1>10
<1>12. opened' \in 0..MaxDisputes /\ opened <= opened' /\ d <= opened'
  BY <1>2, <1>6, ConstantFacts
<1>13. now' \in 0..MaxTime /\ bench' \in BenchRecord
       /\ votes' \in [DisputeIds -> [Officials -> {"none", "Recipient", "Sender"}]]
  BY <1>1, <1>6 DEF DisputeTypeOK, ClockTypeOK
<1> HIDE DEF d, r, fee
<1>14. QED
  BY <1>3, <1>6, <1>8, <1>9, <1>11, <1>12, <1>13, RecordStep

LEMMA OpenDisputeStep ==
    ASSUME DisputeInv, NEW opener, NEW p \in Claims, OpenDispute(opener, p), UNCHANGED now
    PROVE  DisputeInv'
<1>1. p.sender \in Accounts /\ p.recipient \in Accounts /\ p.amount \in Int
  BY DisputeConstants DEF Claim
<1>2. QED
  BY <1>1, RegisterStep DEF OpenDispute, Someone

\* For any backing an escrow may push, not only those a model offers.
LEMMA OpenEscrowDisputeStep ==
    ASSUME DisputeInv, NEW opener, NEW b, b.sender \in Accounts, b.recipient \in Accounts,
           b.agent \in Accounts, b.amount \in Int, b.confirmed \in BOOLEAN, b.escrow \in Nat,
           OpenEscrowDispute(opener, b), UNCHANGED now
    PROVE  DisputeInv'
BY RegisterStep DEF OpenEscrowDispute, Someone

\* A step that rewrites a record without settling it and moves no money.
LEMMA RewriteStep ==
    ASSUME DisputeInv, NEW d \in DisputeIds, Unsettled(d), NEW r,
           disputes' = [disputes EXCEPT ![d] = r], Lawful(r, outcome[d]),
           Lodged(r) = Lodged(disputes[d]),
           UNCHANGED <<now, opened, custody, bench, votes, outcome>>
    PROVE  DisputeInv'
<1>1. /\ DisputeTypeOK /\ disputes[d] \in DisputeRecord
      /\ disputes[d].status # "None" => d <= opened
  BY InvFacts
<1>2. d <= opened' /\ opened' \in 0..MaxDisputes /\ opened <= opened'
  BY <1>1, ConstantFacts DEF Unsettled, DisputeTypeOK
<1>3. outcome' = [outcome EXCEPT ![d] = outcome[d]]
  BY <1>1 DEF DisputeTypeOK
<1>4. custody' \in Nat /\ custody' - Lodged(r) = custody - Lodged(disputes[d])
  BY <1>1 DEF DisputeTypeOK
<1>5. now' \in 0..MaxTime /\ bench' \in BenchRecord
      /\ votes' \in [DisputeIds -> [Officials -> {"none", "Recipient", "Sender"}]]
  BY <1>1 DEF DisputeTypeOK, ClockTypeOK
<1>6. QED
  BY <1>2, <1>3, <1>4, <1>5, RecordStep

LEMMA SubmitEvidenceStep ==
    ASSUME DisputeInv, NEW d \in DisputeIds, NEW a \in Accounts,
           SubmitEvidence(a, d), UNCHANGED now
    PROVE  DisputeInv'
<1> DEFINE r == [disputes[d] EXCEPT !.evidence = @ \cup {a}]
<1>1. disputes[d] \in DisputeRecord /\ Lawful(disputes[d], outcome[d])
  BY InvFacts
<1>2. r \in DisputeRecord
  BY <1>1 DEF DisputeRecord
<1>3. /\ r.status = disputes[d].status /\ r.amount = disputes[d].amount
      /\ r.fee = disputes[d].fee /\ r.sender = disputes[d].sender
      /\ r.recipient = disputes[d].recipient /\ r.opener = disputes[d].opener
      /\ r.agent = disputes[d].agent /\ r.appealBy = disputes[d].appealBy
      /\ r.forAgent = disputes[d].forAgent /\ r.forRecipient = disputes[d].forRecipient
  BY <1>1 DEF DisputeRecord
<1>4. disputes' = [disputes EXCEPT ![d] = r]
  BY DEF SubmitEvidence
<1>5. Unsettled(d) /\ disputes[d].status = "Open"
  BY DEF SubmitEvidence, IsOpen, Unsettled
<1> HIDE DEF r
<1>6. Lodged(r) = Lodged(disputes[d])
  BY <1>3 DEF Lodged
<1>7. Lawful(r, outcome[d])
  BY <1>1, <1>2, <1>3, <1>5 DEF Lawful, Settlements
<1>8. QED
  BY <1>4, <1>5, <1>6, <1>7, RewriteStep DEF SubmitEvidence

LEMMA AppealStep ==
    ASSUME DisputeInv, NEW d \in DisputeIds, NEW a, Appeal(a, d), UNCHANGED now
    PROVE  DisputeInv'
<1> DEFINE r == [disputes[d] EXCEPT !.status = "UnderAppeal"]
<1>1. disputes[d] \in DisputeRecord /\ Lawful(disputes[d], outcome[d])
  BY InvFacts
<1>2. r \in DisputeRecord
  BY <1>1 DEF DisputeRecord, Statuses
<1>3. /\ r.status = "UnderAppeal" /\ r.amount = disputes[d].amount
      /\ r.fee = disputes[d].fee /\ r.sender = disputes[d].sender
      /\ r.recipient = disputes[d].recipient /\ r.opener = disputes[d].opener
      /\ r.agent = disputes[d].agent /\ r.appealBy = disputes[d].appealBy
      /\ r.forAgent = disputes[d].forAgent /\ r.forRecipient = disputes[d].forRecipient
  BY <1>1 DEF DisputeRecord
<1>4. disputes' = [disputes EXCEPT ![d] = r]
  BY DEF Appeal
<1>5. Unsettled(d) /\ disputes[d].status = "Appealing"
  BY DEF Appeal, Unsettled
<1> HIDE DEF r
<1>6. Lodged(r) = Lodged(disputes[d])
  BY <1>3, <1>5 DEF Lodged
<1>7. Lawful(r, outcome[d])
  BY <1>1, <1>2, <1>3, <1>5 DEF Lawful, Settlements
<1>8. QED
  BY <1>4, <1>5, <1>6, <1>7, RewriteStep DEF Appeal

\* What recording a ruling changes and keeps.
LEMMA RulingFields ==
    ASSUME NEW q \in DisputeRecord, NEW ruling \in Rulings
    PROVE  LET r == RecordRuling(q, ruling)
           IN  /\ r \in DisputeRecord /\ RulingOf(r) = ruling
               /\ r.forAgent => ruling = "Agent" /\ ~r.forRecipient
               /\ r.status = q.status /\ r.amount = q.amount /\ r.fee = q.fee
               /\ r.sender = q.sender /\ r.recipient = q.recipient /\ r.opener = q.opener
               /\ r.agent = q.agent /\ r.appealBy = q.appealBy
<1> DEFINE r == RecordRuling(q, ruling)
<1>1. r \in DisputeRecord
  BY DEF RecordRuling, DisputeRecord
<1>2. r.forAgent = (ruling = "Agent") /\ r.forRecipient = (ruling = "Recipient")
  BY DEF RecordRuling, DisputeRecord
<1>3. /\ r.status = q.status /\ r.amount = q.amount /\ r.fee = q.fee
      /\ r.sender = q.sender /\ r.recipient = q.recipient /\ r.opener = q.opener
      /\ r.agent = q.agent /\ r.appealBy = q.appealBy
  BY DEF RecordRuling, DisputeRecord
<1> HIDE DEF r
<1>4. RulingOf(r) = ruling
  BY <1>2 DEF RulingOf, Rulings
<1>5. r.forAgent => ruling = "Agent" /\ ~r.forRecipient
  BY <1>2
<1>6. QED
  BY <1>1, <1>3, <1>4, <1>5 DEF r

LEMMA ResolveDisputeStep ==
    ASSUME DisputeInv, NEW d \in DisputeIds, NEW j, NEW ruling \in Rulings,
           ResolveDispute(j, d, ruling), UNCHANGED now
    PROVE  DisputeInv'
<1> DEFINE q == RecordRuling(disputes[d], ruling)
           r == [q EXCEPT !.status = "Appealing", !.appealBy = now + AppealSecs]
<1>1. disputes[d] \in DisputeRecord /\ Lawful(disputes[d], outcome[d]) /\ DisputeTypeOK
  BY InvFacts
<1>2. /\ q \in DisputeRecord /\ RulingOf(q) = ruling
      /\ q.forAgent => ruling = "Agent" /\ ~q.forRecipient
      /\ q.amount = disputes[d].amount /\ q.fee = disputes[d].fee
      /\ q.sender = disputes[d].sender /\ q.recipient = disputes[d].recipient
      /\ q.opener = disputes[d].opener /\ q.agent = disputes[d].agent
  BY <1>1, RulingFields
<1>3. now + AppealSecs \in Nat /\ now + AppealSecs > 0
  BY <1>1, ConstantFacts DEF DisputeTypeOK, ClockTypeOK
<1>4. disputes' = [disputes EXCEPT ![d] = r]
  BY DEF ResolveDispute
<1> HIDE DEF q
<1>5. r \in DisputeRecord
  BY <1>2, <1>3 DEF DisputeRecord, Statuses
<1>6. /\ r.status = "Appealing" /\ r.appealBy = now + AppealSecs
      /\ r.amount = q.amount /\ r.fee = q.fee /\ r.sender = q.sender
      /\ r.recipient = q.recipient /\ r.opener = q.opener /\ r.agent = q.agent
      /\ r.forAgent = q.forAgent /\ r.forRecipient = q.forRecipient
  BY <1>2 DEF DisputeRecord
<1>7. Unsettled(d) /\ disputes[d].status = "Open" /\ MayRule(d, ruling)
  BY DEF ResolveDispute, IsOpen, Unsettled
<1> HIDE DEF r
<1>8. Lodged(r) = Lodged(disputes[d])
  BY <1>2, <1>6, <1>7 DEF Lodged
<1>9. Lawful(r, outcome[d])
  BY <1>1, <1>2, <1>3, <1>5, <1>6, <1>7 DEF Lawful, Settlements, MayRule
<1>10. QED
  BY <1>4, <1>7, <1>8, <1>9, RewriteStep DEF ResolveDispute

\* A settlement: the record's stake leaves for the winner and the fee receiver.
LEMMA PayStep ==
    ASSUME DisputeInv, NEW d \in DisputeIds, Unsettled(d), NEW r, NEW winner, NEW feeTo,
           Pay(d, r, winner, feeTo), Lawful(r, [winner |-> winner, feeTo |-> feeTo]),
           r.status \in Settlements, r.amount = disputes[d].amount, r.fee = disputes[d].fee,
           UNCHANGED <<now, opened, bench>>,
           votes' \in [DisputeIds -> [Officials -> {"none", "Recipient", "Sender"}]]
    PROVE  DisputeInv'
<1> DEFINE stake == r.amount + Charged(r.fee)
           o == [winner |-> winner, feeTo |-> feeTo]
<1>1. /\ DisputeTypeOK
      /\ disputes[d].status # "None" => d <= opened
  BY InvFacts
<1>2. r \in DisputeRecord /\ r.amount \in Nat /\ r.fee \in Int
  BY RecordFields DEF Lawful
<1>3. stake \in Nat
  BY <1>2, ChargedNat
<1>4. Lodged(disputes[d]) = stake /\ Lodged(r) = 0
  BY DEF Lodged, Unsettled, Settlements
<1>5. /\ stake <= custody /\ custody' = custody - stake
      /\ disputes' = [disputes EXCEPT ![d] = r] /\ outcome' = [outcome EXCEPT ![d] = o]
  BY DEF Pay
<1> HIDE DEF stake, o
<1>6. custody' \in Nat /\ custody' - Lodged(r) = custody - Lodged(disputes[d])
  BY <1>1, <1>3, <1>4, <1>5 DEF DisputeTypeOK
<1>7. d <= opened' /\ opened' \in 0..MaxDisputes /\ opened <= opened'
  BY <1>1, ConstantFacts DEF Unsettled, DisputeTypeOK
<1>8. now' \in 0..MaxTime /\ bench' \in BenchRecord
  BY <1>1 DEF DisputeTypeOK, ClockTypeOK
<1>9. Lawful(r, o)
  BY DEF o
<1>10. QED
  BY <1>5, <1>6, <1>7, <1>8, <1>9, RecordStep

\* A settlement by ruling.  q is the record the ruling is taken from; it has
\* recorded that ruling if it has an appeal window.
LEMMA AwardStep ==
    ASSUME DisputeInv, NEW d \in DisputeIds, Unsettled(d), NEW ruling \in Rulings,
           NEW q \in DisputeRecord, Award(d, q, ruling),
           q.amount = disputes[d].amount, q.fee = disputes[d].fee,
           q.sender = disputes[d].sender, q.recipient = disputes[d].recipient,
           q.opener = disputes[d].opener, q.agent = disputes[d].agent,
           q.appealBy > 0 => ruling = RulingOf(q),
           q.forAgent => q.agent # Nobody /\ ~q.forRecipient,
           ruling = "Agent" => disputes[d].agent # Nobody,
           UNCHANGED <<now, opened, bench>>,
           votes' \in [DisputeIds -> [Officials -> {"none", "Recipient", "Sender"}]]
    PROVE  DisputeInv'
<1> DEFINE r == [q EXCEPT !.status = SettledAs(ruling)]
           w == Payee(d, ruling)
           f == IF w = q.opener THEN w ELSE bench.distributor
           o == [winner |-> w, feeTo |-> f]
<1>1. /\ disputes[d] \in DisputeRecord /\ DisputeTypeOK
      /\ Lawful(disputes[d], outcome[d]) /\ disputes[d].status # "None"
  BY InvFacts DEF Unsettled
<1>2. /\ disputes[d].sender \in Accounts /\ disputes[d].recipient \in Accounts
      /\ disputes[d].opener \in Accounts /\ disputes[d].agent \in Someone
  BY <1>1, RecordFields DEF Lawful
<1>3. SettledAs(ruling) \in Settlements
  BY DEF Rulings, SettledAs, Settlements
<1>4. r \in DisputeRecord
  BY <1>3 DEF DisputeRecord, Statuses
<1>5. /\ r.status = SettledAs(ruling) /\ r.amount = q.amount /\ r.fee = q.fee
      /\ r.sender = q.sender /\ r.recipient = q.recipient /\ r.opener = q.opener
      /\ r.agent = q.agent /\ r.appealBy = q.appealBy
      /\ r.forAgent = q.forAgent /\ r.forRecipient = q.forRecipient
  BY DEF DisputeRecord
<1>6. w \in Accounts
  <2>1. CASE ruling = "Agent"
    <3>1. w = disputes[d].agent
      BY <2>1 DEF Payee
    <3>2. QED
      BY <1>2, <2>1, <3>1 DEF Someone
  <2>2. CASE ruling = "Recipient"
    BY <1>2, <2>2 DEF Payee
  <2>3. CASE ruling = "Sender"
    BY <1>2, <2>3 DEF Payee
  <2>4. QED
    BY <2>1, <2>2, <2>3 DEF Rulings
<1>7. f \in Accounts \cup Officials \cup {Nobody}
  <2>1. bench \in BenchRecord
    BY <1>1 DEF DisputeTypeOK
  <2>2. bench.distributor \in Officials
    BY <2>1, BenchShape, SMTT(30)
  <2> HIDE DEF w
  <2>3. QED
    BY <1>6, <2>2
<1>8. o \in OutcomeRecord /\ o.winner = w
  BY <1>6, <1>7 DEF OutcomeRecord, Someone
<1>9. Pay(d, r, w, f)
  BY DEF Award
<1>10. RulingOf(r) = RulingOf(q) /\ Favoured(r, ruling) = w
  BY <1>5 DEF RulingOf, Favoured, Payee
<1> HIDE DEF r, w, f
<1>11. Lawful(r, o)
  <2>1. r.status \notin {"None", "Open", "Appealing", "UnderAppeal"}
    BY <1>3, <1>5 DEF Settlements
  <2>2. r.sender \in Accounts /\ r.recipient \in Accounts /\ r.opener \in Accounts
    BY <1>2, <1>5
  <2>3. r.forAgent => r.agent # Nobody /\ ~r.forRecipient
    BY <1>5
  <2>4. r.appealBy > 0 => /\ r.status = SettledAs(RulingOf(r))
                          /\ o.winner = Favoured(r, RulingOf(r))
    BY <1>5, <1>8, <1>10
  <2> HIDE DEF o
  <2>5. QED
    BY <1>4, <1>6, <1>8, <2>1, <2>2, <2>3, <2>4 DEF Lawful
<1>12. r.status \in Settlements /\ r.amount = disputes[d].amount /\ r.fee = disputes[d].fee
  BY <1>3, <1>5
<1>13. QED
  BY <1>9, <1>11, <1>12, PayStep DEF o

LEMMA FinalizeResolutionStep ==
    ASSUME DisputeInv, NEW d \in DisputeIds, FinalizeResolution(d), UNCHANGED now
    PROVE  DisputeInv'
<1>1. /\ disputes[d] \in DisputeRecord /\ DisputeTypeOK /\ Lawful(disputes[d], outcome[d])
  BY InvFacts
<1>2. PendingRuling(d) = RulingOf(disputes[d]) /\ PendingRuling(d) \in Rulings
  BY DEF PendingRuling, RulingOf, Rulings
<1>3. PendingRuling(d) = "Agent" => disputes[d].agent # Nobody
  BY <1>1 DEF PendingRuling, Lawful
<1>4. disputes[d].forAgent => disputes[d].agent # Nobody /\ ~disputes[d].forRecipient
  BY <1>1 DEF Lawful
<1>5. /\ Unsettled(d) /\ Award(d, disputes[d], PendingRuling(d))
      /\ UNCHANGED <<opened, bench, votes>>
  BY DEF FinalizeResolution, Unsettled
<1>6. votes' \in [DisputeIds -> [Officials -> {"none", "Recipient", "Sender"}]]
  BY <1>1, <1>5 DEF DisputeTypeOK
<1>7. QED
  BY <1>1, <1>2, <1>3, <1>4, <1>5, <1>6, AwardStep

LEMMA ResolveAppealStep ==
    ASSUME DisputeInv, NEW d \in DisputeIds, NEW j, NEW ruling \in Rulings,
           ResolveAppeal(j, d, ruling), UNCHANGED now
    PROVE  DisputeInv'
<1> DEFINE q == RecordRuling(disputes[d], ruling)
<1>1. disputes[d] \in DisputeRecord /\ DisputeTypeOK
  BY InvFacts
<1>2. /\ q \in DisputeRecord /\ RulingOf(q) = ruling
      /\ q.forAgent => ruling = "Agent" /\ ~q.forRecipient
      /\ q.amount = disputes[d].amount /\ q.fee = disputes[d].fee
      /\ q.sender = disputes[d].sender /\ q.recipient = disputes[d].recipient
      /\ q.opener = disputes[d].opener /\ q.agent = disputes[d].agent
  BY <1>1, RulingFields
<1>3. /\ Unsettled(d) /\ Award(d, q, ruling) /\ UNCHANGED <<opened, bench, votes>>
      /\ ruling = "Agent" => disputes[d].agent # Nobody
  BY DEF ResolveAppeal, Unsettled, MayRule
<1>4. votes' \in [DisputeIds -> [Officials -> {"none", "Recipient", "Sender"}]]
  BY <1>1, <1>3 DEF DisputeTypeOK
<1> HIDE DEF q
<1>5. QED
  BY <1>2, <1>3, <1>4, AwardStep

LEMMA ClaimExpiredStep ==
    ASSUME DisputeInv, NEW d \in DisputeIds, NEW a \in Accounts,
           ClaimExpired(a, d), UNCHANGED now
    PROVE  DisputeInv'
<1> DEFINE r == [disputes[d] EXCEPT !.status = "Expired"]
           o == [winner |-> a, feeTo |-> disputes[d].opener]
<1>1. disputes[d] \in DisputeRecord /\ DisputeTypeOK /\ Lawful(disputes[d], outcome[d])
  BY InvFacts
<1>2. disputes[d].status = "Open" /\ Unsettled(d) /\ Pay(d, r, a, disputes[d].opener)
  BY DEF ClaimExpired, IsOpen, Unsettled
<1>3. r \in DisputeRecord
  BY <1>1 DEF DisputeRecord, Statuses, Settlements
<1>4. /\ r.status = "Expired" /\ r.amount = disputes[d].amount
      /\ r.fee = disputes[d].fee /\ r.sender = disputes[d].sender
      /\ r.recipient = disputes[d].recipient /\ r.opener = disputes[d].opener
      /\ r.agent = disputes[d].agent /\ r.appealBy = disputes[d].appealBy
      /\ r.forAgent = disputes[d].forAgent /\ r.forRecipient = disputes[d].forRecipient
  BY <1>1 DEF DisputeRecord
<1>5. disputes[d].opener \in Someone
  BY <1>1, RecordFields
<1>6. o \in OutcomeRecord /\ o.winner = a
  BY <1>5 DEF OutcomeRecord, Someone
<1>7. disputes[d].appealBy = 0 /\ ~disputes[d].forAgent /\ ~disputes[d].forRecipient
  BY <1>1, <1>2 DEF Lawful
<1> HIDE DEF r
<1>8. Lawful(r, o)
  <2>1. r.sender \in Accounts /\ r.recipient \in Accounts /\ r.opener \in Accounts
    BY <1>1, <1>2, <1>4 DEF Lawful
  <2> HIDE DEF o
  <2>2. QED
    BY <1>3, <1>4, <1>6, <1>7, <2>1 DEF Lawful, Settlements
<1>9. r.status \in Settlements
  BY <1>4 DEF Settlements
<1>10. votes' \in [DisputeIds -> [Officials -> {"none", "Recipient", "Sender"}]]
       /\ UNCHANGED <<now, opened, bench>>
  BY <1>1 DEF DisputeTypeOK, ClaimExpired
<1>11. QED
  BY <1>2, <1>4, <1>8, <1>9, <1>10, PayStep DEF o

LEMMA CastVoteStep ==
    ASSUME DisputeInv, NEW d \in DisputeIds, NEW j \in Officials,
           NEW side \in {"Recipient", "Sender"}, CastVote(j, d, side), UNCHANGED now
    PROVE  DisputeInv'
<1>1. disputes[d] \in DisputeRecord /\ DisputeTypeOK /\ Lawful(disputes[d], outcome[d])
  BY InvFacts
<1>2. /\ Unsettled(d) /\ disputes[d].status = "Open"
      /\ votes' = [votes EXCEPT ![d][j] = side] /\ UNCHANGED <<opened, bench>>
  BY DEF CastVote, IsOpen, Unsettled
<1>3. votes' \in [DisputeIds -> [Officials -> {"none", "Recipient", "Sender"}]]
  BY <1>1, <1>2 DEF DisputeTypeOK
<1>4. disputes[d].appealBy = 0 /\ ~disputes[d].forAgent
  BY <1>1, <1>2 DEF Lawful
<1>5. CASE \E ruling \in {"Recipient", "Sender"} : Award(d, disputes[d], ruling)
  <2>1. PICK ruling \in {"Recipient", "Sender"} : Award(d, disputes[d], ruling)
    BY <1>5
  <2>2. ruling \in Rulings /\ ruling # "Agent"
    BY DEF Rulings
  <2>3. QED
    BY <1>1, <1>2, <1>3, <1>4, <2>1, <2>2, AwardStep
<1>6. CASE UNCHANGED <<disputes, custody, outcome>>
  <2>1. now' \in 0..MaxTime /\ bench' \in BenchRecord
    BY <1>1, <1>2 DEF DisputeTypeOK, ClockTypeOK
  <2>2. QED
    BY <1>2, <1>3, <1>6, <2>1, QuietStep
<1>7. QED
  BY <1>5, <1>6 DEF CastVote

LEMMA SetQuorumField ==
    ASSUME NEW bps, Appoint("quorum", bps) PROVE bench' = [bench EXCEPT !.quorum = bps]
BY Zenon DEF Appoint

\* Each setting the admin changes leaves the bench a bench.
LEMMA NewOfficial ==
    ASSUME bench \in BenchRecord, NEW j \in Officials,
           Appoint("nominee", j) \/ Appoint("super", j) \/ Appoint("distributor", j)
    PROVE  bench' \in BenchRecord
<1>1. j \in Nominees
  BY DEF Nominees
<1>2. CASE Appoint("nominee", j)
  <2>1. bench' = [bench EXCEPT !.nominee = j]
    BY <1>2, Zenon DEF Appoint
  <2>2. QED
    BY <1>1, <2>1, BenchShape, SMTT(30)
<1>3. CASE Appoint("super", j)
  <2>1. bench' = [bench EXCEPT !.super = j]
    BY <1>3, Zenon DEF Appoint
  <2>2. QED
    BY <2>1, BenchShape, SMTT(30)
<1>4. CASE Appoint("distributor", j)
  <2>1. bench' = [bench EXCEPT !.distributor = j]
    BY <1>4, Zenon DEF Appoint
  <2>2. QED
    BY <2>1, BenchShape, SMTT(30)
<1>5. QED
  BY <1>2, <1>3, <1>4

LEMMA NewPanel ==
    ASSUME bench \in BenchRecord, NEW P \in SUBSET Officials, Appoint("panel", P)
    PROVE  bench' \in BenchRecord
<1>1. bench' = [bench EXCEPT !.panel = P]
  BY Zenon DEF Appoint
<1>2. P \in Panels
  BY DEF Panels
<1>3. QED
  BY <1>1, <1>2, BenchShape, SMTT(30)

LEMMA NewArbitrator ==
    ASSUME bench \in BenchRecord, NEW j \in Officials, AcceptArbitrator(j)
    PROVE  bench' \in BenchRecord
<1>1. PICK b : b = [bench EXCEPT !.arbitrator = j]
  OBVIOUS
<1>2. bench' = [b EXCEPT !.nominee = Nobody]
  BY <1>1, Zenon DEF AcceptArbitrator
<1>3. b \in BenchRecord
  BY <1>1, BenchShape, SMTT(30)
<1>4. Nobody \in Nominees
  BY DEF Nominees
<1>5. QED
  BY <1>2, <1>3, <1>4, BenchShape, SMTT(30)

LEMMA NewNumbers ==
    ASSUME bench \in BenchRecord
    PROVE  /\ \A bps : SetQuorumBps(bps) => bench' \in BenchRecord
           /\ \A fee \in Int : UpdateFilingFee(fee) => bench' \in BenchRecord
<1>1. ASSUME NEW bps, SetQuorumBps(bps) PROVE bench' \in BenchRecord
  <2>1. bps \in QuorumRange /\ Appoint("quorum", bps)
    BY <1>1, SMTT(30) DEF SetQuorumBps, QuorumRange
  <2>2. bench' = [bench EXCEPT !.quorum = bps]
    BY <2>1, SetQuorumField, Zenon
  <2>3. QED
    BY <2>1, <2>2, BenchShape, SMTT(30)
<1>2. ASSUME NEW fee \in Int, UpdateFilingFee(fee) PROVE bench' \in BenchRecord
  <2>1. bench' = [bench EXCEPT !.filingFee = fee]
    BY <1>2, Zenon DEF UpdateFilingFee, Appoint
  <2>2. fee \in FeeRange
    BY DEF FeeRange
  <2>3. QED
    BY <2>1, <2>2, BenchShape, SMTT(30)
<1>3. QED
  BY <1>1, <1>2

LEMMA NewFlags ==
    ASSUME bench \in BenchRecord, NEW flag \in BOOLEAN,
           Appoint("paused", flag) \/ Appoint("registered", flag)
    PROVE  bench' \in BenchRecord
<1>1. flag \in Flags
  BY DEF Flags
<1>2. CASE Appoint("paused", flag)
  <2>1. bench' = [bench EXCEPT !.paused = flag]
    BY <1>2, Zenon DEF Appoint
  <2>2. QED
    BY <1>1, <2>1, BenchShape, SMTT(30)
<1>3. CASE Appoint("registered", flag)
  <2>1. bench' = [bench EXCEPT !.registered = flag]
    BY <1>3, Zenon DEF Appoint
  <2>2. QED
    BY <1>1, <2>1, BenchShape, SMTT(30)
<1>4. QED
  BY <1>2, <1>3

\* The administration changes the bench and nothing else, and leaves it a
\* bench whatever the filing fee: a negative one is accepted.
LEMMA ManageFacts ==
    ASSUME DisputeInv, Manage
    PROVE  UNCHANGED <<disputes, opened, custody, votes, outcome>> /\ bench' \in BenchRecord
<1>1. bench \in BenchRecord
  BY DEF DisputeInv, DisputesFunded, DisputeTypeOK
<1> DEFINE quiet == UNCHANGED <<disputes, opened, custody, votes, outcome>>
<1>2. ASSUME NEW field, NEW value, Appoint(field, value) PROVE quiet
  BY <1>2 DEF Appoint
<1>3. ASSUME NEW j \in Officials,
             \/ AddArbitrator(j) \/ RemoveArbitrator(j)
             \/ ProposeNewArbitrator(j) \/ AcceptArbitrator(j)
             \/ SetSuperArbitrator(j) \/ SetFeeDistributorAddress(j)
      PROVE  quiet /\ bench' \in BenchRecord
  <2>1. CASE AddArbitrator(j)
    <3>1. bench.panel \cup {j} \in SUBSET Officials
      BY <1>1 DEF BenchRecord
    <3>2. QED
      BY <1>1, <1>2, <2>1, <3>1, NewPanel DEF AddArbitrator
  <2>2. CASE RemoveArbitrator(j)
    <3>1. bench.panel \ {j} \in SUBSET Officials
      BY <1>1 DEF BenchRecord
    <3>2. QED
      BY <1>1, <1>2, <2>2, <3>1, NewPanel DEF RemoveArbitrator
  <2>3. CASE ProposeNewArbitrator(j)
    BY <1>1, <1>2, <2>3, NewOfficial DEF ProposeNewArbitrator
  <2>4. CASE AcceptArbitrator(j)
    BY <1>1, <2>4, NewArbitrator DEF AcceptArbitrator
  <2>5. CASE SetSuperArbitrator(j)
    BY <1>1, <1>2, <2>5, NewOfficial DEF SetSuperArbitrator
  <2>6. CASE SetFeeDistributorAddress(j)
    BY <1>1, <1>2, <2>6, NewOfficial DEF SetFeeDistributorAddress
  <2>7. QED
    BY <1>3, <2>1, <2>2, <2>3, <2>4, <2>5, <2>6
<1>4. ASSUME NEW bps \in Quorums, SetQuorumBps(bps) PROVE quiet /\ bench' \in BenchRecord
  <2>1. quiet
    BY <1>4 DEF SetQuorumBps, Appoint
  <2>2. bench' \in BenchRecord
    BY <1>1, <1>4, NewNumbers
  <2>3. QED
    BY <2>1, <2>2
<1>5. ASSUME NEW fee \in FilingFees, UpdateFilingFee(fee) PROVE quiet /\ bench' \in BenchRecord
  <2>1. fee \in Int
    BY ConstantFacts
  <2>2. QED
    BY <1>1, <1>2, <1>5, <2>1, NewNumbers DEF UpdateFilingFee
<1>6. ASSUME SetEscrowContract \/ Pause \/ Unpause PROVE quiet /\ bench' \in BenchRecord
  <2>1. \E b \in BOOLEAN : Appoint("paused", b) \/ Appoint("registered", b)
    BY <1>6, Zenon DEF SetEscrowContract, Pause, Unpause
  <2>2. PICK b \in BOOLEAN : Appoint("paused", b) \/ Appoint("registered", b)
    BY <2>1
  <2>3. quiet
    BY <2>2 DEF Appoint
  <2>4. QED
    BY <1>1, <2>2, <2>3, NewFlags
<1>7. QED
  BY <1>3, <1>4, <1>5, <1>6 DEF Manage

LEMMA ManageStep ==
    ASSUME DisputeInv, Manage, UNCHANGED now
    PROVE  DisputeInv'
<1>1. DisputeTypeOK
  BY DEF DisputeInv, DisputesFunded
<1>2. UNCHANGED <<disputes, opened, custody, votes, outcome>> /\ bench' \in BenchRecord
  BY ManageFacts
<1>3. /\ now' \in 0..MaxTime
      /\ votes' \in [DisputeIds -> [Officials -> {"none", "Recipient", "Sender"}]]
  BY <1>1, <1>2 DEF DisputeTypeOK, ClockTypeOK
<1>4. QED
  BY <1>2, <1>3, QuietStep

LEMMA TickStep ==
    ASSUME DisputeInv, Tick, UNCHANGED disputeVars
    PROVE  DisputeInv'
<1>1. DisputeTypeOK
  BY DEF DisputeInv, DisputesFunded
<1>2. UNCHANGED <<disputes, opened, custody, bench, votes, outcome>>
  BY DEF disputeVars
<1>3. now' \in 0..MaxTime
  BY <1>1, ConstantFacts DEF DisputeTypeOK, ClockTypeOK, Tick
<1>4. bench' \in BenchRecord
      /\ votes' \in [DisputeIds -> [Officials -> {"none", "Recipient", "Sender"}]]
  BY <1>1, <1>2 DEF DisputeTypeOK
<1>5. QED
  BY <1>2, <1>3, <1>4, QuietStep

-----------------------------------------------------------------------------
(* The theorems.                                                           *)

LEMMA InitInv == DisputeInit => DisputeInv
<1> SUFFICES ASSUME DisputeInit PROVE DisputeInv
  OBVIOUS
<1>1. /\ disputes = [d \in DisputeIds |-> NoDispute] /\ opened = 0 /\ custody = 0
      /\ outcome = [d \in DisputeIds |-> Undecided] /\ now = 0
      /\ votes = [d \in DisputeIds |-> [j \in Officials |-> "none"]]
  BY DEF DisputeInit, ClockInit
<1>2. bench \in BenchRecord
  BY ConstantFacts DEF DisputeInit, BenchRecord
<1>3. \A d \in DisputeIds : Lawful(disputes[d], outcome[d])
  BY <1>1, NothingIsLawful
<1>4. DisputeTypeOK
  <2>1. \A d \in DisputeIds : disputes[d].status \notin Settlements
    BY <1>1 DEF NoDispute, Settlements
  <2>2. NoDispute \in DisputeRecord /\ Undecided \in OutcomeRecord
    BY NothingIsLawful DEF Lawful
  <2>3. QED
    BY <1>1, <1>2, <2>1, <2>2, ConstantFacts DEF DisputeTypeOK, ClockTypeOK
<1>5. custody = Total(InCustody, MaxDisputes)
  <2>1. \A d \in DisputeIds : InCustody[d] = Lodged(disputes[d])
    BY <1>4, HeldNat
  <2>2. \A i \in 1..MaxDisputes : InCustody[i] = 0
    BY <1>1, <2>1, NothingIsLawful DEF DisputeIds
  <2>3. QED
    BY <1>1, <2>2, ConstantFacts, TotalOfZeros
<1>6. QED
  BY <1>1, <1>3, <1>4, <1>5 DEF DisputeInv, DisputesFunded, Unused

LEMMA ArgueStep ==
    ASSUME DisputeInv, NEW d \in DisputeIds, Argue(d), UNCHANGED now
    PROVE  DisputeInv'
<1>1. Witnesses \subseteq Accounts
  BY DisputeConstants
<1>2. QED
  BY <1>1, SubmitEvidenceStep, AppealStep, ResolveDisputeStep DEF Argue

LEMMA DecideStep ==
    ASSUME DisputeInv, NEW d \in DisputeIds, Decide(d), UNCHANGED now
    PROVE  DisputeInv'
BY FinalizeResolutionStep, ClaimExpiredStep, ResolveAppealStep, CastVoteStep DEF Decide

LEMMA OpenStep ==
    ASSUME DisputeInv, OpenFreeForm \/ OpenBacked, UNCHANGED now
    PROVE  DisputeInv'
<1>1. CASE OpenFreeForm
  BY <1>1, OpenDisputeStep DEF OpenFreeForm
<1>2. CASE OpenBacked
  <2>1. PICK a \in Accounts, b \in Backings : OpenEscrowDispute(a, b)
    BY <1>2 DEF OpenBacked
  <2>2. /\ b.sender \in Accounts /\ b.recipient \in Accounts /\ b.agent \in Accounts
        /\ b.amount \in Int /\ b.confirmed \in BOOLEAN /\ b.escrow \in Nat
    BY DisputeConstants DEF Backing
  <2>3. QED
    BY <2>1, <2>2, OpenEscrowDisputeStep
<1>3. QED
  BY <1>1, <1>2

LEMMA NextStep ==
    ASSUME DisputeInv, [DisputeNext]_vars
    PROVE  DisputeInv'
<1>1. CASE Tick /\ UNCHANGED disputeVars
  BY <1>1, TickStep
<1>2. CASE DisputeStep /\ UNCHANGED now
  BY <1>2, OpenStep, ArgueStep, DecideStep, ManageStep DEF DisputeStep
<1>3. CASE UNCHANGED vars
  <2>1. UNCHANGED <<now, disputes, opened, custody, bench, votes, outcome>>
    BY <1>3 DEF vars, disputeVars
  <2>2. /\ now' \in 0..MaxTime /\ bench' \in BenchRecord
        /\ votes' \in [DisputeIds -> [Officials -> {"none", "Recipient", "Sender"}]]
    BY <2>1 DEF DisputeInv, DisputesFunded, DisputeTypeOK, ClockTypeOK
  <2>3. QED
    BY <2>1, <2>2, QuietStep
<1>4. QED
  BY <1>1, <1>2, <1>3 DEF DisputeNext

LEMMA Invariance == DisputeSpec => []DisputeInv
<1>1. DisputeInv /\ [DisputeNext]_vars => DisputeInv'
  BY NextStep
<1>2. QED
  BY <1>1, InitInv, PTL DEF DisputeSpec

\* Whatever is filed, ruled, appealed, voted or left to expire, and however
\* the filing fee changes meanwhile, the contract holds exactly the amounts
\* and filing fees of the unsettled disputes (and its state has its types).
THEOREM DisputesAreFunded == DisputeSpec => []DisputesFunded
<1>1. DisputeInv => DisputesFunded
  BY DEF DisputeInv
<1>2. QED
  BY <1>1, Invariance, PTL

\* Every settlement by ruling pays the party of the last recorded ruling and
\* carries that ruling's status, with any number of rulings and appeals.
THEOREM RulingsAreCarriedOut == DisputeSpec => []RulingCarriedOut
<1>1. ASSUME DisputeInv PROVE RulingCarriedOut
  <2>1. SUFFICES ASSUME NEW d \in DisputeIds, disputes[d].status \in Settlements,
                        disputes[d].appealBy > 0
                 PROVE  /\ disputes[d].status = SettledAs(PendingRuling(d))
                        /\ outcome[d].winner = Payee(d, PendingRuling(d))
    BY DEF RulingCarriedOut
  <2>2. Lawful(disputes[d], outcome[d])
    BY <1>1, InvFacts
  <2>3. /\ disputes[d].status = SettledAs(RulingOf(disputes[d]))
        /\ outcome[d].winner = Favoured(disputes[d], RulingOf(disputes[d]))
    BY <2>1, <2>2 DEF Lawful
  <2>4. /\ PendingRuling(d) = RulingOf(disputes[d])
        /\ Payee(d, PendingRuling(d)) = Favoured(disputes[d], PendingRuling(d))
    BY DEF PendingRuling, RulingOf, Payee, Favoured
  <2>5. QED
    BY <2>3, <2>4
<1>2. QED
  BY <1>1, Invariance, PTL

-----------------------------------------------------------------------------
(* The action properties.  Only five steps change an outcome or settle a   *)
(* dispute; what each of them asks for is the property.                    *)

\* A step that pays dispute d changes the record and the outcome of no other.
LEMMA PayTouchesOne ==
    ASSUME DisputeTypeOK, NEW c \in DisputeIds, NEW d \in DisputeIds, NEW r, NEW w, NEW f,
           Pay(d, r, w, f)
    PROVE  /\ c # d => disputes'[c] = disputes[c] /\ outcome'[c] = outcome[c]
           /\ disputes'[d] = r
BY DEF Pay, DisputeTypeOK

\* What a settlement of d asks of d, whichever of its steps it is.
LEMMA DecideFacts ==
    ASSUME DisputeInv, NEW c \in DisputeIds, NEW d \in DisputeIds, Decide(d)
    PROVE  /\ c # d => disputes'[c] = disputes[c] /\ outcome'[c] = outcome[c]
           /\ disputes[d].status = "Appealing" => now > disputes[d].appealBy
           /\ disputes[d].status = "Open" /\ disputes'[d].status # "Open" =>
                 \/ disputes'[d].status = "Expired"
                 \/ /\ UNCHANGED bench
                    /\ \E side \in {"Recipient", "Sender"} :
                          /\ disputes'[d].status = SettledAs(side)
                          /\ ReachesQuorum(Tally(votes', d, side))
<1> DEFINE goal ==
           /\ c # d => disputes'[c] = disputes[c] /\ outcome'[c] = outcome[c]
           /\ disputes[d].status = "Appealing" => now > disputes[d].appealBy
           /\ disputes[d].status = "Open" /\ disputes'[d].status # "Open" =>
                 \/ disputes'[d].status = "Expired"
                 \/ /\ UNCHANGED bench
                    /\ \E side \in {"Recipient", "Sender"} :
                          /\ disputes'[d].status = SettledAs(side)
                          /\ ReachesQuorum(Tally(votes', d, side))
<1>1. DisputeTypeOK /\ disputes[d] \in DisputeRecord
  BY InvFacts
<1>2. CASE FinalizeResolution(d)
  <2>1. /\ disputes[d].status = "Appealing" /\ now > disputes[d].appealBy
        /\ Award(d, disputes[d], PendingRuling(d))
    BY <1>2 DEF FinalizeResolution
  <2>2. QED
    BY <1>1, <2>1, PayTouchesOne DEF Award
<1>3. ASSUME NEW a \in Accounts, ClaimExpired(a, d) PROVE goal
  <2>1. /\ disputes[d].status = "Open"
        /\ Pay(d, [disputes[d] EXCEPT !.status = "Expired"], a, disputes[d].opener)
    BY <1>3 DEF ClaimExpired, IsOpen
  <2>2. [disputes[d] EXCEPT !.status = "Expired"].status = "Expired"
    BY <1>1 DEF DisputeRecord
  <2>3. disputes'[d] = [disputes[d] EXCEPT !.status = "Expired"]
    BY <1>1, <2>1, PayTouchesOne
  <2>4. c # d => disputes'[c] = disputes[c] /\ outcome'[c] = outcome[c]
    BY <1>1, <2>1, PayTouchesOne
  <2>5. QED
    BY <2>1, <2>2, <2>3, <2>4
<1>4. ASSUME NEW j \in Officials, NEW ruling \in Rulings, ResolveAppeal(j, d, ruling) PROVE goal
  <2>1. /\ disputes[d].status = "UnderAppeal"
        /\ Award(d, RecordRuling(disputes[d], ruling), ruling)
    BY <1>4 DEF ResolveAppeal
  <2>2. QED
    BY <1>1, <2>1, PayTouchesOne DEF Award
<1>5. ASSUME NEW j \in Officials, NEW side \in {"Recipient", "Sender"}, CastVote(j, d, side)
      PROVE  goal
  <2>1. disputes[d].status = "Open" /\ UNCHANGED bench
    BY <1>5 DEF CastVote, IsOpen
  <2>2. CASE UNCHANGED <<disputes, custody, outcome>>
    BY <2>1, <2>2
  <2>3. ASSUME NEW s \in {"Recipient", "Sender"}, Award(d, disputes[d], s),
               ReachesQuorum(Tally(votes', d, s))
        PROVE  goal
    <3>1. [disputes[d] EXCEPT !.status = SettledAs(s)].status = SettledAs(s)
      BY <1>1 DEF DisputeRecord
    <3>2. disputes'[d].status = SettledAs(s)
      BY <1>1, <2>3, <3>1, PayTouchesOne, ZenonT(30) DEF Award
    <3>3. c # d => disputes'[c] = disputes[c] /\ outcome'[c] = outcome[c]
      BY <1>1, <2>3, PayTouchesOne DEF Award
    <3>4. QED
      BY <2>1, <2>3, <3>2, <3>3
  <2>4. QED
    BY <1>5, <2>2, <2>3 DEF CastVote
<1>6. QED
  BY <1>2, <1>3, <1>4, <1>5 DEF Decide

\* No other step settles a dispute that exists or pays anybody.
LEMMA OtherSteps ==
    ASSUME DisputeInv, DisputeStep, NEW c \in DisputeIds, disputes[c].status # "None",
           ~ \E d \in DisputeIds : Decide(d)
    PROVE  /\ outcome'[c] = outcome[c]
           /\ disputes'[c].status \in Settlements => disputes[c].status \in Settlements
<1> DEFINE goal == /\ outcome'[c] = outcome[c]
                   /\ disputes'[c].status \in Settlements => disputes[c].status \in Settlements
<1>1. /\ DisputeTypeOK /\ Unused /\ disputes \in [DisputeIds -> DisputeRecord]
  BY DEF DisputeInv, DisputesFunded, DisputeTypeOK
<1>2. ASSUME NEW opener, NEW agent, NEW confirmed, NEW escrow, NEW p,
             Register(opener, agent, confirmed, escrow, p)
      PROVE  goal
  <2>1. c # opened + 1
    <3>1. opened \in Nat /\ opened + 1 > opened
      BY <1>1, ConstantFacts DEF DisputeTypeOK
    <3>2. c > opened => disputes[c].status = "None"
      BY <1>1 DEF Unused, NoDispute
    <3>3. QED
      BY <3>1, <3>2
  <2>2. disputes'[c] = disputes[c] /\ outcome' = outcome
    BY <1>1, <1>2, <2>1 DEF Register
  <2>3. QED
    BY <2>2
<1>3. CASE OpenFreeForm
  BY <1>2, <1>3 DEF OpenFreeForm, OpenDispute
<1>4. CASE OpenBacked
  BY <1>2, <1>4 DEF OpenBacked, OpenEscrowDispute
<1>5. ASSUME NEW d \in DisputeIds, Argue(d) PROVE goal
  <2>1. disputes[d] \in DisputeRecord
    BY <1>1
  <2>2. ASSUME NEW r, disputes' = [disputes EXCEPT ![d] = r], r.status \notin Settlements,
               outcome' = outcome
        PROVE  goal
    BY <1>1, <2>2
  <2>3. ASSUME NEW a \in Accounts, SubmitEvidence(a, d) PROVE goal
    <3>1. /\ disputes' = [disputes EXCEPT ![d] = [disputes[d] EXCEPT !.evidence = @ \cup {a}]]
          /\ disputes[d].status = "Open" /\ outcome' = outcome
      BY <2>3 DEF SubmitEvidence, IsOpen
    <3>2. [disputes[d] EXCEPT !.evidence = @ \cup {a}].status = "Open"
      BY <2>1, <3>1 DEF DisputeRecord
    <3>3. QED
      BY <2>2, <3>1, <3>2 DEF Settlements
  <2>4. ASSUME NEW a, Appeal(a, d) PROVE goal
    <3>1. [disputes[d] EXCEPT !.status = "UnderAppeal"].status = "UnderAppeal"
      BY <2>1 DEF DisputeRecord
    <3>2. QED
      BY <2>2, <2>4, <3>1 DEF Appeal, Settlements
  <2>5. ASSUME NEW j, NEW ruling \in Rulings, ResolveDispute(j, d, ruling) PROVE goal
    <3> DEFINE q == RecordRuling(disputes[d], ruling)
               r == [q EXCEPT !.status = "Appealing", !.appealBy = now + AppealSecs]
    <3>1. q \in DisputeRecord
      BY <2>1, RulingFields
    <3>2. disputes' = [disputes EXCEPT ![d] = r] /\ outcome' = outcome
      BY <2>5 DEF ResolveDispute
    <3> HIDE DEF q
    <3>3. r.status = "Appealing"
      BY <3>1 DEF DisputeRecord
    <3>4. QED
      BY <2>2, <3>2, <3>3 DEF Settlements
  <2>6. Witnesses \subseteq Accounts
    BY DisputeConstants
  <2>7. QED
    BY <1>5, <2>3, <2>4, <2>5, <2>6 DEF Argue
<1>6. CASE Manage
  BY <1>6, ManageFacts
<1>7. QED
  BY <1>3, <1>4, <1>5, <1>6 DEF DisputeStep

\* A ruling of the single arbitrator moves no money before its appeal window
\* is over, unless a party has appealed, whoever calls what in which order.
THEOREM AppealWindowIsKept == DisputeSpec => AppealWindowKept
<1> DEFINE Kept(d) == disputes[d].status = "Appealing" /\ outcome'[d] # outcome[d]
                      => now > disputes[d].appealBy
<1>1. ASSUME DisputeInv, [DisputeNext]_vars PROVE \A d \in DisputeIds : Kept(d)
  <2>1. SUFFICES ASSUME NEW c \in DisputeIds, disputes[c].status = "Appealing",
                        outcome'[c] # outcome[c]
                 PROVE  now > disputes[c].appealBy
    OBVIOUS
  <2>2. DisputeStep
    BY <1>1, <2>1 DEF DisputeNext, vars, disputeVars
  <2>3. PICK d \in DisputeIds : Decide(d)
    BY <1>1, <2>1, <2>2, OtherSteps
  <2>4. c = d
    BY <1>1, <2>1, <2>3, DecideFacts
  <2>5. QED
    BY <1>1, <2>1, <2>3, <2>4, DecideFacts
<1>2. DisputeInv /\ [DisputeNext]_vars => [\A d \in DisputeIds : Kept(d)]_vars
  BY <1>1
<1> HIDE DEF Kept
<1>3. [][DisputeNext]_vars /\ []DisputeInv => [][\A d \in DisputeIds : Kept(d)]_vars
  BY <1>2, PTL
<1>4. [][\A d \in DisputeIds : Kept(d)]_vars => AppealWindowKept
  BY DEF AppealWindowKept, Kept
<1>5. QED
  BY <1>3, <1>4, Invariance, PTL DEF DisputeSpec

\* A dispute paid to a party without a ruling of the arbitrator has more than
\* the quorum of the present panel behind that party, however often members
\* were added and removed while the votes came in.
THEOREM PanelHasDecided == DisputeSpec => PanelDecides
<1> DEFINE Carried(d, ruling) ==
               disputes[d].status = "Open" /\ disputes'[d].status = SettledAs(ruling)
               => Cardinality(Supporters(d, ruling)') * 10000
                     > bench'.quorum * Cardinality(bench'.panel)
           AllCarried == \A d \in DisputeIds, ruling \in {"Recipient", "Sender"} : Carried(d, ruling)
<1>1. ASSUME DisputeInv, [DisputeNext]_vars PROVE AllCarried
  <2>1. SUFFICES ASSUME NEW c \in DisputeIds, NEW ruling \in {"Recipient", "Sender"},
                        disputes[c].status = "Open", disputes'[c].status = SettledAs(ruling)
                 PROVE  Cardinality(Supporters(c, ruling)') * 10000
                           > bench'.quorum * Cardinality(bench'.panel)
    OBVIOUS
  <2>2. /\ SettledAs(ruling) \in Settlements /\ SettledAs(ruling) # "Expired"
        /\ SettledAs(ruling) # "Open" /\ "Open" \notin Settlements
        /\ \A side \in {"Recipient", "Sender"} : SettledAs(side) = SettledAs(ruling) => side = ruling
    BY DEF SettledAs, Settlements
  <2>3. DisputeStep
    BY <1>1, <2>1, <2>2 DEF DisputeNext, vars, disputeVars
  <2>4. PICK d \in DisputeIds : Decide(d)
    BY <1>1, <2>1, <2>2, <2>3, OtherSteps
  <2>5. c = d
    BY <1>1, <2>1, <2>2, <2>4, DecideFacts
  <2>6. UNCHANGED bench /\ ReachesQuorum(Tally(votes', c, ruling))
    BY <1>1, <2>1, <2>2, <2>4, <2>5, DecideFacts
  <2>7. Tally(votes', c, ruling) = Cardinality(Supporters(c, ruling)')
    BY <2>6 DEF Tally, Supporters
  <2>8. QED
    BY <2>6, <2>7 DEF ReachesQuorum
<1>2. DisputeInv /\ [DisputeNext]_vars => [AllCarried]_vars
  BY <1>1
<1> HIDE DEF AllCarried
<1>3. [][DisputeNext]_vars /\ []DisputeInv => [][AllCarried]_vars
  BY <1>2, PTL
<1>4. [][AllCarried]_vars => PanelDecides
  BY DEF PanelDecides, AllCarried
<1>5. QED
  BY <1>3, <1>4, Invariance, PTL DEF DisputeSpec

-----------------------------------------------------------------------------
(* What the steps leave alone, for a contract that has backed a dispute.   *)

\* The part of a record that is settled when the dispute is opened.
SameCase(r, q) ==
    /\ q.sender = r.sender /\ q.recipient = r.recipient /\ q.agent = r.agent
    /\ q.amount = r.amount /\ q.confirmed = r.confirmed /\ q.escrow = r.escrow

WithStatus(r, s) == [r EXCEPT !.status = s]

LEMMA CaseKept ==
    ASSUME NEW r \in DisputeRecord, NEW s
    PROVE  SameCase(r, WithStatus(r, s)) /\ WithStatus(r, s).status = s
BY DEF DisputeRecord, SameCase, WithStatus

\* The records a ruling is stored in.
LEMMA RulingKept ==
    ASSUME NEW r \in DisputeRecord, NEW ruling \in Rulings
    PROVE  RecordRuling(r, ruling) \in DisputeRecord /\ SameCase(r, RecordRuling(r, ruling))
<1>1. RecordRuling(r, ruling) \in DisputeRecord
  BY RulingFields
<1>2. SameCase(r, RecordRuling(r, ruling))
  BY DEF RecordRuling, DisputeRecord, SameCase
<1>3. QED
  BY <1>1, <1>2

\* A payment settles the dispute in favour of its winner.
LEMMA PayFrame ==
    ASSUME DisputeTypeOK, NEW d \in DisputeIds, NEW r, NEW w, NEW f, Pay(d, r, w, f)
    PROVE  disputes'[d] = r /\ outcome'[d].winner = w
<1>1. outcome' = [outcome EXCEPT ![d] = [winner |-> w, feeTo |-> f]]
      /\ disputes' = [disputes EXCEPT ![d] = r]
  BY DEF Pay
<1>2. [winner |-> w, feeTo |-> f].winner = w
  OBVIOUS
<1>3. QED
  BY <1>1, <1>2 DEF DisputeTypeOK

\* A step that may settle d touches no other dispute and not the case, and
\* settles it or leaves it as it was.
LEMMA DecideFrame ==
    ASSUME DisputeInv, NEW d \in DisputeIds, Decide(d)
    PROVE  /\ Unsettled(d) /\ opened' = opened
           /\ \A c \in DisputeIds : c # d => disputes'[c] = disputes[c] /\ outcome'[c] = outcome[c]
           /\ SameCase(disputes[d], disputes'[d])
           /\ \/ disputes'[d] = disputes[d] /\ outcome'[d] = outcome[d]
              \/ /\ disputes'[d].status \in Settlements
                 /\ disputes'[d].status = "Expired" => outcome'[d].winner = Claimant(d)
<1>1. DisputeTypeOK /\ disputes[d] \in DisputeRecord
  BY InvFacts
<1>2. \A c \in DisputeIds : c # d => disputes'[c] = disputes[c] /\ outcome'[c] = outcome[c]
  BY DecideFacts
<1> DEFINE kept ==
               /\ Unsettled(d) /\ opened' = opened
               /\ SameCase(disputes[d], disputes'[d])
               /\ \/ disputes'[d] = disputes[d] /\ outcome'[d] = outcome[d]
                  \/ /\ disputes'[d].status \in Settlements
                     /\ disputes'[d].status = "Expired" => outcome'[d].winner = Claimant(d)
<1>3. \A x \in Rulings : SettledAs(x) \in Settlements /\ SettledAs(x) # "Expired"
  BY DEF SettledAs, Rulings, Settlements
<1>4. CASE FinalizeResolution(d)
  <2>1. /\ PendingRuling(d) \in Rulings /\ Unsettled(d) /\ opened' = opened
        /\ Award(d, disputes[d], PendingRuling(d))
    BY <1>4 DEF FinalizeResolution, PendingRuling, Rulings, Unsettled
  <2>2. disputes'[d] = WithStatus(disputes[d], SettledAs(PendingRuling(d)))
    BY <1>1, <2>1, PayFrame DEF Award, WithStatus
  <2>3. /\ SameCase(disputes[d], disputes'[d])
        /\ disputes'[d].status = SettledAs(PendingRuling(d))
    BY <1>1, <2>2, CaseKept
  <2>4. QED
    BY <1>2, <1>3, <2>1, <2>3
<1>5. ASSUME NEW a \in Accounts, ClaimExpired(a, d) PROVE kept
  <2>1. /\ Unsettled(d) /\ opened' = opened /\ a = Claimant(d)
        /\ Pay(d, [disputes[d] EXCEPT !.status = "Expired"], a, disputes[d].opener)
    BY <1>5 DEF ClaimExpired, IsOpen, Unsettled
  <2>2. disputes'[d] = WithStatus(disputes[d], "Expired") /\ outcome'[d].winner = a
    BY <1>1, <2>1, PayFrame DEF WithStatus
  <2>3. QED
    BY <1>1, <2>1, <2>2, CaseKept DEF Settlements
<1>6. ASSUME NEW j \in Officials, NEW ruling \in Rulings, ResolveAppeal(j, d, ruling) PROVE kept
  <2>1. /\ Unsettled(d) /\ opened' = opened
        /\ Award(d, RecordRuling(disputes[d], ruling), ruling)
    BY <1>6 DEF ResolveAppeal, Unsettled
  <2> DEFINE q == RecordRuling(disputes[d], ruling)
  <2>2. disputes'[d] = WithStatus(q, SettledAs(ruling))
    BY <1>1, <2>1, PayFrame DEF Award, WithStatus
  <2>3. SameCase(disputes[d], disputes'[d]) /\ disputes'[d].status = SettledAs(ruling)
    <3>1. q \in DisputeRecord /\ SameCase(disputes[d], q)
      BY <1>1, RulingKept
    <3> HIDE DEF q
    <3>2. QED
      BY <2>2, <3>1, CaseKept DEF SameCase
  <2>4. QED
    BY <1>3, <2>1, <2>3
<1>7. ASSUME NEW j \in Officials, NEW side \in {"Recipient", "Sender"}, CastVote(j, d, side)
      PROVE  kept
  <2>1. Unsettled(d) /\ opened' = opened
    BY <1>7 DEF CastVote, IsOpen, Unsettled
  <2>2. CASE UNCHANGED <<disputes, custody, outcome>>
    BY <2>1, <2>2 DEF SameCase
  <2>3. ASSUME NEW s \in {"Recipient", "Sender"}, Award(d, disputes[d], s) PROVE kept
    <3>1. disputes'[d] = WithStatus(disputes[d], SettledAs(s))
      BY <1>1, <2>3, PayFrame DEF Award, WithStatus
    <3>2. s \in Rulings
      BY DEF Rulings
    <3>3. QED
      BY <1>1, <1>3, <2>1, <3>1, <3>2, CaseKept
  <2>4. QED
    BY <1>7, <2>2, <2>3 DEF CastVote
<1>8. kept
  BY <1>4, <1>5, <1>6, <1>7 DEF Decide
<1>9. QED
  BY <1>2, <1>8

\* Evidence, rulings and appeals touch no case, settle nothing and pay nobody.
LEMMA ArgueFrame ==
    ASSUME DisputeInv, NEW d \in DisputeIds, Argue(d)
    PROVE  /\ opened' = opened /\ outcome' = outcome
           /\ \A c \in DisputeIds :
                 \/ disputes'[c] = disputes[c]
                 \/ /\ SameCase(disputes[c], disputes'[c])
                    /\ Unsettled(c) /\ Unsettled(c)'
<1>1. DisputeTypeOK /\ disputes[d] \in DisputeRecord
  BY InvFacts
<1> DEFINE kept == /\ opened' = opened /\ outcome' = outcome
                   /\ \A c \in DisputeIds :
                         \/ disputes'[c] = disputes[c]
                         \/ /\ SameCase(disputes[c], disputes'[c])
                            /\ Unsettled(c) /\ Unsettled(c)'
<1>2. ASSUME NEW r, SameCase(disputes[d], r), Unsettled(d),
             r.status \in {"Open", "Appealing", "UnderAppeal"},
             disputes' = [disputes EXCEPT ![d] = r], UNCHANGED <<opened, outcome>>
      PROVE  kept
  BY <1>1, <1>2 DEF Unsettled, DisputeTypeOK
<1>3. ASSUME NEW a \in Accounts, SubmitEvidence(a, d) PROVE kept
  <2> DEFINE r == [disputes[d] EXCEPT !.evidence = @ \cup {a}]
  <2>1. disputes' = [disputes EXCEPT ![d] = r] /\ disputes[d].status = "Open"
        /\ UNCHANGED <<opened, outcome>>
    BY <1>3 DEF SubmitEvidence, IsOpen
  <2>2. SameCase(disputes[d], r) /\ r.status = "Open"
    BY <1>1, <2>1 DEF DisputeRecord, SameCase
  <2> HIDE DEF r
  <2>3. QED
    BY <1>2, <2>1, <2>2 DEF Unsettled
<1>4. ASSUME NEW a, Appeal(a, d) PROVE kept
  <2> DEFINE r == [disputes[d] EXCEPT !.status = "UnderAppeal"]
  <2>1. disputes' = [disputes EXCEPT ![d] = r] /\ disputes[d].status = "Appealing"
        /\ UNCHANGED <<opened, outcome>>
    BY <1>4 DEF Appeal
  <2>2. SameCase(disputes[d], r) /\ r.status = "UnderAppeal"
    BY <1>1, CaseKept DEF WithStatus
  <2> HIDE DEF r
  <2>3. QED
    BY <1>2, <2>1, <2>2 DEF Unsettled
<1>5. ASSUME NEW j, NEW ruling \in Rulings, ResolveDispute(j, d, ruling) PROVE kept
  <2> DEFINE q == RecordRuling(disputes[d], ruling)
             r == [q EXCEPT !.status = "Appealing", !.appealBy = now + AppealSecs]
  <2>1. disputes' = [disputes EXCEPT ![d] = r] /\ disputes[d].status = "Open"
        /\ UNCHANGED <<opened, outcome>>
    BY <1>5 DEF ResolveDispute, IsOpen
  <2>2. q \in DisputeRecord /\ SameCase(disputes[d], q)
    BY <1>1, RulingKept
  <2> HIDE DEF q
  <2>3. r.status = "Appealing" /\ SameCase(disputes[d], r)
    BY <2>2 DEF DisputeRecord, SameCase
  <2> HIDE DEF r
  <2>4. QED
    BY <1>2, <2>1, <2>3 DEF Unsettled
<1>6. Witnesses \subseteq Accounts
  BY DisputeConstants
<1>7. QED
  BY <1>3, <1>4, <1>5, <1>6 DEF Argue

\* A new dispute has the next id and touches no other.
LEMMA RegisterFrame ==
    ASSUME DisputeInv, NEW opener, NEW agent, NEW confirmed, NEW escrow, NEW p,
           Register(opener, agent, confirmed, escrow, p)
    PROVE  /\ opened' = opened + 1 /\ opened + 1 \in DisputeIds /\ outcome' = outcome
           /\ \A c \in DisputeIds : c # opened + 1 => disputes'[c] = disputes[c]
           /\ disputes'[opened + 1].status = "Open"
           /\ disputes'[opened + 1].sender = p.sender
           /\ disputes'[opened + 1].recipient = p.recipient
           /\ disputes'[opened + 1].agent = agent
           /\ disputes'[opened + 1].amount = p.amount
           /\ disputes'[opened + 1].confirmed = confirmed
           /\ disputes'[opened + 1].escrow = escrow
           /\ disputes[opened + 1] = NoDispute
<1>1. DisputeTypeOK /\ Unused
  BY DEF DisputeInv, DisputesFunded
<1>2. /\ opened \in 0..MaxDisputes /\ opened < MaxDisputes /\ MaxDisputes \in Nat
      /\ opened' = opened + 1 /\ outcome' = outcome
  BY <1>1, ConstantFacts DEF Register, DisputeTypeOK
<1>3. opened + 1 \in DisputeIds /\ opened + 1 > opened
  BY <1>2 DEF DisputeIds
<1> DEFINE r == [sender |-> p.sender, recipient |-> p.recipient, agent |-> agent,
                 opener |-> opener, amount |-> p.amount, fee |-> bench.filingFee,
                 status |-> "Open", deadline |-> now + DeadlineSecs, appealBy |-> 0,
                 forRecipient |-> FALSE, forAgent |-> FALSE, confirmed |-> confirmed,
                 escrow |-> escrow, evidence |-> {}]
<1>4. disputes' = [disputes EXCEPT ![opened + 1] = r]
  BY DEF Register
<1>5. /\ r.status = "Open" /\ r.sender = p.sender /\ r.recipient = p.recipient
      /\ r.agent = agent /\ r.amount = p.amount /\ r.confirmed = confirmed /\ r.escrow = escrow
  OBVIOUS
<1> HIDE DEF r
<1>6. disputes'[opened + 1] = r
      /\ \A c \in DisputeIds : c # opened + 1 => disputes'[c] = disputes[c]
  BY <1>1, <1>3, <1>4 DEF DisputeTypeOK
<1>7. disputes[opened + 1] = NoDispute
  BY <1>1, <1>3 DEF Unused
<1>8. QED
  BY <1>2, <1>3, <1>5, <1>6, <1>7

\* The contract can pay the stake of every dispute that runs.
LEMMA StakeIsCovered ==
    ASSUME DisputeInv, NEW d \in DisputeIds, Unsettled(d)
    PROVE  Stake(d) <= custody
<1>1. custody = Total(InCustody, MaxDisputes) /\ DisputeTypeOK
  BY DEF DisputeInv, DisputesFunded
<1>2. \A i \in 1..MaxDisputes : InCustody[i] \in Nat
  BY <1>1, HeldNat DEF DisputeIds
<1>3. MaxDisputes \in Nat /\ d \in 1..MaxDisputes
  BY ConstantFacts DEF DisputeIds
<1>4. InCustody[d] <= Total(InCustody, MaxDisputes)
  BY <1>2, <1>3, TotalMember
<1>5. InCustody[d] = Stake(d)
  BY DEF InCustody
<1>6. QED
  BY <1>1, <1>4, <1>5

=============================================================================
