------------------------- MODULE SettlementsProofs -------------------------
(***************************************************************************)
(* Proofs about what an agent-escrow and a payment channel pay out, for    *)
(* any number of agents, escrows, channels and requests and any amounts    *)
(* and rates, and about the rows the backend keeps of agent escrows.       *)
(***************************************************************************)
EXTENDS AgentPayouts, PaymentChannels, SumsProofs

-----------------------------------------------------------------------------
(* The agent-escrow contract.                                              *)
(*                                                                         *)
(* As in EscrowProofs the invariant is local: SoundPayout relates one      *)
(* escrow's record to its history, and one equation ties all the records   *)
(* to the balance.  CellStep re-establishes both after a step that stores  *)
(* a sound record and moves the money that the record says.                *)

-----------------------------------------------------------------------------
(* Shares in basis points.                                                 *)

\* A share is a natural number, no more than the whole.
LEMMA BpsBound ==
    ASSUME NEW amount \in Nat, NEW bps \in Nat, bps <= 10000
    PROVE  Bps(amount, bps) \in Nat /\ Bps(amount, bps) <= amount
<1>1. amount * bps \in Nat /\ amount * bps <= amount * 10000
  OBVIOUS
<1>2. \A x \in Nat : x <= amount * 10000 => x \div 10000 \in Nat /\ x \div 10000 <= amount
  OBVIOUS
<1> DEFINE x == amount * bps
<1>3. x \div 10000 \in Nat /\ x \div 10000 <= amount
  <2> HIDE DEF x
  <2>1. x \in Nat /\ x <= amount * 10000
    BY <1>1 DEF x
  <2>2. QED
    BY <1>2, <2>1
<1>4. QED
  BY <1>3 DEF Bps

\* The shares of two parts, each rounded down, are no more than the share of
\* the two together.
LEMMA BpsOfParts ==
    ASSUME NEW a \in Nat, NEW b \in Nat, NEW bps \in Nat
    PROVE  Bps(a, bps) + Bps(b, bps) <= Bps(a + b, bps)
<1>1. a * bps \in Nat /\ b * bps \in Nat /\ (a + b) * bps = a * bps + b * bps
  OBVIOUS
<1>2. \A x, y \in Nat : x \div 10000 + y \div 10000 <= (x + y) \div 10000
  OBVIOUS
<1>3. QED
  BY <1>1, <1>2 DEF Bps

\* A part has no larger share than the whole.
LEMMA BpsOfPart ==
    ASSUME NEW a \in Nat, NEW b \in Nat, NEW bps \in Nat, bps <= 10000, a <= b
    PROVE  Bps(a, bps) <= Bps(b, bps)
<1> DEFINE c == b - a
<1>0. c \in Nat /\ bps \in Nat /\ a + c = b
  OBVIOUS
<1> HIDE DEF c
<1>1. Bps(a, bps) + Bps(c, bps) <= Bps(a + c, bps)
  BY <1>0, BpsOfParts
<1>2. Bps(c, bps) \in Nat /\ Bps(a, bps) \in Nat /\ Bps(b, bps) \in Nat
  BY <1>0, BpsBound, SMTT(30)
<1>3. QED
  BY <1>0, <1>1, <1>2

-----------------------------------------------------------------------------
(* The invariant.                                                          *)

\* What the contract still holds for a record.
HeldFor(p) == IF p.status = "Pending" THEN p.amount - p.released ELSE 0

\* A record p and its history l agree: what was released went to agents and
\* fees, a refund is the rest, and an insurance payment covers what agents had.
SoundPayout(p, l) ==
    /\ p \in PayoutRecord
    /\ l \in LedgerRecord
    /\ p.released <= p.amount
    /\ l.toAgents + l.toFees = p.released
    /\ l.toFees <= Bps(p.released, p.feeBps)
    /\ p.status = "Cancelled" => l.toSender = p.amount - p.released /\ l.insured <= p.released
    /\ p.status # "Cancelled" => l.toSender = 0 /\ l.insured = 0

\* The ids above the counter have never been used.
UnusedPayouts ==
    \A e \in PayoutIds : e > created => payouts[e] = NoPayout /\ ledger[e] = NoLedger

AllSound == \A e \in PayoutIds : SoundPayout(payouts[e], ledger[e])

AgentInv == AgentFundsCovered /\ AllSound /\ UnusedPayouts

LEMMA NoPayoutSound == SoundPayout(NoPayout, NoLedger)
<1>1. NoPayout \in PayoutRecord /\ NoLedger \in LedgerRecord
  BY DEF NoPayout, NoLedger, PayoutRecord, LedgerRecord
<1>2. Bps(0, 0) \in Nat
  <2>1. 0 \in Nat /\ 0 <= 10000
    OBVIOUS
  <2>2. QED
    BY <2>1, BpsBound
<1>3. QED
  BY <1>1, <1>2 DEF SoundPayout, NoPayout, NoLedger

\* Two facts about the balance equation, apart from what its terms stand for.
LEMMA MoneyMoves ==
    ASSUME NEW v \in Int, NEW f \in Int, NEW n \in Int, NEW t \in Int, NEW x \in Int,
           NEW w \in Int, NEW g \in Int, NEW m \in Int, NEW y \in Int,
           v = t + f + n, ((w - g) - m) - y = ((v - f) - n) - x
    PROVE  ((w - g) - m) = (t - x) + y
OBVIOUS

LEMMA MoneyStays ==
    ASSUME NEW w \in Int, NEW g \in Int, NEW m \in Int, NEW u \in Int,
           ((w - g) - m) = u
    PROVE  w = u + g + m
OBVIOUS

LEMMA AgentInitInv == ASSUME AgentInit PROVE AgentInv
<1>1. AllSound
  BY NoPayoutSound DEF AgentInit, AllSound
<1>2. AgentTypeOK
  <2>1. NoPayout \in PayoutRecord /\ NoLedger \in LedgerRecord
    BY NoPayoutSound DEF SoundPayout
  <2>2. QED
    BY <2>1, AgentEscrowConstants DEF AgentInit, AgentTypeOK
<1>3. Total(LockedIn, MaxPayouts) = 0
  <2>1. \A e \in 1..MaxPayouts : LockedIn[e] = 0
    BY DEF AgentInit, LockedIn, PayoutPending, NoPayout, PayoutIds
  <2>2. QED
    BY <2>1, TotalOfZeros, AgentEscrowConstants
<1>4. QED
  BY <1>1, <1>2, <1>3 DEF AgentInv, AgentFundsCovered, UnusedPayouts, AgentInit

\* The field sets of the records under names of their own: which fields a record
\* has does not depend on what those sets are.
AgentOrNone == PayoutAgents \cup {NoAgent}
AmountRange == Nat
FeeRange == 0..10000
PayoutStatuses == {"None", "Pending", "Completed", "Cancelled"}
Flags == BOOLEAN

LEMMA PayoutShape ==
    PayoutRecord = [agent : AgentOrNone, amount : AmountRange, feeBps : FeeRange,
                    status : PayoutStatuses, released : AmountRange, expired : Flags]
BY DEF PayoutRecord, AgentOrNone, AmountRange, FeeRange, PayoutStatuses, Flags

LEMMA LedgerShape ==
    LedgerRecord = [toAgents : AmountRange, toSender : AmountRange, toFees : AmountRange,
                    insured : AmountRange]
BY DEF LedgerRecord, AmountRange

\* The fields of a record.
LEMMA PayoutFields ==
    \A p \in PayoutRecord :
        p.amount \in Nat /\ p.released \in Nat /\ p.feeBps \in Nat /\ p.feeBps <= 10000
<1> SUFFICES ASSUME NEW p \in PayoutRecord
             PROVE  p.amount \in Nat /\ p.released \in Nat /\ p.feeBps \in Nat
                    /\ p.feeBps <= 10000
  OBVIOUS
<1>1. p.amount \in AmountRange /\ p.released \in AmountRange /\ p.feeBps \in FeeRange
  BY PayoutShape, SMTT(30)
<1>2. \A b \in FeeRange : b \in Nat /\ b <= 10000
  BY SMTT(30) DEF FeeRange
<1>3. p.feeBps \in Nat /\ p.feeBps <= 10000
  BY <1>1, <1>2, SMTT(30)
<1>4. QED
  BY <1>1, <1>3, SMTT(30) DEF AmountRange

\* A step that stores one sound record and its history, and moves as much money
\* as the record says, preserves the invariant.
LEMMA CellStep ==
    ASSUME AgentInv, NEW e \in PayoutIds, NEW r, NEW l, Write(e, r, l), SoundPayout(r, l),
           created' \in 0..MaxPayouts, created <= created', e <= created',
           agents' \subseteq PayoutAgents, shareBps' \in 0..MaxShareBps,
           agentFees' \in Nat, insuranceFund' \in Nat, agentVault' \in Nat,
           ((agentVault' - agentFees') - insuranceFund') - HeldFor(r)
               = ((agentVault - agentFees) - insuranceFund) - HeldFor(payouts[e])
    PROVE  AgentInv'
<1>1. /\ payouts \in [PayoutIds -> PayoutRecord] /\ ledger \in [PayoutIds -> LedgerRecord]
      /\ created \in 0..MaxPayouts /\ agentFees \in Nat /\ insuranceFund \in Nat
      /\ agentVault \in Nat
      /\ agentVault = Total(LockedIn, MaxPayouts) + agentFees + insuranceFund
  BY DEF AgentInv, AgentFundsCovered, AgentTypeOK
<1>2. r \in PayoutRecord /\ l \in LedgerRecord
  BY DEF SoundPayout
<1>3. /\ payouts' \in [PayoutIds -> PayoutRecord] /\ ledger' \in [PayoutIds -> LedgerRecord]
      /\ payouts'[e] = r /\ ledger'[e] = l
      /\ \A i \in PayoutIds : i # e => payouts'[i] = payouts[i] /\ ledger'[i] = ledger[i]
  BY <1>1, <1>2 DEF Write
<1>4. AgentTypeOK'
  BY <1>3 DEF AgentTypeOK
<1>5. AllSound'
  BY <1>3 DEF AgentInv, AllSound
<1>6. UnusedPayouts'
  <2>1. SUFFICES ASSUME NEW i \in PayoutIds, i > created'
                 PROVE  payouts'[i] = NoPayout /\ ledger'[i] = NoLedger
    BY DEF UnusedPayouts
  <2>2. i # e /\ i > created
    <3>1. i \in Int /\ e \in Int /\ created \in Int /\ created' \in Int
      BY <1>1, AgentEscrowConstants DEF PayoutIds
    <3>2. created <= created' /\ e <= created' /\ i > created'
      BY <2>1
    <3>3. QED
      BY ONLY <3>1, <3>2
  <2>3. QED
    BY <1>3, <2>2 DEF AgentInv, UnusedPayouts
<1>7. \A i \in PayoutIds : LockedIn[i] = HeldFor(payouts[i]) /\ LockedIn'[i] = HeldFor(payouts'[i])
  BY DEF LockedIn, HeldFor, PayoutPending, Remaining
<1>8. \A i \in PayoutIds : LockedIn[i] \in Nat /\ LockedIn'[i] \in Nat
  <2>1. ASSUME NEW p, NEW h, SoundPayout(p, h) PROVE HeldFor(p) \in Nat
    <3>1. p.amount \in Nat /\ p.released \in Nat /\ p.released <= p.amount
      BY <2>1, PayoutFields DEF SoundPayout
    <3>2. QED
      BY <3>1 DEF HeldFor
  <2>2. QED
    BY <1>5, <1>7, <2>1, SMTT(30) DEF AgentInv, AllSound
<1>9. Total(LockedIn', MaxPayouts) = (Total(LockedIn, MaxPayouts) - LockedIn[e]) + LockedIn'[e]
  <2>1. \A i \in 1..MaxPayouts : i # e => LockedIn'[i] = LockedIn[i]
    BY <1>3, <1>7 DEF PayoutIds
  <2>2. QED
    BY <1>8, <2>1, TotalUpdate, AgentEscrowConstants DEF PayoutIds
<1>10. Total(LockedIn, MaxPayouts) \in Nat
  BY <1>8, TotalNat, AgentEscrowConstants DEF PayoutIds
<1>11. LockedIn[e] = HeldFor(payouts[e]) /\ LockedIn'[e] = HeldFor(r)
       /\ LockedIn[e] \in Nat /\ LockedIn'[e] \in Nat
  BY <1>3, <1>7, <1>8
<1>12. agentVault' = Total(LockedIn', MaxPayouts) + agentFees' + insuranceFund'
  <2>1. agentFees \in Int /\ insuranceFund \in Int /\ agentVault \in Int
        /\ agentFees' \in Int /\ insuranceFund' \in Int /\ agentVault' \in Int
    BY <1>1
  <2>2. Total(LockedIn, MaxPayouts) \in Int /\ LockedIn[e] \in Int /\ LockedIn'[e] \in Int
    BY <1>8, <1>10
  <2>3. ((agentVault' - agentFees') - insuranceFund') - LockedIn'[e]
            = ((agentVault - agentFees) - insuranceFund) - LockedIn[e]
    BY <1>11
  <2>4. ((agentVault' - agentFees') - insuranceFund')
            = (Total(LockedIn, MaxPayouts) - LockedIn[e]) + LockedIn'[e]
    BY <1>1, <2>1, <2>2, <2>3, MoneyMoves
  <2>5. QED
    BY <1>9, <2>1, <2>2, <2>4, MoneyStays
<1>13. AgentFundsCovered'
  BY <1>4, <1>12 DEF AgentFundsCovered
<1>14. QED
  BY <1>5, <1>6, <1>13 DEF AgentInv

-----------------------------------------------------------------------------
(* The entry points.                                                       *)

\* What the invariant says of one escrow and of the settings.
LEMMA InvFacts ==
    ASSUME AgentInv, NEW e \in PayoutIds
    PROVE  /\ SoundPayout(payouts[e], ledger[e])
           /\ payouts[e] \in PayoutRecord /\ ledger[e] \in LedgerRecord
           /\ created \in 0..MaxPayouts /\ agents \subseteq PayoutAgents
           /\ agentFees \in Nat /\ insuranceFund \in Nat /\ agentVault \in Nat
           /\ shareBps \in Nat /\ shareBps <= 10000 /\ shareBps \in 0..MaxShareBps
           /\ MaxPayouts \in Nat /\ e \in Int
           /\ payouts[e].status # "None" => e <= created
<1>1. AgentTypeOK /\ SoundPayout(payouts[e], ledger[e])
  BY DEF AgentInv, AgentFundsCovered, AllSound
<1>2. payouts[e].status # "None" => ~(e > created)
  BY DEF AgentInv, UnusedPayouts, NoPayout
<1>3. created \in 0..MaxPayouts /\ shareBps \in 0..MaxShareBps
  BY <1>1 DEF AgentTypeOK
<1>4. MaxPayouts \in Nat /\ MaxShareBps \in Nat /\ MaxShareBps <= 10000 /\ e \in Int
  BY AgentEscrowConstants DEF PayoutIds
<1>5. QED
  BY <1>1, <1>2, <1>3, <1>4 DEF AgentTypeOK, SoundPayout

\* A record with another value of the field's kind is a record.
LEMMA PayoutUpdates ==
    ASSUME NEW p \in PayoutRecord
    PROVE  /\ \A a \in PayoutAgents \cup {NoAgent} : [p EXCEPT !.agent = a] \in PayoutRecord
           /\ \A n \in Nat : [p EXCEPT !.released = n] \in PayoutRecord
           /\ \A s \in {"None", "Pending", "Completed", "Cancelled"} :
                 [p EXCEPT !.status = s] \in PayoutRecord
           /\ \A b \in BOOLEAN : [p EXCEPT !.expired = b] \in PayoutRecord
<1>1. /\ \A a \in AgentOrNone : [p EXCEPT !.agent = a] \in PayoutRecord
      /\ \A n \in AmountRange : [p EXCEPT !.released = n] \in PayoutRecord
      /\ \A s \in PayoutStatuses : [p EXCEPT !.status = s] \in PayoutRecord
      /\ \A b \in Flags : [p EXCEPT !.expired = b] \in PayoutRecord
  BY PayoutShape
<1>2. QED
  BY <1>1, Zenon DEF AgentOrNone, AmountRange, PayoutStatuses, Flags

LEMMA PaidRecord ==
    \A p \in PayoutRecord, n \in Nat, s \in {"Pending", "Completed"} :
        [p EXCEPT !.released = n, !.status = s] \in PayoutRecord
<1> SUFFICES ASSUME NEW p \in PayoutRecord, NEW n \in Nat, NEW s \in {"Pending", "Completed"}
             PROVE  [p EXCEPT !.released = n, !.status = s] \in PayoutRecord
  OBVIOUS
<1>1. PICK q : q = [p EXCEPT !.released = n]
  OBVIOUS
<1>2. q \in PayoutRecord
  BY <1>1, PayoutUpdates, Zenon
<1>3. s \in {"None", "Pending", "Completed", "Cancelled"}
  OBVIOUS
<1>4. [q EXCEPT !.status = s] \in PayoutRecord
  BY <1>2, <1>3, PayoutUpdates, Zenon
<1>5. [p EXCEPT !.released = n, !.status = s] = [q EXCEPT !.status = s]
  BY <1>1
<1>6. QED
  BY <1>4, <1>5, ZenonT(30)

LEMMA CancelledRecord == \A p \in PayoutRecord : [p EXCEPT !.status = "Cancelled"] \in PayoutRecord
<1>1. "Cancelled" \in {"None", "Pending", "Completed", "Cancelled"}
  OBVIOUS
<1>2. QED
  BY <1>1, PayoutUpdates, Zenon

\* A field that is not among these leaves them as they are.
LEMMA OtherFields ==
    ASSUME NEW p \in PayoutRecord, NEW v
    PROVE  \A r \in {[p EXCEPT !.agent = v], [p EXCEPT !.expired = v]} :
              /\ r.status = p.status /\ r.amount = p.amount
              /\ r.released = p.released /\ r.feeBps = p.feeBps
BY PayoutShape

LEMMA ReassignedRecord ==
    \A p \in PayoutRecord, a \in PayoutAgents :
        LET r == [p EXCEPT !.agent = a]
        IN  /\ r \in PayoutRecord /\ r.status = p.status /\ r.amount = p.amount
            /\ r.released = p.released /\ r.feeBps = p.feeBps
<1> SUFFICES ASSUME NEW p \in PayoutRecord, NEW a \in PayoutAgents, NEW r,
                    r = [p EXCEPT !.agent = a]
             PROVE  /\ r \in PayoutRecord /\ r.status = p.status /\ r.amount = p.amount
                    /\ r.released = p.released /\ r.feeBps = p.feeBps
  OBVIOUS
<1>1. a \in PayoutAgents \cup {NoAgent}
  OBVIOUS
<1>2. r \in PayoutRecord
  BY <1>1, PayoutUpdates, Zenon
<1>3. r.status = p.status /\ r.amount = p.amount /\ r.released = p.released
      /\ r.feeBps = p.feeBps
  BY OtherFields, Zenon
<1>4. QED
  BY <1>2, <1>3

LEMMA ExpiredRecord ==
    \A p \in PayoutRecord :
        LET r == [p EXCEPT !.expired = TRUE]
        IN  /\ r \in PayoutRecord /\ r.status = p.status /\ r.amount = p.amount
            /\ r.released = p.released /\ r.feeBps = p.feeBps
<1> SUFFICES ASSUME NEW p \in PayoutRecord, NEW r, r = [p EXCEPT !.expired = TRUE]
             PROVE  /\ r \in PayoutRecord /\ r.status = p.status /\ r.amount = p.amount
                    /\ r.released = p.released /\ r.feeBps = p.feeBps
  OBVIOUS
<1>1. TRUE \in BOOLEAN
  OBVIOUS
<1>2. r \in PayoutRecord
  BY <1>1, PayoutUpdates, Zenon
<1>3. r.status = p.status /\ r.amount = p.amount /\ r.released = p.released
      /\ r.feeBps = p.feeBps
  BY OtherFields, Zenon
<1>4. QED
  BY <1>2, <1>3

LEMMA LedgerFields ==
    \A l \in LedgerRecord :
        l.toAgents \in Nat /\ l.toFees \in Nat /\ l.toSender \in Nat /\ l.insured \in Nat
BY DEF LedgerRecord

LEMMA LedgerRecords ==
    \A l \in LedgerRecord, a, b \in Nat :
        /\ [l EXCEPT !.toAgents = a, !.toFees = b] \in LedgerRecord
        /\ [l EXCEPT !.toSender = a] \in LedgerRecord
        /\ [l EXCEPT !.insured = a] \in LedgerRecord
<1>1. \A l \in LedgerRecord, a, b \in AmountRange :
        /\ [l EXCEPT !.toAgents = a, !.toFees = b] \in LedgerRecord
        /\ [l EXCEPT !.toSender = a] \in LedgerRecord
        /\ [l EXCEPT !.insured = a] \in LedgerRecord
  BY LedgerShape
<1>2. QED
  BY <1>1, Zenon DEF AmountRange

\* A payment, whole or in part, books its fee and its insurance share.
LEMMA PayOutStep ==
    ASSUME AgentInv, NEW e \in PayoutIds, PayoutPending(e),
           NEW sum \in Nat, sum <= Remaining(e),
           NEW status \in {"Pending", "Completed"}, status = "Completed" => sum = Remaining(e),
           PayOut(e, sum, status), SameSettings
    PROVE  AgentInv'
<1> DEFINE p == payouts[e]
           l == ledger[e]
           fee == Bps(sum, p.feeBps)
           share == Bps(fee, shareBps)
           r == [p EXCEPT !.released = @ + sum, !.status = status]
           h == [l EXCEPT !.toAgents = @ + (sum - fee), !.toFees = @ + fee]
<1>1. /\ SoundPayout(p, l) /\ p \in PayoutRecord /\ l \in LedgerRecord
      /\ created \in 0..MaxPayouts /\ agents \subseteq PayoutAgents
      /\ agentFees \in Nat /\ insuranceFund \in Nat /\ agentVault \in Nat
      /\ shareBps \in Nat /\ shareBps <= 10000 /\ shareBps \in 0..MaxShareBps
      /\ p.status = "Pending" /\ e <= created /\ created <= created
  BY InvFacts DEF PayoutPending
<1>2. /\ p.amount \in Nat /\ p.released \in Nat /\ p.feeBps \in Nat /\ p.feeBps <= 10000
      /\ l.toAgents \in Nat /\ l.toFees \in Nat /\ l.toSender = 0 /\ l.insured = 0
      /\ l.toAgents + l.toFees = p.released /\ l.toFees <= Bps(p.released, p.feeBps)
      /\ sum <= p.amount - p.released
  <2>1. /\ p.amount \in Nat /\ p.released \in Nat /\ p.feeBps \in Nat /\ p.feeBps <= 10000
        /\ l.toAgents \in Nat /\ l.toFees \in Nat
    BY <1>1, PayoutFields, LedgerFields
  <2>2. SoundPayout(p, l) /\ p.status # "Cancelled" /\ sum <= Remaining(e)
    BY <1>1
  <2> HIDE DEF l
  <2>3. QED
    BY <2>1, <2>2 DEF SoundPayout, Remaining
<1>3. fee \in Nat /\ fee <= sum
  BY <1>2, BpsBound
<1>4. share \in Nat /\ share <= fee
  BY <1>1, <1>3, BpsBound
<1>5. /\ sum - fee <= agentVault /\ agentVault' = agentVault - (sum - fee)
      /\ insuranceFund' = insuranceFund + share /\ agentFees' = agentFees + (fee - share)
      /\ Write(e, r, h)
  BY DEF PayOut, BookFee
<1>6. agents' = agents /\ created' = created /\ shareBps' = shareBps
  BY DEF SameSettings
<1>7. Bps(p.released, p.feeBps) + fee <= Bps(p.released + sum, p.feeBps)
  <2>1. p.released \in Nat /\ p.feeBps \in Nat
    BY <1>2
  <2> HIDE DEF p
  <2>2. Bps(p.released, p.feeBps) + Bps(sum, p.feeBps) <= Bps(p.released + sum, p.feeBps)
    BY <2>1, BpsOfParts
  <2>3. QED
    BY <2>2
<1>8. Bps(p.released, p.feeBps) \in Nat /\ Bps(p.released + sum, p.feeBps) \in Nat
  <2>1. p.released + sum \in Nat
    BY <1>2
  <2>2. p.released \in Nat /\ p.feeBps \in Nat /\ p.feeBps <= 10000
    BY <1>2
  <2>3. \A n, b \in Nat : b <= 10000 => Bps(n, b) \in Nat
    BY BpsBound
  <2>4. QED
    BY <2>1, <2>2, <2>3, SMTT(30)
<1> HIDE DEF fee, share
<1>9. r \in PayoutRecord /\ h \in LedgerRecord
  <2>1. p.released + sum \in Nat /\ l.toAgents + (sum - fee) \in Nat /\ l.toFees + fee \in Nat
    BY <1>2, <1>3
  <2> DEFINE n == p.released + sum
             x == l.toAgents + (sum - fee)
             y == l.toFees + fee
  <2>2. r = [p EXCEPT !.released = n, !.status = status]
        /\ h = [l EXCEPT !.toAgents = x, !.toFees = y]
    OBVIOUS
  <2> HIDE DEF n, x, y, r, h
  <2>3. r \in PayoutRecord /\ h \in LedgerRecord
    <3>1. n \in Nat /\ x \in Nat /\ y \in Nat
      BY <2>1 DEF n, x, y
    <3>2. p \in PayoutRecord /\ l \in LedgerRecord
      BY <1>1
    <3> HIDE DEF p, l
    <3>3. r \in PayoutRecord
      BY <2>2, <3>1, <3>2, PaidRecord
    <3>4. h \in LedgerRecord
      <4>1. [l EXCEPT !.toAgents = x, !.toFees = y] \in LedgerRecord
        BY <3>1, <3>2, LedgerRecords, ZenonT(30)
      <4>2. QED
        BY <2>2, <4>1
    <3>5. QED
      BY <3>3, <3>4
  <2>4. QED
    BY <2>2, <2>3
<1>10. /\ r.status = status /\ r.released = p.released + sum /\ r.amount = p.amount
       /\ r.feeBps = p.feeBps
       /\ h.toAgents = l.toAgents + (sum - fee) /\ h.toFees = l.toFees + fee
       /\ h.toSender = l.toSender /\ h.insured = l.insured
  <2> DEFINE n == p.released + sum
             x == l.toAgents + (sum - fee)
             y == l.toFees + fee
  <2>1. r = [p EXCEPT !.released = n, !.status = status]
        /\ h = [l EXCEPT !.toAgents = x, !.toFees = y]
    OBVIOUS
  <2>2. p \in PayoutRecord /\ l \in LedgerRecord
    BY <1>1
  <2> HIDE DEF n, x, y, r, h, p, l
  <2>3. /\ r.status = status /\ r.released = n /\ r.amount = p.amount /\ r.feeBps = p.feeBps
        /\ h.toAgents = x /\ h.toFees = y /\ h.toSender = l.toSender /\ h.insured = l.insured
    BY <2>1, <2>2, PayoutShape, LedgerShape, SMTT(30)
  <2>4. QED
    BY <2>3 DEF n, x, y
<1> HIDE DEF r, h, p, l
<1>11. SoundPayout(r, h)
  BY <1>2, <1>3, <1>7, <1>8, <1>9, <1>10 DEF SoundPayout
<1>12. HeldFor(r) = HeldFor(p) - sum
  <2>1. HeldFor(p) = p.amount - p.released
    BY <1>1 DEF HeldFor
  <2>2. CASE status = "Pending"
    BY <1>2, <1>10, <2>1, <2>2 DEF HeldFor
  <2>3. CASE status = "Completed"
    <3>1. sum = p.amount - p.released /\ HeldFor(r) = 0
      BY <1>10, <2>3 DEF HeldFor, Remaining, p
    <3>2. QED
      BY <1>2, <2>1, <3>1
  <2>4. QED
    BY <2>2, <2>3
<1>13. HeldFor(p) \in Int /\ sum \in Int
  BY <1>1, <1>2 DEF HeldFor
<1>14. agentFees' \in Nat /\ insuranceFund' \in Nat /\ agentVault' \in Nat
  BY <1>1, <1>3, <1>4, <1>5
<1>15. ((agentVault' - agentFees') - insuranceFund') - HeldFor(r)
           = ((agentVault - agentFees) - insuranceFund) - HeldFor(p)
  BY <1>1, <1>3, <1>4, <1>5, <1>12, <1>13
<1>16. QED
  BY <1>1, <1>5, <1>6, <1>11, <1>14, <1>15, CellStep DEF p

\* A refund of what was not released.
LEMMA RefundStep ==
    ASSUME AgentInv, NEW e \in PayoutIds, PayoutPending(e), Refund(e)
    PROVE  AgentInv'
<1> DEFINE p == payouts[e]
           l == ledger[e]
           r == [p EXCEPT !.status = "Cancelled"]
           h == [l EXCEPT !.toSender = @ + Remaining(e)]
<1>1. /\ SoundPayout(p, l) /\ p \in PayoutRecord /\ l \in LedgerRecord
      /\ created \in 0..MaxPayouts /\ agents \subseteq PayoutAgents
      /\ agentFees \in Nat /\ insuranceFund \in Nat /\ agentVault \in Nat
      /\ shareBps \in 0..MaxShareBps
      /\ p.status = "Pending" /\ e <= created /\ created <= created
  BY InvFacts DEF PayoutPending
<1>2. /\ Remaining(e) = p.amount - p.released /\ Remaining(e) \in Nat
      /\ l.toSender = 0 /\ l.insured = 0 /\ p.released \in Nat
  <2>1. p.amount \in Nat /\ p.released \in Nat
    BY <1>1, PayoutFields
  <2>2. SoundPayout(p, l) /\ p.status # "Cancelled"
    BY <1>1
  <2> HIDE DEF l
  <2>3. QED
    BY <2>1, <2>2 DEF SoundPayout, Remaining
<1>3. /\ Remaining(e) <= agentVault /\ agentVault' = agentVault - Remaining(e)
      /\ Write(e, r, h) /\ agents' = agents /\ created' = created /\ shareBps' = shareBps
      /\ agentFees' = agentFees /\ insuranceFund' = insuranceFund
  BY DEF Refund, SameSettings
<1>4. r \in PayoutRecord /\ h \in LedgerRecord
  <2>1. l.toSender + Remaining(e) \in Nat
    BY <1>2, SMTT(30)
  <2>2. QED
    BY <1>1, <2>1, CancelledRecord, LedgerRecords
<1>5. /\ r.status = "Cancelled" /\ r.released = p.released /\ r.amount = p.amount
      /\ r.feeBps = p.feeBps
      /\ h.toAgents = l.toAgents /\ h.toFees = l.toFees
      /\ h.toSender = l.toSender + Remaining(e) /\ h.insured = l.insured
  <2> DEFINE x == l.toSender + Remaining(e)
  <2>1. r = [p EXCEPT !.status = "Cancelled"] /\ h = [l EXCEPT !.toSender = x]
    OBVIOUS
  <2>2. p \in PayoutRecord /\ l \in LedgerRecord
    BY <1>1
  <2> HIDE DEF x, r, h, p, l
  <2>3. /\ r.status = "Cancelled" /\ r.released = p.released /\ r.amount = p.amount
        /\ r.feeBps = p.feeBps
        /\ h.toAgents = l.toAgents /\ h.toFees = l.toFees
        /\ h.toSender = x /\ h.insured = l.insured
    BY <2>1, <2>2, PayoutShape, LedgerShape, SMTT(30)
  <2>4. QED
    BY <2>3 DEF x
<1> HIDE DEF r, h, p, l
<1>6. SoundPayout(r, h)
  BY <1>1, <1>2, <1>4, <1>5 DEF SoundPayout
<1>7. HeldFor(r) = 0 /\ HeldFor(p) = Remaining(e)
  BY <1>1, <1>2, <1>5 DEF HeldFor
<1>8. agentFees' \in Nat /\ insuranceFund' \in Nat /\ agentVault' \in Nat
  BY <1>1, <1>2, <1>3
<1>9. ((agentVault' - agentFees') - insuranceFund') - HeldFor(r)
          = ((agentVault - agentFees) - insuranceFund) - HeldFor(p)
  BY <1>1, <1>2, <1>3, <1>7
<1>10. QED
  BY <1>1, <1>3, <1>6, <1>8, <1>9, CellStep DEF p

\* A step that leaves the money where it is and stores a record like the old one.
LEMMA QuietStep ==
    ASSUME AgentInv, NEW e \in PayoutIds, PayoutPending(e), NEW r \in PayoutRecord,
           r.status = payouts[e].status, r.amount = payouts[e].amount,
           r.released = payouts[e].released, r.feeBps = payouts[e].feeBps,
           Write(e, r, ledger[e]), SameSettings,
           agentFees' = agentFees, insuranceFund' = insuranceFund, agentVault' = agentVault
    PROVE  AgentInv'
<1> DEFINE p == payouts[e]
           l == ledger[e]
<1>1. /\ SoundPayout(p, l) /\ p.status # "None"
      /\ created \in 0..MaxPayouts /\ agents \subseteq PayoutAgents
      /\ agentFees \in Nat /\ insuranceFund \in Nat /\ agentVault \in Nat
      /\ shareBps \in 0..MaxShareBps /\ e <= created /\ created <= created
  BY InvFacts DEF PayoutPending
<1>2. agents' = agents /\ created' = created /\ shareBps' = shareBps
  BY DEF SameSettings
<1>3. SoundPayout(r, l) /\ HeldFor(r) = HeldFor(p)
  BY <1>1 DEF SoundPayout, HeldFor
<1>4. QED
  BY <1>1, <1>2, <1>3, CellStep

LEMMA CreateStep ==
    ASSUME AgentInv, NEW agent, NEW sum \in Int, NEW bps \in Nat, CreatePayout(agent, sum, bps)
    PROVE  AgentInv'
<1> DEFINE e == created + 1
           r == [agent |-> agent, amount |-> sum, feeBps |-> bps,
                 status |-> "Pending", released |-> 0, expired |-> FALSE]
<1>1. /\ created \in 0..MaxPayouts /\ agents \subseteq PayoutAgents
      /\ agentFees \in Nat /\ insuranceFund \in Nat /\ agentVault \in Nat
      /\ shareBps \in 0..MaxShareBps /\ ledger \in [PayoutIds -> LedgerRecord]
  BY DEF AgentInv, AgentFundsCovered, AgentTypeOK
<1>2. /\ sum > 0 /\ bps <= 10000 /\ agent \in agents /\ created < MaxPayouts
      /\ created' = e /\ agentVault' = agentVault + sum
      /\ payouts' = [payouts EXCEPT ![e] = r]
      /\ agents' = agents /\ agentFees' = agentFees /\ insuranceFund' = insuranceFund
      /\ shareBps' = shareBps /\ ledger' = ledger
  BY DEF CreatePayout
<1>3. MaxPayouts \in Nat
  BY AgentEscrowConstants
<1>4. e \in PayoutIds /\ e > created /\ e \in 0..MaxPayouts /\ created <= e /\ e <= e
  BY <1>1, <1>2, <1>3 DEF PayoutIds
<1>5. payouts[e] = NoPayout /\ ledger[e] = NoLedger
  BY <1>4 DEF AgentInv, UnusedPayouts
<1>6. r \in PayoutRecord
  <2>1. agent \in PayoutAgents /\ sum \in Nat /\ bps \in 0..10000
    BY <1>1, <1>2, SMTT(30)
  <2>2. QED
    BY <2>1 DEF PayoutRecord
<1>7. SoundPayout(r, NoLedger) /\ HeldFor(r) = sum
  <2>1. Bps(0, bps) \in Nat
    BY <1>2, BpsBound
  <2>2. NoLedger \in LedgerRecord
    BY NoPayoutSound DEF SoundPayout
  <2>3. QED
    BY <1>2, <1>6, <2>1, <2>2 DEF SoundPayout, NoLedger, HeldFor
<1>8. HeldFor(NoPayout) = 0
  BY DEF HeldFor, NoPayout
<1>9. ledger' = [ledger EXCEPT ![e] = NoLedger]
  BY <1>1, <1>2, <1>5
<1>10. Write(e, r, NoLedger)
  <2>1. payouts' = [payouts EXCEPT ![e] = r]
    BY <1>2
  <2> HIDE DEF e, r
  <2>2. QED
    BY <2>1, <1>9 DEF Write
<1> HIDE DEF e, r
<1>11. agentVault' \in Nat
       /\ ((agentVault' - agentFees') - insuranceFund') - HeldFor(r)
              = ((agentVault - agentFees) - insuranceFund) - HeldFor(payouts[e])
  BY <1>1, <1>2, <1>5, <1>7, <1>8
<1>12. QED
  BY <1>1, <1>2, <1>4, <1>7, <1>10, <1>11, CellStep

LEMMA InsuranceStep ==
    ASSUME AgentInv, NEW e \in PayoutIds, InsurancePayout(e)
    PROVE  AgentInv'
<1> DEFINE p == payouts[e]
           l == ledger[e]
           loss == p.released - l.insured
           sum == IF loss < insuranceFund THEN loss ELSE insuranceFund
           h == [l EXCEPT !.insured = @ + sum]
<1>1. /\ SoundPayout(p, l) /\ p \in PayoutRecord /\ l \in LedgerRecord
      /\ created \in 0..MaxPayouts /\ agents \subseteq PayoutAgents
      /\ agentFees \in Nat /\ insuranceFund \in Nat /\ agentVault \in Nat
      /\ shareBps \in 0..MaxShareBps
      /\ p.status # "None" => e <= created
  BY InvFacts
<1>2. /\ p.status = "Cancelled" /\ sum > 0 /\ sum <= agentVault
      /\ insuranceFund' = insuranceFund - sum /\ agentVault' = agentVault - sum
      /\ Write(e, p, h)
      /\ agents' = agents /\ created' = created /\ shareBps' = shareBps
      /\ agentFees' = agentFees
  BY DEF InsurancePayout, SameSettings
<1>3. p.released \in Nat /\ l.insured \in Nat
  BY <1>1, PayoutFields, LedgerFields
<1>4. sum \in Nat /\ sum <= loss /\ sum <= insuranceFund
  BY <1>1, <1>2, <1>3
<1>5. l.insured + sum \in Nat /\ l.insured + sum <= p.released
  BY <1>3, <1>4
<1>6. h \in LedgerRecord
  <2> DEFINE n == l.insured + sum
  <2>1. n \in Nat /\ l \in LedgerRecord /\ h = [l EXCEPT !.insured = n]
    BY <1>1, <1>5
  <2> HIDE DEF n, h, l
  <2>2. QED
    BY <2>1, LedgerRecords
<1>7. /\ h.toAgents = l.toAgents /\ h.toFees = l.toFees /\ h.toSender = l.toSender
      /\ h.insured = l.insured + sum
  BY <1>1 DEF LedgerRecord
<1>8. insuranceFund' \in Nat /\ agentVault' \in Nat /\ agentFees' \in Nat
      /\ (agentVault' - agentFees') - insuranceFund' = (agentVault - agentFees) - insuranceFund
  BY <1>1, <1>2, <1>4
<1> HIDE DEF h, p, l, sum, loss
<1>9. SoundPayout(p, h)
  BY <1>1, <1>2, <1>5, <1>6, <1>7 DEF SoundPayout
<1>10. ((agentVault' - agentFees') - insuranceFund') - HeldFor(p)
           = ((agentVault - agentFees) - insuranceFund) - HeldFor(p)
  BY <1>8
<1>11. e <= created /\ created <= created
  BY <1>1, <1>2
<1>12. QED
  BY <1>1, <1>2, <1>8, <1>9, <1>10, <1>11, CellStep DEF p

\* A step that touches no escrow.
LEMMA SettingsStep ==
    ASSUME AgentInv, payouts' = payouts, ledger' = ledger, created' = created,
           agents' \subseteq PayoutAgents, shareBps' \in 0..MaxShareBps,
           agentFees' \in Nat, agentVault' \in Nat, insuranceFund' = insuranceFund,
           agentVault' - agentFees' = agentVault - agentFees
    PROVE  AgentInv'
<1>1. AgentTypeOK /\ agentVault = Total(LockedIn, MaxPayouts) + agentFees + insuranceFund
  BY DEF AgentInv, AgentFundsCovered
<1>2. AgentTypeOK'
  BY <1>1 DEF AgentTypeOK
<1>3. LockedIn' = LockedIn
  BY DEF LockedIn, PayoutPending, Remaining
<1>4. \A i \in 1..MaxPayouts : LockedIn[i] \in Nat
  <2>1. \A p, h : SoundPayout(p, h) => HeldFor(p) \in Nat
    BY DEF SoundPayout, HeldFor, PayoutRecord
  <2>2. \A i \in PayoutIds : LockedIn[i] = HeldFor(payouts[i])
    BY DEF LockedIn, HeldFor, PayoutPending, Remaining
  <2>3. QED
    BY <2>1, <2>2 DEF AgentInv, AllSound, PayoutIds
<1>5. Total(LockedIn, MaxPayouts) \in Nat
  BY <1>4, TotalNat, AgentEscrowConstants
<1>6. agentVault' = Total(LockedIn', MaxPayouts) + agentFees' + insuranceFund'
  BY <1>1, <1>3, <1>5 DEF AgentTypeOK
<1>7. AllSound' /\ UnusedPayouts'
  BY DEF AgentInv, AllSound, UnusedPayouts
<1>8. QED
  BY <1>2, <1>6, <1>7 DEF AgentInv, AgentFundsCovered

-----------------------------------------------------------------------------
(* Every step, and the theorems.                                           *)

\* What is left of a pending escrow is a natural number.
LEMMA RemainingNat ==
    ASSUME AgentInv, NEW e \in PayoutIds
    PROVE  Remaining(e) \in Nat
<1>1. SoundPayout(payouts[e], ledger[e]) /\ payouts[e] \in PayoutRecord
  BY InvFacts
<1>2. payouts[e].amount \in Nat /\ payouts[e].released \in Nat
  BY <1>1, PayoutFields
<1>3. QED
  BY <1>1, <1>2 DEF SoundPayout, Remaining

LEMMA PartStep ==
    ASSUME AgentInv, NEW e \in PayoutIds, NEW a, NEW sum \in Int, PartialConfirm(a, e, sum)
    PROVE  AgentInv'
<1> DEFINE status == IF sum = Remaining(e) THEN "Completed" ELSE "Pending"
<1>1. sum > 0 /\ sum <= Remaining(e) /\ PayoutPending(e) /\ PayOut(e, sum, status)
      /\ SameSettings
  BY DEF PartialConfirm
<1>2. sum \in Nat /\ status \in {"Pending", "Completed"}
      /\ (status = "Completed" => sum = Remaining(e))
  BY <1>1
<1> HIDE DEF status
<1>3. QED
  BY <1>1, <1>2, PayOutStep

LEMMA WholeStep ==
    ASSUME AgentInv, NEW e \in PayoutIds, PayoutPending(e),
           PayOut(e, Remaining(e), "Completed"), SameSettings
    PROVE  AgentInv'
<1>1. Remaining(e) \in Nat /\ Remaining(e) <= Remaining(e)
  BY RemainingNat
<1>2. QED
  BY <1>1, PayOutStep

LEMMA EscrowStep ==
    ASSUME AgentInv, NEW e \in PayoutIds,
           \/ \E a \in PayoutAgents, sum \in PartSums : PartialConfirm(a, e, sum)
           \/ \E toAgent \in BOOLEAN : AdminRelease(e, toAgent)
           \/ InsurancePayout(e)
           \/ \E a \in PayoutAgents : Reassign(e, a)
           \/ PassExpiry(e)
           \/ \E a \in PayoutAgents : ConfirmPayout(a, e)
           \/ CancelPayout(e)
    PROVE  AgentInv'
<1>1. ASSUME NEW a \in PayoutAgents, NEW sum \in PartSums, PartialConfirm(a, e, sum)
      PROVE  AgentInv'
  <2>1. sum \in Int
    BY AgentEscrowConstants
  <2>2. QED
    BY <1>1, <2>1, PartStep
<1>2. ASSUME NEW toAgent \in BOOLEAN, AdminRelease(e, toAgent) PROVE AgentInv'
  <2>1. PayoutPending(e)
    BY <1>2 DEF AdminRelease
  <2>2. CASE PayOut(e, Remaining(e), "Completed") /\ SameSettings
    BY <2>1, <2>2, WholeStep
  <2>3. CASE Refund(e)
    BY <2>1, <2>3, RefundStep
  <2>4. QED
    BY <1>2, <2>2, <2>3 DEF AdminRelease
<1>3. CASE InsurancePayout(e)
  BY <1>3, InsuranceStep
<1>4. ASSUME NEW a \in PayoutAgents, Reassign(e, a) PROVE AgentInv'
  <2> DEFINE r == [payouts[e] EXCEPT !.agent = a]
  <2>1. payouts[e] \in PayoutRecord
    BY InvFacts
  <2>2. r \in PayoutRecord /\ r.status = payouts[e].status /\ r.amount = payouts[e].amount
        /\ r.released = payouts[e].released /\ r.feeBps = payouts[e].feeBps
    BY <2>1, ReassignedRecord
  <2>3. PayoutPending(e) /\ Write(e, r, ledger[e]) /\ SameSettings /\ agentFees' = agentFees
        /\ insuranceFund' = insuranceFund /\ agentVault' = agentVault
    BY <1>4 DEF Reassign
  <2> HIDE DEF r
  <2>4. QED
    BY <2>2, <2>3, QuietStep
<1>5. CASE PassExpiry(e)
  <2> DEFINE r == [payouts[e] EXCEPT !.expired = TRUE]
  <2>1. payouts[e] \in PayoutRecord
    BY InvFacts
  <2>2. r \in PayoutRecord /\ r.status = payouts[e].status /\ r.amount = payouts[e].amount
        /\ r.released = payouts[e].released /\ r.feeBps = payouts[e].feeBps
    BY <2>1, ExpiredRecord
  <2>3. PayoutPending(e) /\ Write(e, r, ledger[e]) /\ SameSettings /\ agentFees' = agentFees
        /\ insuranceFund' = insuranceFund /\ agentVault' = agentVault
    BY <1>5 DEF PassExpiry
  <2> HIDE DEF r
  <2>4. QED
    BY <2>2, <2>3, QuietStep
<1>6. ASSUME NEW a \in PayoutAgents, ConfirmPayout(a, e) PROVE AgentInv'
  BY <1>6, WholeStep DEF ConfirmPayout
<1>7. CASE CancelPayout(e)
  BY <1>7, RefundStep DEF CancelPayout
<1>8. QED
  BY <1>1, <1>2, <1>3, <1>4, <1>5, <1>6, <1>7

LEMMA AdminStep ==
    ASSUME AgentInv,
           \/ \E sum \in FeeTakings : WithdrawAgentFees(sum)
           \/ \E a \in PayoutAgents : RegisterAgent(a) \/ RemoveAgent(a)
           \/ \E bps \in ShareRates : SetInsuranceShare(bps)
    PROVE  AgentInv'
<1>1. /\ agents \subseteq PayoutAgents /\ shareBps \in 0..MaxShareBps
      /\ agentFees \in Nat /\ agentVault \in Nat
  BY DEF AgentInv, AgentFundsCovered, AgentTypeOK
<1>2. ASSUME NEW sum \in FeeTakings, WithdrawAgentFees(sum) PROVE AgentInv'
  <2>1. sum \in Int
    BY AgentEscrowConstants
  <2>2. agentFees' \in Nat /\ agentVault' \in Nat
        /\ agentVault' - agentFees' = agentVault - agentFees
    BY <1>1, <1>2, <2>1 DEF WithdrawAgentFees
  <2>3. QED
    BY <1>1, <1>2, <2>2, SettingsStep DEF WithdrawAgentFees
<1>3. ASSUME NEW a \in PayoutAgents, RegisterAgent(a) \/ RemoveAgent(a) PROVE AgentInv'
  <2>1. agents' \subseteq PayoutAgents
    BY <1>1, <1>3 DEF RegisterAgent, RemoveAgent, SetAgents
  <2>2. QED
    BY <1>1, <1>3, <2>1, SettingsStep DEF RegisterAgent, RemoveAgent, SetAgents
<1>4. ASSUME NEW bps \in ShareRates, SetInsuranceShare(bps) PROVE AgentInv'
  <2>1. shareBps' \in 0..MaxShareBps
    BY <1>4, AgentEscrowConstants DEF SetInsuranceShare
  <2>2. QED
    BY <1>1, <1>4, <2>1, SettingsStep DEF SetInsuranceShare
<1>5. QED
  BY <1>2, <1>3, <1>4

LEMMA AgentNextInv == ASSUME AgentInv, [Direct \/ Submitted]_contractVars PROVE AgentInv'
<1>1. CASE UNCHANGED contractVars
  BY <1>1, SettingsStep DEF contractVars, AgentInv, AgentFundsCovered, AgentTypeOK
<1>2. ASSUME NEW a \in PayoutAgents, NEW sum \in PayoutSums, NEW bps \in PayoutFees,
             CreatePayout(a, sum, bps)
      PROVE  AgentInv'
  <2>1. sum \in Int /\ bps \in Nat
    BY AgentEscrowConstants
  <2>2. QED
    BY <1>2, <2>1, CreateStep
<1>3. QED
  BY <1>1, <1>2, EscrowStep, AdminStep DEF Direct, Submitted

LEMMA AgentInvariant == AgentSpec => []AgentInv
<1>1. AgentInit => AgentInv
  BY AgentInitInv
<1>2. AgentInv /\ [Direct \/ Submitted]_contractVars => AgentInv'
  BY AgentNextInv
<1>3. QED
  BY <1>1, <1>2, PTL DEF AgentSpec

\* However escrows are confirmed in parts, cancelled, released by the admin,
\* reassigned and insured, the contract holds exactly what it owes: the open
\* rests, the fees and the insurance fund (confirm_payout, partial_confirm,
\* cancel, admin_release, insurance_payout, withdraw_fees).
THEOREM AgentFundsAlwaysCovered == AgentSpec => []AgentFundsCovered
<1>1. AgentInv => AgentFundsCovered
  BY DEF AgentInv
<1>2. QED
  BY <1>1, AgentInvariant, PTL

\* Of no escrow does more leave than was paid in, neither to its sender by
\* refund and insurance nor to everybody by refund and payout; and confirming
\* in parts costs no more than confirming at once (book_fee, insurance_payout).
THEOREM AgentPartsOfTheWhole == AgentSpec => []PartsOfTheWhole
<1>1. AgentInv => PartsOfTheWhole
  <2>1. SUFFICES ASSUME AgentInv, NEW e \in PayoutIds
                 PROVE  /\ ledger[e].toSender + ledger[e].insured <= payouts[e].amount
                        /\ ledger[e].toAgents + ledger[e].toFees + ledger[e].toSender
                               <= payouts[e].amount
                        /\ ledger[e].toFees <= Bps(payouts[e].amount, payouts[e].feeBps)
    BY DEF PartsOfTheWhole, NobodyPaidTwice, PartsNotDearer
  <2> DEFINE p == payouts[e]
             l == ledger[e]
  <2>2. SoundPayout(p, l) /\ p \in PayoutRecord /\ l \in LedgerRecord
    BY <2>1, InvFacts
  <2> HIDE DEF p, l
  <2>3. p.amount \in Nat /\ p.released \in Nat /\ p.feeBps \in Nat /\ p.feeBps <= 10000
        /\ l.toAgents \in Nat /\ l.toFees \in Nat /\ l.toSender \in Nat /\ l.insured \in Nat
    BY <2>2, PayoutFields, LedgerFields
  <2>4. Bps(p.released, p.feeBps) <= Bps(p.amount, p.feeBps)
    BY <2>2, <2>3, BpsOfPart DEF SoundPayout
  <2>5. Bps(p.released, p.feeBps) \in Nat /\ Bps(p.amount, p.feeBps) \in Nat
    <3>1. \A n, b \in Nat : b <= 10000 => Bps(n, b) \in Nat
      BY BpsBound
    <3>2. QED
      BY <2>3, <3>1, SMTT(30)
  <2>6. l.toSender + l.insured <= p.amount /\ l.toAgents + l.toFees + l.toSender <= p.amount
    BY <2>2, <2>3 DEF SoundPayout
  <2>7. l.toFees <= Bps(p.amount, p.feeBps)
    BY <2>2, <2>3, <2>4, <2>5 DEF SoundPayout
  <2>8. QED
    BY <2>6, <2>7 DEF p, l
<1>2. QED
  BY <1>1, AgentInvariant, PTL

\* The two together: whatever is called in whatever order, the contract can pay
\* what it owes, and owes nobody more than his part of an escrow.
THEOREM PayoutsAlwaysSafe == AgentSpec => []PayoutsSafe
  BY AgentFundsAlwaysCovered, AgentPartsOfTheWhole, PTL DEF PayoutsSafe

-----------------------------------------------------------------------------
(* The backend's rows.                                                     *)
(*                                                                         *)
(* The backend is one client of the contract among others, and every call  *)
(* it has seen succeed has ended its escrow, for good: that is all a row   *)
(* relies on.  What it has read before it called no longer matters.        *)

CallRecord ==
    [op : {"none", "create", "confirm", "cancel"}, id : PayoutIds \cup {0},
     agent : PayoutAgents \cup {NoAgent}, sum : PayoutSums \cup {0}]

RowRecord ==
    [status : {"none", "pending", "completed", "cancelled"}, released : Int,
     agent : PayoutAgents \cup {NoAgent}, old : BOOLEAN]

\* The arguments of a call.
Asks(call) ==
    /\ call \in CallRecord /\ call.op # "none"
    /\ call.op = "create" => call.sum \in PayoutSums
    /\ call.op \in {"confirm", "cancel"} => call.id \in PayoutIds

\* What a call has done once it has succeeded.
Ended(call) ==
    /\ call.op = "confirm" => payouts[call.id].status = "Completed"
    /\ call.op = "cancel" => payouts[call.id].status = "Cancelled"

SoundCall(r) ==
    /\ r \in [at : {"idle", "read", "wait", "landed"}, call : CallRecord]
    /\ r.at # "idle" => Asks(r.call)
    /\ r.at = "landed" => Ended(r.call)

CallsSound ==
    /\ DOMAIN calls = Callers /\ calls = [c \in Callers |-> calls[c]]
    /\ \A c \in Callers : SoundCall(calls[c])

StraysSound == \A call \in strays : Asks(call)

RowsSound == payoutRows \in [PayoutIds -> RowRecord] /\ RowTellsOutcome

BackendInv == AgentInv /\ CallsSound /\ StraysSound /\ RowsSound

\* A confirmed or cancelled escrow stays so.
LEMMA OutcomesStay ==
    ASSUME AgentInv, [Direct \/ Submitted]_contractVars, NEW e \in PayoutIds,
           payouts[e].status \in {"Completed", "Cancelled"}
    PROVE  payouts'[e].status = payouts[e].status
<1>1. payouts \in [PayoutIds -> PayoutRecord] /\ created \in Nat
  BY DEF AgentInv, AgentFundsCovered, AgentTypeOK
<1>2. ASSUME NEW d \in PayoutIds, NEW r, NEW l, Write(d, r, l),
             PayoutPending(d) \/ r = payouts[d]
      PROVE  payouts'[e].status = payouts[e].status
  BY <1>1, <1>2 DEF Write, PayoutPending
<1>3. ASSUME payouts' = payouts PROVE payouts'[e].status = payouts[e].status
  BY <1>3
<1>4. ASSUME NEW d \in PayoutIds, PayoutPending(d),
             \/ \E sum, status : PayOut(d, sum, status)
             \/ Refund(d) \/ \E a : Reassign(d, a)
             \/ PassExpiry(d)
      PROVE  payouts'[e].status = payouts[e].status
  BY <1>2, <1>4 DEF PayOut, Refund, Reassign, PassExpiry
<1>5. ASSUME NEW d \in PayoutIds,
             \/ \E a \in PayoutAgents, sum \in PartSums : PartialConfirm(a, d, sum)
             \/ \E toAgent \in BOOLEAN : AdminRelease(d, toAgent)
             \/ \E a \in PayoutAgents : Reassign(d, a)
             \/ PassExpiry(d)
             \/ \E a \in PayoutAgents : ConfirmPayout(a, d)
             \/ CancelPayout(d)
      PROVE  payouts'[e].status = payouts[e].status
  BY <1>4, <1>5 DEF PartialConfirm, AdminRelease, Reassign, PassExpiry, ConfirmPayout, CancelPayout
<1>6. ASSUME NEW d \in PayoutIds, InsurancePayout(d)
      PROVE  payouts'[e].status = payouts[e].status
  BY <1>2, <1>6 DEF InsurancePayout
<1>7. ASSUME NEW agent, NEW sum, NEW bps, CreatePayout(agent, sum, bps)
      PROVE  payouts'[e].status = payouts[e].status
  <2>1. e # created + 1
    BY <1>1 DEF AgentInv, UnusedPayouts, NoPayout, PayoutIds
  <2>2. QED
    BY <1>1, <1>7, <2>1 DEF CreatePayout
<1>8. QED
  BY <1>3, <1>5, <1>6, <1>7
     DEF Direct, Submitted, contractVars, WithdrawAgentFees, RegisterAgent, RemoveAgent,
         SetAgents, SetInsuranceShare

\* A call is one of the contract's entry points, and does what it is for.
LEMMA CallExecutes ==
    ASSUME AgentInv, NEW call, Asks(call), Executes(call)
    PROVE  /\ Submitted
           /\ call.op = "confirm" => payouts'[call.id].status = "Completed"
           /\ call.op = "cancel" => payouts'[call.id].status = "Cancelled"
<1>1. payouts \in [PayoutIds -> PayoutRecord] /\ agents \subseteq PayoutAgents
  BY DEF AgentInv, AgentFundsCovered, AgentTypeOK
<1>2. CASE call.op = "create" /\ CreatePayout(call.agent, call.sum, BackendBps)
  <2>1. call.agent \in PayoutAgents /\ call.sum \in PayoutSums
    BY <1>1, <1>2 DEF Asks, CreatePayout
  <2>2. QED
    BY <1>2, <2>1, AgentPayoutConstants DEF Submitted
<1>3. CASE call.op = "confirm" /\ ConfirmPayout(call.agent, call.id)
  <2>1. call.agent \in PayoutAgents /\ call.id \in PayoutIds
    BY <1>1, <1>3 DEF Asks, ConfirmPayout
  <2> PICK e \in PayoutIds : e = call.id
    BY <2>1
  <2>2. PayOut(e, Remaining(e), "Completed")
    BY <1>3 DEF ConfirmPayout
  <2> DEFINE r == [payouts[e] EXCEPT !.released = @ + Remaining(e), !.status = "Completed"]
  <2>3. payouts' = [payouts EXCEPT ![e] = r]
    BY <2>2 DEF PayOut, Write
  <2>4. r.status = "Completed"
    <3>1. payouts[e] \in PayoutRecord
      BY <1>1
    <3>2. QED
      BY <3>1, PayoutShape, SMTT(30)
  <2> HIDE DEF r
  <2>5. payouts'[e].status = "Completed"
    BY <1>1, <2>3, <2>4
  <2>6. QED
    BY <1>3, <2>1, <2>5 DEF Submitted
<1>4. CASE call.op = "cancel" /\ CancelPayout(call.id)
  <2> PICK e \in PayoutIds : e = call.id
    BY <1>4, SMTT(30) DEF Asks
  <2> DEFINE r == [payouts[e] EXCEPT !.status = "Cancelled"]
  <2>1. payouts' = [payouts EXCEPT ![e] = r]
    BY <1>4 DEF CancelPayout, Refund, Write
  <2>2. payouts[e] \in PayoutRecord
    BY <1>1
  <2>3. r.status = "Cancelled"
    BY <2>2, PayoutShape, SMTT(30)
  <2> HIDE DEF r
  <2>4. payouts'[e].status = "Cancelled"
    BY <1>1, <2>1, <2>3
  <2>5. QED
    BY <1>4, <2>4 DEF Submitted
<1>5. QED
  BY <1>2, <1>3, <1>4 DEF Executes

LEMMA BackendCallsContract ==
    ASSUME BackendInv, [PayoutsNext]_payoutVars
    PROVE  [Direct \/ Submitted]_contractVars
<1>1. ASSUME NEW c \in Callers, LandCall(c) PROVE Submitted
  <2>1. Asks(calls[c].call) /\ Executes(calls[c].call)
    BY <1>1 DEF LandCall, Doing, BackendInv, CallsSound, SoundCall
  <2>2. QED
    BY <2>1, CallExecutes DEF BackendInv
<1>2. ASSUME NEW call \in strays, LandStray(call) PROVE Submitted
  BY <1>2, CallExecutes DEF LandStray, BackendInv, StraysSound
<1>3. QED
  BY <1>1, <1>2, ZenonT(30)
     DEF PayoutsNext, payoutVars, AskCreate, AskConfirm, AskCancel, SendCall, CallFails, GiveUp,
         LoseOutcome, SaveOutcome, ForgetStray, RecordPartial, AgeRow

LEMMA CallStands ==
    ASSUME AgentInv, [Direct \/ Submitted]_contractVars, NEW r, SoundCall(r)
    PROVE  SoundCall(r)'
<1>1. ASSUME r.at = "landed" PROVE Ended(r.call)'
  <2>1. Asks(r.call) /\ Ended(r.call)
    BY <1>1 DEF SoundCall
  <2>2. QED
    BY <2>1, OutcomesStay DEF Asks, Ended
<1>2. QED
  BY <1>1 DEF SoundCall, Asks

LEMMA CallsStep ==
    ASSUME BackendInv, [Direct \/ Submitted]_contractVars,
           \/ calls' = calls
           \/ \E c \in Callers : \E r : calls' = [calls EXCEPT ![c] = r] /\ SoundCall(r)'
    PROVE  CallsSound'
<1>1. ASSUME NEW c \in Callers, calls'[c] = calls[c] PROVE SoundCall(calls[c])'
  <2> PICK r : r = calls[c]
    OBVIOUS
  <2>1. SoundCall(r)'
    BY CallStands DEF BackendInv, CallsSound
  <2>2. QED
    BY <1>1, <2>1 DEF SoundCall, Asks, Ended
<1>2. CASE calls' = calls
  BY <1>1, <1>2 DEF CallsSound, BackendInv
<1>3. ASSUME NEW d \in Callers, NEW r, calls' = [calls EXCEPT ![d] = r], SoundCall(r)'
      PROVE  CallsSound'
  <2>1. \A c \in Callers : calls'[c] = IF c = d THEN r ELSE calls[c]
    BY <1>3 DEF BackendInv, CallsSound
  <2>2. SoundCall(calls[d])'
    BY <1>3, <2>1 DEF SoundCall, Asks, Ended
  <2>3. DOMAIN calls' = Callers /\ calls' = [c \in Callers |-> calls'[c]]
    BY <1>3 DEF BackendInv, CallsSound
  <2>4. QED
    BY <1>1, <2>1, <2>2, <2>3 DEF CallsSound
<1>4. QED
  BY <1>2, <1>3

LEMMA RowsStay ==
    ASSUME BackendInv, [Direct \/ Submitted]_contractVars, payoutRows' = payoutRows
    PROVE  RowsSound'
<1>1. ASSUME NEW e \in PayoutIds
      PROVE  /\ payoutRows'[e].status = "completed" => payouts'[e].status = "Completed"
             /\ payoutRows'[e].status = "cancelled" => payouts'[e].status = "Cancelled"
  BY OutcomesStay DEF BackendInv, RowsSound, RowTellsOutcome
<1>2. QED
  BY <1>1 DEF BackendInv, RowsSound, RowTellsOutcome

\* A row is written to tell what the contract says of its escrow, or keeps its
\* status.
LEMMA RowStep ==
    ASSUME BackendInv, payouts' = payouts, NEW e, NEW row \in RowRecord,
           payoutRows' = [payoutRows EXCEPT ![e] = row],
           e \in PayoutIds =>
              \/ row.status \in {"pending", payoutRows[e].status}
              \/ row.status = "completed" /\ payouts[e].status = "Completed"
              \/ row.status = "cancelled" /\ payouts[e].status = "Cancelled"
    PROVE  RowsSound'
<1>1. payoutRows \in [PayoutIds -> RowRecord] /\ RowTellsOutcome
  BY DEF BackendInv, RowsSound
<1>2. payoutRows' \in [PayoutIds -> RowRecord]
  BY <1>1
<1>3. ASSUME NEW d \in PayoutIds
      PROVE  /\ payoutRows'[d].status = "completed" => payouts'[d].status = "Completed"
             /\ payoutRows'[d].status = "cancelled" => payouts'[d].status = "Cancelled"
  <2>1. CASE d = e
    BY <1>1, <2>1 DEF RowTellsOutcome
  <2>2. CASE d # e
    BY <1>1, <2>2 DEF RowTellsOutcome
  <2>3. QED
    BY <2>1, <2>2
<1>4. QED
  BY <1>2, <1>3 DEF RowsSound, RowTellsOutcome

LEMMA RequestStep ==
    ASSUME BackendInv, AgentInv',
           \/ \E c \in Callers :
                 \/ \E a \in PayoutAgents, sum \in PayoutSums : AskCreate(c, a, sum)
                 \/ \E e \in PayoutIds : AskConfirm(c, e) \/ AskCancel(c, e)
    PROVE  BackendInv'
<1>1. /\ payoutRows \in [PayoutIds -> RowRecord] /\ UNCHANGED <<contractVars, payoutRows, strays>>
      /\ NoCall \in CallRecord
  BY DEF AskCreate, AskConfirm, AskCancel, BackendInv, RowsSound, NoCall, CallRecord
<1>2. ASSUME NEW c \in Callers, NEW call, Asks(call), Serves(c, call) PROVE CallsSound'
  <2> DEFINE r == [at |-> "read", call |-> call]
  <2>1. SoundCall(r)'
    BY <1>2 DEF SoundCall, Asks
  <2>2. calls' = [calls EXCEPT ![c] = r]
    BY <1>2 DEF Serves
  <2> HIDE DEF r
  <2>3. QED
    BY <1>1, <2>1, <2>2, CallsStep
<1>3. ASSUME NEW c \in Callers, NEW a \in PayoutAgents, NEW sum \in PayoutSums,
             AskCreate(c, a, sum)
      PROVE  CallsSound'
  <2> DEFINE call == [NoCall EXCEPT !.op = "create", !.agent = a, !.sum = sum]
  <2>1. Asks(call) /\ Serves(c, call)
    BY <1>1, <1>3 DEF AskCreate, Asks, CallRecord
  <2> HIDE DEF call
  <2>2. QED
    BY <1>2, <2>1
<1>4. ASSUME NEW c \in Callers, NEW e \in PayoutIds, AskConfirm(c, e) PROVE CallsSound'
  <2> DEFINE call == [NoCall EXCEPT !.op = "confirm", !.id = e, !.agent = payoutRows[e].agent]
  <2>1. payoutRows[e].agent \in PayoutAgents \cup {NoAgent}
    BY <1>1 DEF RowRecord
  <2>2. Asks(call) /\ Serves(c, call)
    BY <1>1, <1>4, <2>1 DEF AskConfirm, Asks, CallRecord
  <2> HIDE DEF call
  <2>3. QED
    BY <1>2, <2>2
<1>5. ASSUME NEW c \in Callers, NEW e \in PayoutIds, AskCancel(c, e) PROVE CallsSound'
  <2> DEFINE call == [NoCall EXCEPT !.op = "cancel", !.id = e]
  <2>1. Asks(call) /\ Serves(c, call)
    BY <1>1, <1>5 DEF AskCancel, Asks, CallRecord
  <2> HIDE DEF call
  <2>2. QED
    BY <1>2, <2>1
<1>6. StraysSound'
  BY <1>1 DEF BackendInv, StraysSound, Asks
<1>7. RowsSound'
  BY <1>1, RowsStay
<1>8. QED
  BY <1>3, <1>4, <1>5, <1>6, <1>7 DEF BackendInv

LEMMA CallStep ==
    ASSUME BackendInv, AgentInv', [Direct \/ Submitted]_contractVars, NEW c \in Callers,
           SendCall(c) \/ LandCall(c) \/ CallFails(c) \/ GiveUp(c) \/ LoseOutcome(c)
    PROVE  BackendInv'
<1>1. SoundCall(calls[c]) /\ payoutRows' = payoutRows /\ created' \in 0..MaxPayouts
  BY DEF BackendInv, CallsSound, SendCall, LandCall, CallFails, GiveUp, LoseOutcome,
         AgentInv, AgentFundsCovered, AgentTypeOK
<1>2. ASSUME NEW r, calls' = [calls EXCEPT ![c] = r], SoundCall(r)' PROVE CallsSound'
  BY <1>2, CallsStep
<1>3. SoundCall(AtRest)'
  BY DEF SoundCall, AtRest, NoCall, CallRecord
<1>4. CASE SendCall(c)
  <2> DEFINE r == [calls[c] EXCEPT !.at = "wait"]
  <2>1. calls' = [calls EXCEPT ![c] = r] /\ calls[c].at = "read"
    BY <1>4 DEF SendCall, Turn, Doing
  <2>2. r.at = "wait" /\ r.call = calls[c].call
    BY <1>1 DEF SoundCall
  <2>3. r \in [at : {"idle", "read", "wait", "landed"}, call : CallRecord]
    BY <1>1 DEF SoundCall
  <2> HIDE DEF r
  <2>4. Asks(r.call)
    BY <1>1, <2>1, <2>2 DEF SoundCall
  <2>5. PICK s : s = r
    OBVIOUS
  <2>6. SoundCall(s)'
    BY <2>2, <2>3, <2>4, <2>5 DEF SoundCall, Asks
  <2>7. CallsSound'
    BY <1>2, <2>1, <2>5, <2>6
  <2>8. QED
    BY <1>1, <1>4, <2>7, RowsStay DEF SendCall, BackendInv, StraysSound, Asks
<1>5. CASE LandCall(c)
  <2> PICK call : call = calls[c].call
    OBVIOUS
  <2> DEFINE id == IF call.op = "create" THEN created' ELSE call.id
             after == [call EXCEPT !.id = id]
  <2>1. /\ Asks(call) /\ Executes(call) /\ strays' = strays
        /\ calls' = [calls EXCEPT ![c].at = "landed",
                        ![c].call.id = IF calls[c].call.op = "create" THEN created' ELSE @]
    BY <1>1, <1>5 DEF LandCall, Doing, SoundCall
  <2>2. call \in CallRecord /\ id \in PayoutIds \cup {0}
    BY <1>1, <2>1 DEF Asks, CallRecord, PayoutIds
  <2>3. after \in CallRecord /\ after.op = call.op /\ after.id = id /\ after.sum = call.sum
    BY <2>2 DEF CallRecord
  <2> DEFINE r == [[calls[c] EXCEPT !.at = "landed"] EXCEPT !.call = after]
  <2>4. calls' = [calls EXCEPT ![c] = r]
    <3>1. calls[c] = [at |-> calls[c].at, call |-> call] /\ c \in DOMAIN calls
      BY <1>1 DEF SoundCall, BackendInv, CallsSound
    <3>2. QED
      BY <2>1, <3>1
  <2>5. PICK s : s = r
    OBVIOUS
  <2>6. s.at = "landed" /\ s.call = after
    BY <1>1, <2>5 DEF SoundCall
  <2>7. s \in [at : {"idle", "read", "wait", "landed"}, call : CallRecord]
    BY <1>1, <2>3, <2>5 DEF SoundCall
  <2> HIDE DEF after, r
  <2>8. Ended(s.call)'
    BY <2>1, <2>3, <2>6, CallExecutes DEF Ended, BackendInv
  <2>9. Asks(s.call)'
    BY <2>1, <2>3, <2>6 DEF Asks
  <2>10. CallsSound'
    BY <1>2, <2>4, <2>5, <2>6, <2>7, <2>8, <2>9 DEF SoundCall
  <2>11. QED
    BY <1>1, <2>1, <2>10, RowsStay DEF BackendInv, StraysSound, Asks
<1>6. CASE CallFails(c) \/ LoseOutcome(c)
  <2>1. CallsSound' /\ strays' = strays
    BY <1>2, <1>3, <1>6 DEF CallFails, LoseOutcome, Rest, AtRest, NoCall
  <2>2. QED
    BY <1>1, <2>1, RowsStay DEF BackendInv, StraysSound, Asks
<1>7. CASE GiveUp(c)
  <2>1. CallsSound' /\ strays' = strays \cup {calls[c].call} /\ Asks(calls[c].call)
    BY <1>1, <1>2, <1>3, <1>7 DEF GiveUp, Rest, Doing, SoundCall, AtRest, NoCall
  <2>2. StraysSound'
    BY <2>1 DEF BackendInv, StraysSound, Asks
  <2>3. QED
    BY <1>1, <2>1, <2>2, RowsStay DEF BackendInv
<1>8. QED
  BY <1>4, <1>5, <1>6, <1>7

\* The row is not read again before it is written, and need not be.
LEMMA SaveStep ==
    ASSUME BackendInv, NEW c \in Callers, SaveOutcome(c)
    PROVE  BackendInv'
<1> PICK call : call = calls[c].call
  OBVIOUS
<1>1. /\ Asks(call) /\ Ended(call) /\ call \in CallRecord
      /\ calls' = [calls EXCEPT ![c] = AtRest]
      /\ UNCHANGED <<contractVars, strays>> /\ payouts' = payouts
      /\ payoutRows \in [PayoutIds -> RowRecord]
  BY DEF SaveOutcome, Doing, Rest, BackendInv, CallsSound, SoundCall, Asks, contractVars, RowsSound
<1>2. AgentInv'
  BY <1>1, AgentNextInv DEF BackendInv
<1>3. CallsSound'
  <2>1. SoundCall(AtRest)'
    BY DEF SoundCall, AtRest, NoCall, CallRecord
  <2>2. QED
    BY <1>1, <2>1, CallsStep DEF AtRest, NoCall
<1>4. RowsSound'
  <2>1. CASE call.op = "create"
    <3> DEFINE row == [NoRow EXCEPT !.status = "pending", !.agent = call.agent]
    <3>1. payoutRows' = [payoutRows EXCEPT ![call.id] = row]
      BY <2>1 DEF SaveOutcome
    <3>2. call.agent \in PayoutAgents \cup {NoAgent}
      BY <1>1 DEF CallRecord
    <3>3. NoRow \in RowRecord
      BY DEF NoRow, RowRecord
    <3>4. row \in RowRecord /\ row.status = "pending"
      BY <3>2, <3>3 DEF RowRecord
    <3> HIDE DEF row
    <3>5. QED
      BY <1>1, <3>1, <3>4, RowStep
  <2>2. ASSUME call.op \in {"confirm", "cancel"} PROVE RowsSound'
    <3>1. PICK e \in PayoutIds : e = call.id
      BY <1>1, <2>2 DEF Asks
    <3> DEFINE status == IF call.op = "confirm" THEN "completed" ELSE "cancelled"
               row == [payoutRows[e] EXCEPT !.status = status]
    <3>2. payoutRows' = [payoutRows EXCEPT ![e] = row]
      <4>1. SetStatus(e, status)
        BY <2>2, <3>1 DEF SaveOutcome
      <4>2. QED
        BY <4>1 DEF SetStatus
    <3>3. row \in RowRecord /\ row.status = status
      BY <1>1 DEF RowRecord
    <3>4. \/ status = "completed" /\ payouts[e].status = "Completed"
          \/ status = "cancelled" /\ payouts[e].status = "Cancelled"
      BY <1>1, <2>2, <3>1 DEF Ended
    <3> HIDE DEF row, status
    <3>5. QED
      BY <1>1, <3>2, <3>3, <3>4, RowStep
  <2>3. QED
    BY <1>1, <2>1, <2>2 DEF CallRecord, Asks
<1>5. QED
  BY <1>1, <1>2, <1>3, <1>4 DEF BackendInv, StraysSound, Asks

\* A call that was given up may still be applied: it ends an escrow whose row
\* does not say so.
LEMMA StrayStep ==
    ASSUME BackendInv, AgentInv', [Direct \/ Submitted]_contractVars, NEW call \in strays,
           LandStray(call) \/ ForgetStray(call)
    PROVE  BackendInv'
<1>1. strays' \subseteq strays /\ UNCHANGED <<payoutRows, calls>>
  BY DEF LandStray, ForgetStray
<1>2. StraysSound'
  BY <1>1 DEF BackendInv, StraysSound, Asks
<1>3. QED
  BY <1>1, <1>2, CallsStep, RowsStay DEF BackendInv

\* partial_release and the passing of 48 hours touch the row alone.
LEMMA RowAloneStep ==
    ASSUME BackendInv, NEW e \in PayoutIds,
           AgeRow(e) \/ \E sum \in PartSums : RecordPartial(e, sum)
    PROVE  BackendInv'
<1>1. /\ UNCHANGED <<contractVars, calls, strays>> /\ payouts' = payouts
      /\ payoutRows[e] \in RowRecord
  BY DEF AgeRow, RecordPartial, contractVars, BackendInv, RowsSound
<1>2. RowsSound'
  <2>1. CASE AgeRow(e)
    <3> DEFINE row == [payoutRows[e] EXCEPT !.old = TRUE]
    <3>1. payoutRows' = [payoutRows EXCEPT ![e] = row]
      BY <2>1 DEF AgeRow
    <3>2. row \in RowRecord /\ row.status = payoutRows[e].status
      BY <1>1 DEF RowRecord
    <3> HIDE DEF row
    <3>3. QED
      BY <1>1, <3>1, <3>2, RowStep
  <2>2. ASSUME NEW sum \in PartSums, RecordPartial(e, sum) PROVE RowsSound'
    <3> DEFINE row == [payoutRows[e] EXCEPT !.released = @ + sum]
    <3>1. payoutRows' = [payoutRows EXCEPT ![e] = row] /\ sum \in Int
      BY <2>2, AgentEscrowConstants DEF RecordPartial
    <3>2. row \in RowRecord /\ row.status = payoutRows[e].status
      BY <1>1, <3>1 DEF RowRecord
    <3> HIDE DEF row
    <3>3. QED
      BY <1>1, <3>1, <3>2, RowStep
  <2>3. QED
    BY <2>1, <2>2
<1>3. AgentInv'
  BY <1>1, AgentNextInv DEF BackendInv
<1>4. QED
  BY <1>1, <1>2, <1>3, CallsStep DEF BackendInv, StraysSound, Asks

LEMMA BackendNextInv ==
    ASSUME BackendInv, [PayoutsNext]_payoutVars
    PROVE  BackendInv'
<1>1. [Direct \/ Submitted]_contractVars
  BY BackendCallsContract
<1>2. AgentInv'
  BY <1>1, AgentNextInv DEF BackendInv
<1>3. ASSUME UNCHANGED backendVars PROVE BackendInv'
  BY <1>1, <1>2, <1>3, CallsStep, RowsStay DEF backendVars, BackendInv, StraysSound, Asks
<1>4. CASE (Direct /\ UNCHANGED backendVars) \/ UNCHANGED payoutVars
  BY <1>3, <1>4 DEF payoutVars
<1>5. ASSUME NEW c \in Callers,
             SendCall(c) \/ LandCall(c) \/ CallFails(c) \/ GiveUp(c) \/ LoseOutcome(c)
      PROVE  BackendInv'
  BY <1>1, <1>2, <1>5, CallStep
<1>6. ASSUME NEW call \in strays, LandStray(call) \/ ForgetStray(call) PROVE BackendInv'
  BY <1>1, <1>2, <1>6, StrayStep
<1>7. QED
  BY <1>2, <1>4, <1>5, <1>6, RequestStep, SaveStep, RowAloneStep DEF PayoutsNext

LEMMA BackendInitInv == PayoutsInit => BackendInv
<1> SUFFICES ASSUME PayoutsInit PROVE BackendInv
  OBVIOUS
<1>1. AgentInv
  BY AgentInitInv DEF PayoutsInit
<1>2. AtRest \in [at : {"idle", "read", "wait", "landed"}, call : CallRecord] /\ AtRest.at = "idle"
  BY DEF AtRest, NoCall, CallRecord
<1>3. NoRow \in RowRecord /\ NoRow.status = "none"
  BY DEF NoRow, RowRecord
<1>4. CallsSound /\ StraysSound
  BY <1>2 DEF PayoutsInit, CallsSound, SoundCall, StraysSound
<1>5. RowsSound
  BY <1>3 DEF PayoutsInit, RowsSound, RowTellsOutcome
<1>6. QED
  BY <1>1, <1>4, <1>5 DEF BackendInv

LEMMA BackendInvariant == PayoutsSpec => []BackendInv
<1>1. BackendInv /\ [PayoutsNext]_payoutVars => BackendInv'
  BY BackendNextInv
<1>2. QED
  BY <1>1, BackendInitInv, PTL DEF PayoutsSpec

\* To the contract the backend is one more caller of its entry points, whatever
\* answers it loses: all that is proved of the contract holds beside it.
THEOREM BackendIsAClient == PayoutsSpec => AgentSpec
<1>1. PayoutsInit => AgentInit
  BY DEF PayoutsInit
<1>2. BackendInv /\ [PayoutsNext]_payoutVars => [Direct \/ Submitted]_contractVars
  BY BackendCallsContract
<1>3. QED
  BY <1>1, <1>2, BackendInvariant, PTL DEF PayoutsSpec, AgentSpec

\* A row that says how its escrow ended is right, although the UPDATE looks at
\* no earlier state and calls that were given up may land at any time
\* (agentEscrowController.js confirm, cancel).
THEOREM RowsTellOutcomes == PayoutsSpec => []RowTellsOutcome
<1>1. BackendInv => RowTellsOutcome
  BY DEF BackendInv, RowsSound
<1>2. QED
  BY <1>1, BackendInvariant, PTL

-----------------------------------------------------------------------------
(* Payment channels.                                                       *)
(*                                                                         *)
(* The inductive invariant adds to ChannelsSound that a row is held by one *)
(* request, that what the holder has read is still so, and that every      *)
(* transaction on its way or on the ledger is followed: by the closed row, *)
(* by the request that waits for its answer, or not at all (unanswered).   *)

\* One request at a time is between SELECT ... FOR UPDATE and its end.
LockExclusive ==
    \A r, q \in ChannelCallers : \A c \in Channels :
        Holds(r, c) /\ Holds(q, c) => r = q

Awaits(r, x) ==
    channelCalls[r].at \in {"sent", "answered"} /\ channelCalls[r].tx = x

\* What the holder of a row knows of it.
HolderSound(r) ==
    LET call == channelCalls[r]
        row == channels[call.channel]
    IN  call.at \in Holding =>
          /\ row.status = "open"
          /\ call.op = "transact" => call.at = "locked" /\ call.amount <= row.sender
          /\ call.op = "close" => call.amount = row.recipient
          /\ call.at # "locked" =>
                /\ call.tx \in Transactions
                /\ call.tx.channel = call.channel /\ call.tx.amount = row.recipient
          /\ call.at = "answered" => call.tx \in settlements

\* What a row says by itself.
RowSound(row, c) ==
    /\ row.sender % 2 = 0 /\ row.recipient % 2 = 0
    /\ row.sender + row.recipient = row.funding + 2 * row.extra
    /\ row.status # "none" =>
          /\ row.closing \in Transactions
          /\ row.closing.channel = c /\ row.closing.amount = 0

Followed(x) ==
    \/ x.channel \in unanswered
    \/ channels[x.channel].status = "closed" /\ x = channels[x.channel].hash
    \/ \E r \in ChannelCallers : Awaits(r, x)

ChannelInv ==
    /\ ChannelsTypeOK
    /\ LockExclusive
    /\ \A r \in ChannelCallers : HolderSound(r)
    /\ \A c \in Channels : RowSound(channels[c], c)
    /\ ClosedAsSettled
    /\ \A x \in network \cup settlements : Followed(x)

-----------------------------------------------------------------------------
(* Facts that several steps need.                                          *)

LEMMA StoredEven ==
    ASSUME NEW x \in Nat
    PROVE  /\ Stored(x) \in Nat /\ Stored(x) % 2 = 0
           /\ Stored(x) = x + (x % 2)
  BY DEF Stored

\* A transfer of a payment between two balances of whole stroops: what is
\* rounded up on one side is not taken off on the other.
LEMMA TransferBalances ==
    ASSUME NEW s \in Nat, NEW r \in Nat, NEW a \in Nat,
           s % 2 = 0, r % 2 = 0, a <= s
    PROVE  /\ Stored(s - a) \in Nat /\ Stored(s - a) % 2 = 0
           /\ Stored(r + a) \in Nat /\ Stored(r + a) % 2 = 0
           /\ Stored(s - a) + Stored(r + a) = s + r + 2 * (a % 2)
<1>1. s - a \in Nat /\ r + a \in Nat
  OBVIOUS
<1>2. (s - a) % 2 = a % 2 /\ (r + a) % 2 = a % 2
  OBVIOUS
<1>3. a % 2 \in Nat
  OBVIOUS
<1>4. Stored(s - a) = s - a + (a % 2) /\ Stored(r + a) = r + a + (a % 2)
  BY <1>1, <1>2, StoredEven
<1>5. QED
  BY <1>1, <1>3, <1>4, StoredEven

LEMMA CallKinds ==
    ASSUME ChannelInv, NEW r \in ChannelCallers
    PROVE  channelCalls[r] = Idle \/ channelCalls[r] \in ChannelCall
  BY DEF ChannelInv, ChannelsTypeOK

LEMMA CallFields ==
    ASSUME NEW call \in ChannelCall
    PROVE  /\ call.at \in Holding \cup {"asked"}
           /\ call.op \in {"transact", "close"}
           /\ call.channel \in Channels /\ call.amount \in Nat
           /\ call.fits \in BOOLEAN
           /\ call.tx \in Transactions \cup {NoTransaction}
  BY DEF ChannelCall

LEMMA RowFields ==
    ASSUME NEW row \in ChannelRow
    PROVE  /\ row.status \in {"none", "open", "closed"}
           /\ row.funding \in Nat /\ row.sender \in Nat
           /\ row.recipient \in Nat /\ row.extra \in Nat
           /\ row.closing \in Transactions \cup {NoTransaction}
           /\ row.hash \in Transactions \cup {NoTransaction}
  BY DEF ChannelRow

LEMMA TxFields ==
    ASSUME NEW x \in Transactions
    PROVE  /\ x.id \in Nat /\ x.seq \in Nat
           /\ x.channel \in Channels /\ x.amount \in Nat
  BY DEF Transactions

LEMMA BusyIsCall ==
    ASSUME ChannelInv, NEW r \in ChannelCallers, channelCalls[r].at # "idle"
    PROVE  channelCalls[r] \in ChannelCall
  BY CallKinds DEF Idle

LEMMA ChannelsInitially == ChannelsInit => ChannelInv
<1> SUFFICES ASSUME ChannelsInit PROVE ChannelInv
  OBVIOUS
<1>1. ChannelsTypeOK
  BY DEF ChannelsInit, ChannelsTypeOK, ChannelRow, Idle
<1>2. \A r \in ChannelCallers : channelCalls[r].at = "idle"
  BY DEF ChannelsInit, Idle
<1>3. LockExclusive /\ \A r \in ChannelCallers : HolderSound(r)
  BY <1>2 DEF LockExclusive, Holds, HolderSound, Holding
<1>4. ASSUME NEW c \in Channels
      PROVE  RowSound(channels[c], c) /\ channels[c].status = "none"
  BY DEF ChannelsInit, RowSound
<1>5. ClosedAsSettled /\ \A x \in network \cup settlements : Followed(x)
  BY <1>4 DEF ChannelsInit, ClosedAsSettled
<1>6. QED
  BY <1>1, <1>3, <1>4, <1>5 DEF ChannelInv

-----------------------------------------------------------------------------
(* Steps that leave the rows alone.                                        *)

\* What is true of the rows does not depend on the requests.
LEMMA RowsKept ==
    ASSUME ChannelInv, UNCHANGED channels, settlements \subseteq settlements'
    PROVE  (\A c \in Channels : RowSound(channels[c], c))' /\ ClosedAsSettled'
  BY DEF ChannelInv, ClosedAsSettled

\* A request that is outside its database transaction afterwards, and nobody's
\* answer is lost by it.
LEMMA LeaveStep ==
    ASSUME ChannelInv, NEW r \in ChannelCallers,
           NEW v \in {Idle} \cup ChannelCall, v.at \notin Holding,
           Go(r, v), UNCHANGED <<ChannelRows, defaultKey, OnLedger>>,
           unanswered \subseteq unanswered', unanswered' \subseteq Channels,
           \A x \in network \cup settlements :
               Awaits(r, x) => x.channel \in unanswered'
    PROVE  ChannelInv'
<1>1. /\ UNCHANGED <<channels, signedTxs, walletSeq, foreign, mature, network,
                     settlements>>
      /\ channelCalls' = [channelCalls EXCEPT ![r] = v]
  BY DEF ChannelRows, OnLedger, Go
<1>2. channelCalls \in [ChannelCallers -> {Idle} \cup ChannelCall]
  BY DEF ChannelInv, ChannelsTypeOK
<1>3. /\ channelCalls'[r] = v
      /\ \A q \in ChannelCallers : q # r => channelCalls'[q] = channelCalls[q]
  BY <1>1, <1>2
<1>4. ChannelsTypeOK'
  BY <1>1, <1>2 DEF ChannelInv, ChannelsTypeOK
<1>5. LockExclusive'
  BY <1>3 DEF ChannelInv, LockExclusive, Holds
<1>6. \A q \in ChannelCallers : HolderSound(q)'
  BY <1>1, <1>3 DEF ChannelInv, HolderSound
<1>7. ASSUME NEW x \in network' \cup settlements'
      PROVE  Followed(x)'
  <2>1. x \in network \cup settlements /\ Followed(x)
    BY <1>1, <1>7 DEF ChannelInv
  <2>2. CASE \E q \in ChannelCallers : Awaits(q, x)
    BY <1>1, <1>3, <2>1, <2>2 DEF Followed, Awaits
  <2>3. CASE ~ \E q \in ChannelCallers : Awaits(q, x)
    BY <1>1, <2>1, <2>3 DEF Followed
  <2>4. QED
    BY <2>2, <2>3
<1>8. QED
  BY <1>1, <1>4, <1>5, <1>6, <1>7, RowsKept DEF ChannelInv

LEMMA AskStep ==
    ASSUME ChannelInv, NEW r \in ChannelCallers, NEW c \in Channels,
           AskClose(r, c) \/ \E sum \in ChannelSums : AskTransact(r, c, sum)
    PROVE  ChannelInv'
<1>1. PICK op \in {"transact", "close"}, sum \in Nat :
         /\ channelCalls[r] = Idle
         /\ Go(r, [at |-> "asked", op |-> op, channel |-> c, amount |-> sum,
                   fits |-> defaultKey, tx |-> NoTransaction])
         /\ UNCHANGED <<ChannelRows, defaultKey, OnLedger, unanswered>>
  <2>1. CASE AskClose(r, c)
    BY <2>1 DEF AskClose
  <2>2. CASE \E sum \in ChannelSums : AskTransact(r, c, sum)
    BY <2>2, ChannelConstants DEF AskTransact
  <2>3. QED
    BY <2>1, <2>2
<1> DEFINE v == [at |-> "asked", op |-> op, channel |-> c, amount |-> sum,
                 fits |-> defaultKey, tx |-> NoTransaction]
<1>2. v \in ChannelCall /\ v.at \notin Holding
  BY DEF ChannelInv, ChannelsTypeOK, ChannelCall, Holding
<1>3. ~ \E x \in network \cup settlements : Awaits(r, x)
  BY <1>1 DEF Awaits, Idle
<1>4. Go(r, v)
  BY <1>1
<1>5. unanswered \subseteq unanswered' /\ unanswered' \subseteq Channels
  BY <1>1 DEF ChannelInv, ChannelsTypeOK
<1> HIDE DEF v
<1>6. QED
  BY <1>1, <1>2, <1>3, <1>4, <1>5, LeaveStep

LEMMA HearFailureStep ==
    ASSUME ChannelInv, NEW r \in ChannelCallers, HearFailure(r)
    PROVE  ChannelInv'
<1>1. /\ Go(r, Idle) /\ channelCalls[r].tx \notin network \cup settlements
      /\ UNCHANGED <<ChannelRows, defaultKey, OnLedger, unanswered>>
  BY DEF HearFailure, Answered
<1>2. ~ \E x \in network \cup settlements : Awaits(r, x)
  BY <1>1 DEF Awaits
<1>3. Idle.at \notin Holding
  BY DEF Idle, Holding
<1>4. unanswered \subseteq unanswered' /\ unanswered' \subseteq Channels
  BY <1>1 DEF ChannelInv, ChannelsTypeOK
<1>5. QED
  BY <1>1, <1>2, <1>3, <1>4, LeaveStep

LEMMA RollBackStep ==
    ASSUME ChannelInv, NEW r \in ChannelCallers, RollBack(r)
    PROVE  ChannelInv'
<1> DEFINE call == channelCalls[r]
<1>1. /\ call.at \in Holding /\ Go(r, Idle)
      /\ unanswered' = IF call.at \in {"sent", "answered"}
                       THEN unanswered \cup {call.channel} ELSE unanswered
      /\ UNCHANGED <<ChannelRows, defaultKey, OnLedger>>
  BY DEF RollBack, Answered
<1>2. call \in ChannelCall /\ call.channel \in Channels
  BY <1>1, BusyIsCall, CallFields DEF Holding
<1>3. unanswered \subseteq unanswered' /\ unanswered' \subseteq Channels
  BY <1>1, <1>2 DEF ChannelInv, ChannelsTypeOK
<1>4. ASSUME NEW x \in network \cup settlements, Awaits(r, x)
      PROVE  x.channel \in unanswered'
  <2>1. call.at \in {"sent", "answered"} /\ call.tx = x
    BY <1>4 DEF Awaits
  <2>2. x.channel = call.channel
    BY <1>1, <2>1 DEF ChannelInv, HolderSound
  <2>3. QED
    BY <1>1, <2>1, <2>2
<1>5. Idle.at \notin Holding
  BY DEF Idle, Holding
<1>6. QED
  BY <1>1, <1>3, <1>4, <1>5, LeaveStep

\* Keys, time, and other transactions of the wallet.
LEMMA ElsewhereStep ==
    ASSUME ChannelInv,
           SwitchDefault \/ SendForeign \/ \E c \in Channels : ComeOfAge(c)
    PROVE  ChannelInv'
<1>1. UNCHANGED <<channels, channelCalls, signedTxs, network, settlements, unanswered>>
  BY DEF SwitchDefault, SendForeign, ComeOfAge, ChannelRows, OnLedger
<1>2. ChannelsTypeOK'
  <2>1. defaultKey' \in BOOLEAN
    BY DEF ChannelInv, ChannelsTypeOK, SwitchDefault, SendForeign, ComeOfAge
  <2>2. walletSeq' \in Nat /\ foreign' \in Nat
    BY DEF ChannelInv, ChannelsTypeOK, SwitchDefault, SendForeign, ComeOfAge, OnLedger
  <2>3. mature' \subseteq Channels
    BY DEF ChannelInv, ChannelsTypeOK, SwitchDefault, SendForeign, ComeOfAge, OnLedger
  <2>4. QED
    BY <1>1, <2>1, <2>2, <2>3 DEF ChannelInv, ChannelsTypeOK
<1>3. LockExclusive' /\ \A r \in ChannelCallers : HolderSound(r)'
  BY <1>1 DEF ChannelInv, LockExclusive, Holds, HolderSound
<1>4. \A x \in network' \cup settlements' : Followed(x)'
  BY <1>1 DEF ChannelInv, Followed, Awaits
<1>5. QED
  BY <1>1, <1>2, <1>3, <1>4, RowsKept DEF ChannelInv

-----------------------------------------------------------------------------
(* Steps of the request that holds a row.                                  *)

\* The holder r of a row goes on to v, and the rows stay as they are.
LEMMA HolderGoesOn ==
    ASSUME ChannelInv, NEW r \in ChannelCallers, NEW v \in ChannelCall,
           v.at \in Holding, channelCalls[r].at \in Holding,
           v.channel = channelCalls[r].channel,
           Go(r, v), UNCHANGED <<channels, settlements>>
    PROVE  /\ channelCalls' \in [ChannelCallers -> {Idle} \cup ChannelCall]
           /\ channelCalls'[r] = v
           /\ \A q \in ChannelCallers : q # r => channelCalls'[q] = channelCalls[q]
           /\ LockExclusive'
           /\ \A q \in ChannelCallers : q # r => HolderSound(q)'
<1>1. channelCalls \in [ChannelCallers -> {Idle} \cup ChannelCall]
  BY DEF ChannelInv, ChannelsTypeOK
<1>2. /\ channelCalls' \in [ChannelCallers -> {Idle} \cup ChannelCall]
      /\ channelCalls'[r] = v
      /\ \A q \in ChannelCallers : q # r => channelCalls'[q] = channelCalls[q]
  BY <1>1 DEF Go
<1>3. \A q \in ChannelCallers, c \in Channels : Holds(q, c)' => Holds(q, c)
  BY <1>2 DEF Holds
<1>4. LockExclusive'
  BY <1>3 DEF ChannelInv, LockExclusive
<1>5. \A q \in ChannelCallers : q # r => HolderSound(q)'
  BY <1>2 DEF ChannelInv, HolderSound
<1>6. QED
  BY <1>2, <1>4, <1>5

LEMMA LockRowStep ==
    ASSUME ChannelInv, NEW r \in ChannelCallers, LockRow(r)
    PROVE  ChannelInv'
<1> DEFINE call == channelCalls[r]
           row == channels[call.channel]
           v == [call EXCEPT !.at = "locked",
                    !.amount = IF call.op = "close" THEN row.recipient ELSE @]
<1>1. /\ call.at = "asked"
      /\ \A q \in ChannelCallers : ~Holds(q, call.channel)
      /\ UNCHANGED <<ChannelRows, defaultKey, OnLedger, unanswered>>
      /\ \/ /\ row.status = "open"
            /\ call.op = "transact" => call.amount <= row.sender
            /\ Go(r, v)
         \/ Go(r, Idle)
  BY DEF LockRow, ReadRow, Answered
<1>2. call \in ChannelCall
  BY <1>1, BusyIsCall
<1>3. call.channel \in Channels /\ row \in ChannelRow
  BY <1>2, CallFields DEF ChannelInv, ChannelsTypeOK
<1>4. ~ \E x \in network \cup settlements : Awaits(r, x)
  BY <1>1 DEF Awaits
<1>5. unanswered \subseteq unanswered' /\ unanswered' \subseteq Channels
  BY <1>1 DEF ChannelInv, ChannelsTypeOK
<1>6. CASE Go(r, Idle)
  <2>1. Idle.at \notin Holding
    BY DEF Idle, Holding
  <2>2. QED
    BY <1>1, <1>4, <1>5, <1>6, <2>1, LeaveStep
<1>7. CASE /\ row.status = "open" /\ Go(r, v)
           /\ call.op = "transact" => call.amount <= row.sender
  <2>1. /\ v \in ChannelCall /\ v.at = "locked" /\ v.channel = call.channel
        /\ v.op = call.op
        /\ v.amount = IF call.op = "close" THEN row.recipient ELSE call.amount
    BY <1>2, <1>3, RowFields DEF ChannelCall, Holding
  <2> HIDE DEF v
  <2>2. channelCalls \in [ChannelCallers -> {Idle} \cup ChannelCall]
    BY DEF ChannelInv, ChannelsTypeOK
  <2>3. /\ channelCalls' \in [ChannelCallers -> {Idle} \cup ChannelCall]
        /\ channelCalls'[r] = v
        /\ \A q \in ChannelCallers : q # r => channelCalls'[q] = channelCalls[q]
    BY <1>7, <2>1, <2>2 DEF Go
  <2>4. UNCHANGED <<channels, signedTxs, defaultKey, walletSeq, foreign, mature,
                    network, settlements, unanswered>>
    BY <1>1 DEF ChannelRows, OnLedger
  <2>5. ChannelsTypeOK'
    BY <2>3, <2>4 DEF ChannelInv, ChannelsTypeOK
  <2>6. LockExclusive'
    <3>1. \A q \in ChannelCallers, c \in Channels :
             q # r => (Holds(q, c)' <=> Holds(q, c))
      BY <2>3 DEF Holds
    <3>2. \A c \in Channels : Holds(r, c)' => c = call.channel
      BY <2>1, <2>3 DEF Holds
    <3>3. QED
      BY <1>1, <3>1, <3>2 DEF ChannelInv, LockExclusive
  <2>7. \A q \in ChannelCallers : HolderSound(q)'
    <3>1. HolderSound(r)'
      BY <1>2, <1>7, <2>1, <2>3, <2>4, CallFields DEF HolderSound
    <3>2. \A q \in ChannelCallers : q # r => HolderSound(q)'
      BY <2>3, <2>4 DEF ChannelInv, HolderSound
    <3>3. QED
      BY <3>1, <3>2
  <2>8. ASSUME NEW x \in network' \cup settlements'
        PROVE  Followed(x)'
    <3>1. x \in network \cup settlements /\ Followed(x)
      BY <2>4, <2>8 DEF ChannelInv
    <3>2. \A q \in ChannelCallers : Awaits(q, x) => Awaits(q, x)'
      BY <1>1, <2>3 DEF Awaits
    <3>3. QED
      BY <2>4, <3>1, <3>2 DEF Followed
  <2>9. QED
    BY <2>4, <2>5, <2>6, <2>7, <2>8, RowsKept DEF ChannelInv
<1>8. QED
  BY <1>1, <1>6, <1>7

LEMMA TransferredRow ==
    ASSUME NEW row \in ChannelRow, NEW c \in Channels, NEW sum \in Nat,
           RowSound(row, c), sum <= row.sender
    PROVE  LET new == Transferred(row, sum)
           IN  /\ new \in ChannelRow /\ RowSound(new, c)
               /\ new.status = row.status /\ new.closing = row.closing
<1> DEFINE new == Transferred(row, sum)
<1>1. /\ row.sender \in Nat /\ row.recipient \in Nat /\ row.extra \in Nat
      /\ row.funding \in Nat
  BY RowFields
<1>2. row.sender % 2 = 0 /\ row.recipient % 2 = 0
  BY DEF RowSound
<1>3. /\ Stored(row.sender - sum) \in Nat /\ Stored(row.sender - sum) % 2 = 0
      /\ Stored(row.recipient + sum) \in Nat /\ Stored(row.recipient + sum) % 2 = 0
      /\ Stored(row.sender - sum) + Stored(row.recipient + sum)
            = row.sender + row.recipient + 2 * (sum % 2)
  <2> DEFINE s == row.sender
             r == row.recipient
  <2>1. s \in Nat /\ r \in Nat /\ s % 2 = 0 /\ r % 2 = 0 /\ sum <= s
    BY <1>1, <1>2
  <2> HIDE DEF s, r
  <2>2. /\ Stored(s - sum) \in Nat /\ Stored(s - sum) % 2 = 0
        /\ Stored(r + sum) \in Nat /\ Stored(r + sum) % 2 = 0
        /\ Stored(s - sum) + Stored(r + sum) = s + r + 2 * (sum % 2)
    BY <2>1, TransferBalances, ZenonT(30)
  <2>3. QED
    BY <2>2 DEF s, r
<1>4. sum % 2 \in Nat
  OBVIOUS
<1>5. /\ new.sender = Stored(row.sender - sum)
      /\ new.recipient = Stored(row.recipient + sum)
      /\ new.extra = row.extra + (sum % 2)
      /\ new.status = row.status /\ new.funding = row.funding
      /\ new.closing = row.closing /\ new.hash = row.hash
  BY DEF Transferred, ChannelRow
<1>6. new \in ChannelRow
  <2> DEFINE a == Stored(row.sender - sum)
             b == Stored(row.recipient + sum)
             e == row.extra + (sum % 2)
  <2>1. a \in Nat /\ b \in Nat /\ e \in Nat
    BY <1>1, <1>3, <1>4
  <2>2. new = [row EXCEPT !.sender = a, !.recipient = b, !.extra = e]
    BY DEF Transferred
  <2> HIDE DEF a, b, e, new
  <2>3. QED
    BY <2>1, <2>2 DEF ChannelRow
<1> HIDE DEF new
<1>7. new.sender + new.recipient = new.funding + 2 * new.extra
  <2> DEFINE t == sum % 2
  <2>1. row.sender + row.recipient = row.funding + 2 * row.extra
    BY DEF RowSound
  <2>2. new.sender + new.recipient = row.sender + row.recipient + 2 * t
        /\ new.extra = row.extra + t /\ t \in Nat
    BY <1>3, <1>4, <1>5
  <2> HIDE DEF t
  <2>3. QED
    BY <1>1, <1>5, <2>1, <2>2
<1>8. RowSound(new, c)
  BY <1>3, <1>5, <1>7 DEF RowSound
<1>9. QED
  BY <1>5, <1>6, <1>8 DEF new

LEMMA RecordTransferStep ==
    ASSUME ChannelInv, NEW r \in ChannelCallers, RecordTransfer(r)
    PROVE  ChannelInv'
<1> DEFINE call == channelCalls[r]
           k == call.channel
           row == channels[k]
           new == Transferred(row, call.amount)
<1>1. /\ call.at = "locked" /\ call.op = "transact"
      /\ channels' = [channels EXCEPT ![k] = new]
      /\ channelCalls' = [channelCalls EXCEPT ![r] = Idle]
      /\ UNCHANGED <<signedTxs, defaultKey, walletSeq, foreign, mature, network,
                     settlements, unanswered>>
  BY DEF RecordTransfer, Answered, Go, OnLedger
<1>2. call \in ChannelCall /\ call.at \in Holding /\ k \in Channels /\ call.amount \in Nat
  BY <1>1, BusyIsCall, CallFields DEF Holding
<1>3. /\ channels \in [Channels -> ChannelRow] /\ row \in ChannelRow
      /\ channelCalls \in [ChannelCallers -> {Idle} \cup ChannelCall]
  BY <1>2 DEF ChannelInv, ChannelsTypeOK
<1>4. row.status = "open" /\ call.amount <= row.sender /\ RowSound(row, k)
  BY <1>1, <1>2 DEF ChannelInv, HolderSound
<1>5. /\ row.sender \in Nat /\ row.recipient \in Nat /\ row.extra \in Nat
      /\ row.funding \in Nat
  BY <1>3, RowFields
<1>6. /\ new \in ChannelRow /\ RowSound(new, k) /\ new.status = "open"
      /\ new.closing = row.closing
  BY <1>2, <1>3, <1>4, TransferredRow
<1> HIDE DEF new
<1>7. /\ channels' \in [Channels -> ChannelRow]
      /\ channels'[k] = new
      /\ \A c \in Channels : c # k => channels'[c] = channels[c]
      /\ channelCalls' \in [ChannelCallers -> {Idle} \cup ChannelCall]
      /\ channelCalls'[r] = Idle
      /\ \A q \in ChannelCallers : q # r => channelCalls'[q] = channelCalls[q]
  BY <1>1, <1>2, <1>3, <1>6
<1>8. ChannelsTypeOK'
  BY <1>1, <1>7 DEF ChannelInv, ChannelsTypeOK
<1>9. LockExclusive'
  BY <1>7 DEF ChannelInv, LockExclusive, Holds, Idle, Holding
<1>10. ASSUME NEW q \in ChannelCallers
       PROVE  HolderSound(q)'
  <2>1. CASE q = r
    BY <1>7, <2>1 DEF HolderSound, Idle, Holding
  <2>2. CASE q # r /\ channelCalls[q].at \in Holding
    <3>1. channelCalls[q] \in ChannelCall /\ channelCalls[q].channel \in Channels
      BY <2>2, BusyIsCall, CallFields DEF Holding
    <3>2. channelCalls[q].channel # k
      BY <1>2, <2>2, <3>1 DEF ChannelInv, LockExclusive, Holds
    <3>3. QED
      BY <1>1, <1>7, <2>2, <3>1, <3>2 DEF ChannelInv, HolderSound
  <2>3. CASE q # r /\ channelCalls[q].at \notin Holding
    BY <1>7, <2>3 DEF HolderSound
  <2>4. QED
    BY <2>1, <2>2, <2>3
<1>11. \A c \in Channels : RowSound(channels'[c], c)
  BY <1>6, <1>7 DEF ChannelInv
<1>12. ClosedAsSettled'
  BY <1>1, <1>6, <1>7 DEF ChannelInv, ClosedAsSettled
<1>13. ASSUME NEW x \in network' \cup settlements'
       PROVE  Followed(x)'
  <2>1. x \in network \cup settlements /\ Followed(x) /\ x.channel \in Channels
    BY <1>1, <1>13, TxFields DEF ChannelInv, ChannelsTypeOK
  <2>2. \A q \in ChannelCallers : Awaits(q, x) => Awaits(q, x)'
    BY <1>1, <1>7 DEF Awaits
  <2>3. QED
    BY <1>1, <1>4, <1>6, <1>7, <2>1, <2>2 DEF Followed
<1>14. QED
  BY <1>8, <1>9, <1>10, <1>11, <1>12, <1>13 DEF ChannelInv

LEMMA SignSettlementStep ==
    ASSUME ChannelInv, NEW r \in ChannelCallers, SignSettlement(r)
    PROVE  ChannelInv'
<1> DEFINE call == channelCalls[r]
           k == call.channel
           row == channels[k]
<1>1. /\ call.at = "locked" /\ call.op = "close"
      /\ UNCHANGED <<channels, defaultKey, walletSeq, foreign, mature, network,
                     settlements, unanswered>>
  BY DEF SignSettlement, OnLedger
<1>2. call \in ChannelCall /\ call.at \in Holding /\ k \in Channels
  BY <1>1, BusyIsCall, CallFields DEF Holding
<1>3. /\ row.status = "open" /\ call.amount = row.recipient /\ RowSound(row, k)
      /\ row \in ChannelRow /\ walletSeq \in Nat /\ signedTxs \in Nat
  BY <1>1, <1>2 DEF ChannelInv, ChannelsTypeOK, HolderSound
<1>4. PICK v \in ChannelCall :
         /\ Go(r, v) /\ v.at = "signed" /\ v.op = call.op
         /\ v.channel = k /\ v.amount = call.amount
         /\ v.tx \in Transactions /\ v.tx.channel = k /\ v.tx.amount = row.recipient
         /\ signedTxs' \in Nat
  <2>1. CASE call.amount > 0
    <3> DEFINE x == [id |-> signedTxs + 1, seq |-> walletSeq + 1, channel |-> k,
                     amount |-> call.amount]
               v == [call EXCEPT !.at = "signed", !.tx = x]
    <3>1. Go(r, v) /\ signedTxs' = signedTxs + 1
      BY <2>1 DEF SignSettlement
    <3>2. /\ x \in Transactions /\ x.channel = k /\ x.amount = row.recipient
      BY <1>2, <1>3, CallFields DEF Transactions
    <3> HIDE DEF x
    <3>3. /\ v \in ChannelCall /\ v.at = "signed" /\ v.op = call.op
          /\ v.channel = k /\ v.amount = call.amount /\ v.tx = x
      BY <1>2, <3>2 DEF ChannelCall, Holding
    <3>4. signedTxs' \in Nat
      BY <1>3, <3>1
    <3> HIDE DEF v
    <3>5. QED
      BY <3>1, <3>2, <3>3, <3>4
  <2>2. CASE ~(call.amount > 0)
    <3> DEFINE v == [call EXCEPT !.at = "signed", !.fits = TRUE, !.tx = row.closing]
    <3>1. Go(r, v) /\ signedTxs' = signedTxs
      BY <2>2 DEF SignSettlement
    <3>2. row.closing \in Transactions /\ row.closing.channel = k /\ row.closing.amount = 0
      BY <1>3 DEF RowSound
    <3>3. row.recipient = 0
      BY <1>2, <1>3, <2>2, CallFields
    <3>4. /\ v \in ChannelCall /\ v.at = "signed" /\ v.op = call.op
          /\ v.channel = k /\ v.amount = call.amount /\ v.tx = row.closing
      BY <1>2, <3>2 DEF ChannelCall, Holding
    <3>5. QED
      BY <1>3, <3>1, <3>2, <3>3, <3>4
  <2>3. QED
    BY <2>1, <2>2
<1>5. v.at \in Holding
  BY <1>4 DEF Holding
<1>6. /\ channelCalls' \in [ChannelCallers -> {Idle} \cup ChannelCall]
      /\ channelCalls'[r] = v
      /\ \A q \in ChannelCallers : q # r => channelCalls'[q] = channelCalls[q]
      /\ LockExclusive'
      /\ \A q \in ChannelCallers : q # r => HolderSound(q)'
  BY <1>1, <1>2, <1>4, <1>5, HolderGoesOn
<1>7. ChannelsTypeOK'
  BY <1>1, <1>4, <1>6 DEF ChannelInv, ChannelsTypeOK
<1>8. \A q \in ChannelCallers : HolderSound(q)'
  BY <1>1, <1>3, <1>4, <1>6 DEF HolderSound
<1>9. ASSUME NEW x \in network' \cup settlements'
      PROVE  Followed(x)'
  <2>1. x \in network \cup settlements /\ Followed(x)
    BY <1>1, <1>9 DEF ChannelInv
  <2>2. \A q \in ChannelCallers : Awaits(q, x) => Awaits(q, x)'
    BY <1>1, <1>6 DEF Awaits
  <2>3. QED
    BY <1>1, <2>1, <2>2 DEF Followed
<1>10. QED
  BY <1>1, <1>6, <1>7, <1>8, <1>9, RowsKept DEF ChannelInv

LEMMA SubmitSettlementStep ==
    ASSUME ChannelInv, NEW r \in ChannelCallers, SubmitSettlement(r)
    PROVE  ChannelInv'
<1> DEFINE call == channelCalls[r]
           v == [call EXCEPT !.at = "sent"]
<1>1. /\ call.at = "signed" /\ Go(r, v)
      /\ network' \in {network, network \cup {call.tx}}
      /\ UNCHANGED <<channels, signedTxs, defaultKey, walletSeq, foreign, mature,
                     settlements, unanswered>>
  BY DEF SubmitSettlement, ChannelRows
<1>2. call \in ChannelCall /\ call.at \in Holding
  BY <1>1, BusyIsCall DEF Holding
<1>3. HolderSound(r) /\ call.tx \in Transactions /\ call.tx.channel = call.channel
  BY <1>1, <1>2 DEF ChannelInv, HolderSound
<1>4. /\ v \in ChannelCall /\ v.at = "sent" /\ v.channel = call.channel
      /\ v.op = call.op /\ v.amount = call.amount /\ v.tx = call.tx
  BY <1>2 DEF ChannelCall, Holding
<1> HIDE DEF v
<1>5. v.at \in Holding
  BY <1>4 DEF Holding
<1>6. /\ channelCalls' \in [ChannelCallers -> {Idle} \cup ChannelCall]
      /\ channelCalls'[r] = v
      /\ \A q \in ChannelCallers : q # r => channelCalls'[q] = channelCalls[q]
      /\ LockExclusive'
      /\ \A q \in ChannelCallers : q # r => HolderSound(q)'
  BY <1>1, <1>2, <1>4, <1>5, HolderGoesOn
<1>7. network' \subseteq Transactions
  BY <1>1, <1>3 DEF ChannelInv, ChannelsTypeOK
<1>8. ChannelsTypeOK'
  BY <1>1, <1>6, <1>7 DEF ChannelInv, ChannelsTypeOK
<1>9. HolderSound(r)'
  BY <1>1, <1>2, <1>3, <1>4, <1>6 DEF HolderSound
<1>10. ASSUME NEW x \in network' \cup settlements'
       PROVE  Followed(x)'
  <2>1. CASE x = call.tx
    BY <1>4, <1>6, <2>1 DEF Followed, Awaits
  <2>2. CASE x # call.tx
    <3>1. x \in network \cup settlements /\ Followed(x)
      BY <1>1, <1>10, <2>2 DEF ChannelInv
    <3>2. \A q \in ChannelCallers : Awaits(q, x) => Awaits(q, x)'
      BY <1>1, <1>6 DEF Awaits
    <3>3. QED
      BY <1>1, <3>1, <3>2 DEF Followed
  <2>3. QED
    BY <2>1, <2>2
<1>11. QED
  BY <1>1, <1>6, <1>8, <1>9, <1>10, RowsKept DEF ChannelInv

LEMMA HearSuccessStep ==
    ASSUME ChannelInv, NEW r \in ChannelCallers, HearSuccess(r)
    PROVE  ChannelInv'
<1> DEFINE call == channelCalls[r]
           v == [call EXCEPT !.at = "answered"]
<1>1. /\ call.at = "sent" /\ call.tx \in settlements /\ Go(r, v)
      /\ UNCHANGED <<channels, signedTxs, defaultKey, walletSeq, foreign, mature,
                     network, settlements, unanswered>>
  BY DEF HearSuccess, ChannelRows, OnLedger
<1>2. call \in ChannelCall /\ call.at \in Holding /\ HolderSound(r)
  BY <1>1, BusyIsCall DEF Holding, ChannelInv
<1>3. /\ v \in ChannelCall /\ v.at = "answered" /\ v.channel = call.channel
      /\ v.op = call.op /\ v.amount = call.amount /\ v.tx = call.tx
  BY <1>2 DEF ChannelCall, Holding
<1> HIDE DEF v
<1>4. v.at \in Holding
  BY <1>3 DEF Holding
<1>5. /\ channelCalls' \in [ChannelCallers -> {Idle} \cup ChannelCall]
      /\ channelCalls'[r] = v
      /\ \A q \in ChannelCallers : q # r => channelCalls'[q] = channelCalls[q]
      /\ LockExclusive'
      /\ \A q \in ChannelCallers : q # r => HolderSound(q)'
  BY <1>1, <1>2, <1>3, <1>4, HolderGoesOn
<1>6. ChannelsTypeOK'
  BY <1>1, <1>5 DEF ChannelInv, ChannelsTypeOK
<1>7. HolderSound(r)'
  BY <1>1, <1>2, <1>3, <1>5 DEF HolderSound
<1>8. ASSUME NEW x \in network' \cup settlements'
      PROVE  Followed(x)'
  <2>1. x \in network \cup settlements /\ Followed(x)
    BY <1>1, <1>8 DEF ChannelInv
  <2>2. \A q \in ChannelCallers : Awaits(q, x) => Awaits(q, x)'
    BY <1>1, <1>3, <1>5 DEF Awaits
  <2>3. QED
    BY <1>1, <2>1, <2>2 DEF Followed
<1>9. QED
  BY <1>1, <1>5, <1>6, <1>7, <1>8, RowsKept DEF ChannelInv

LEMMA RecordClosedStep ==
    ASSUME ChannelInv, NEW r \in ChannelCallers, RecordClosed(r)
    PROVE  ChannelInv'
<1> DEFINE call == channelCalls[r]
           k == call.channel
           row == channels[k]
           new == [row EXCEPT !.status = "closed", !.hash = call.tx]
<1>1. /\ call.at = "answered"
      /\ channels' = [channels EXCEPT ![k] = new]
      /\ channelCalls' = [channelCalls EXCEPT ![r] = Idle]
      /\ UNCHANGED <<signedTxs, defaultKey, walletSeq, foreign, mature, network,
                     settlements, unanswered>>
  BY DEF RecordClosed, Answered, Go, OnLedger
<1>2. call \in ChannelCall /\ call.at \in Holding /\ k \in Channels
  BY <1>1, BusyIsCall, CallFields DEF Holding
<1>3. /\ channels \in [Channels -> ChannelRow] /\ row \in ChannelRow
      /\ channelCalls \in [ChannelCallers -> {Idle} \cup ChannelCall]
  BY <1>2 DEF ChannelInv, ChannelsTypeOK
<1>4. /\ row.status = "open" /\ RowSound(row, k)
      /\ call.tx \in Transactions /\ call.tx \in settlements
      /\ call.tx.channel = k /\ call.tx.amount = row.recipient
  BY <1>1, <1>2 DEF ChannelInv, HolderSound
<1>5. /\ new \in ChannelRow /\ new.status = "closed" /\ new.hash = call.tx
      /\ new.recipient = row.recipient /\ new.sender = row.sender
      /\ new.funding = row.funding /\ new.extra = row.extra
      /\ new.closing = row.closing
  BY <1>3, <1>4 DEF ChannelRow
<1> HIDE DEF new
<1>6. RowSound(new, k)
  BY <1>4, <1>5 DEF RowSound
<1>7. /\ channels' \in [Channels -> ChannelRow]
      /\ channels'[k] = new
      /\ \A c \in Channels : c # k => channels'[c] = channels[c]
      /\ channelCalls' \in [ChannelCallers -> {Idle} \cup ChannelCall]
      /\ channelCalls'[r] = Idle
      /\ \A q \in ChannelCallers : q # r => channelCalls'[q] = channelCalls[q]
  BY <1>1, <1>2, <1>3, <1>5
<1>8. ChannelsTypeOK'
  BY <1>1, <1>7 DEF ChannelInv, ChannelsTypeOK
<1>9. LockExclusive'
  BY <1>7 DEF ChannelInv, LockExclusive, Holds, Idle, Holding
<1>10. ASSUME NEW q \in ChannelCallers
       PROVE  HolderSound(q)'
  <2>1. CASE q = r
    BY <1>7, <2>1 DEF HolderSound, Idle, Holding
  <2>2. CASE q # r /\ channelCalls[q].at \in Holding
    <3>1. channelCalls[q] \in ChannelCall /\ channelCalls[q].channel \in Channels
      BY <2>2, BusyIsCall, CallFields DEF Holding
    <3>2. channelCalls[q].channel # k
      BY <1>2, <2>2, <3>1 DEF ChannelInv, LockExclusive, Holds
    <3>3. QED
      BY <1>1, <1>7, <2>2, <3>1, <3>2 DEF ChannelInv, HolderSound
  <2>3. CASE q # r /\ channelCalls[q].at \notin Holding
    BY <1>7, <2>3 DEF HolderSound
  <2>4. QED
    BY <2>1, <2>2, <2>3
<1>11. \A c \in Channels : RowSound(channels'[c], c)
  BY <1>6, <1>7 DEF ChannelInv
<1>12. ClosedAsSettled'
  BY <1>1, <1>4, <1>5, <1>7 DEF ChannelInv, ClosedAsSettled
<1>13. ASSUME NEW x \in network' \cup settlements'
       PROVE  Followed(x)'
  <2>1. x \in network \cup settlements /\ Followed(x) /\ x.channel \in Channels
    BY <1>1, <1>13, TxFields DEF ChannelInv, ChannelsTypeOK
  <2>2. ASSUME NEW q \in ChannelCallers, Awaits(q, x), q # r
        PROVE  Awaits(q, x)'
    BY <1>7, <2>2 DEF Awaits
  <2>3. CASE Awaits(r, x)
    BY <1>4, <1>5, <1>7, <2>3 DEF Followed, Awaits
  <2>4. CASE channels[x.channel].status = "closed" /\ x = channels[x.channel].hash
    BY <1>4, <1>7, <2>1, <2>4 DEF Followed
  <2>5. CASE x.channel \in unanswered
    BY <1>1, <2>5 DEF Followed
  <2>6. QED
    BY <2>1, <2>2, <2>3, <2>4, <2>5 DEF Followed
<1>14. QED
  BY <1>8, <1>9, <1>10, <1>11, <1>12, <1>13 DEF ChannelInv

-----------------------------------------------------------------------------
(* Steps of the ledger, and of a new channel.                              *)

LEMMA LandStep ==
    ASSUME ChannelInv, NEW x \in network, LandSettlement(x)
    PROVE  ChannelInv'
<1>1. /\ network' = network \ {x}
      /\ settlements \subseteq settlements' /\ settlements' \subseteq settlements \cup {x}
      /\ walletSeq' \in {walletSeq, x.seq}
      /\ UNCHANGED <<channels, channelCalls, defaultKey, signedTxs, foreign,
                     mature, unanswered>>
  BY DEF LandSettlement
<1>2. x \in Transactions /\ x.seq \in Nat
  BY TxFields DEF ChannelInv, ChannelsTypeOK
<1>3. ChannelsTypeOK'
  BY <1>1, <1>2 DEF ChannelInv, ChannelsTypeOK
<1>4. LockExclusive' /\ \A r \in ChannelCallers : HolderSound(r)'
  BY <1>1 DEF ChannelInv, LockExclusive, Holds, HolderSound
<1>5. \A y \in network' \cup settlements' : Followed(y)'
  BY <1>1 DEF ChannelInv, Followed, Awaits
<1>6. QED
  BY <1>1, <1>3, <1>4, <1>5, RowsKept DEF ChannelInv

LEMMA OpenStep ==
    ASSUME ChannelInv, NEW c \in Channels, NEW funding \in Fundings,
           OpenChannel(c, funding)
    PROVE  ChannelInv'
<1> DEFINE closing == [id |-> signedTxs + 1, seq |-> walletSeq + 1,
                       channel |-> c, amount |-> 0]
           new == [status |-> "open", funding |-> funding, sender |-> funding,
                   recipient |-> 0, extra |-> 0, hash |-> NoTransaction,
                   closing |-> closing]
<1>1. /\ channels[c].status = "none"
      /\ channels' = [channels EXCEPT ![c] = new]
      /\ signedTxs' = signedTxs + 1
      /\ UNCHANGED <<channelCalls, defaultKey, walletSeq, foreign, mature, network,
                     settlements, unanswered>>
  BY DEF OpenChannel, OnLedger
<1>2. /\ funding \in Nat /\ funding % 2 = 0
      /\ signedTxs \in Nat /\ walletSeq \in Nat
      /\ channels \in [Channels -> ChannelRow]
  BY ChannelConstants DEF ChannelInv, ChannelsTypeOK
<1>3. closing \in Transactions /\ closing.channel = c /\ closing.amount = 0
  BY <1>2 DEF Transactions
<1> HIDE DEF closing
<1>4. new \in ChannelRow /\ RowSound(new, c) /\ new.status = "open"
  BY <1>2, <1>3 DEF ChannelRow, RowSound
<1> HIDE DEF new
<1>5. /\ channels' \in [Channels -> ChannelRow] /\ channels'[c] = new
      /\ \A d \in Channels : d # c => channels'[d] = channels[d]
  BY <1>1, <1>2, <1>4
<1>6. ChannelsTypeOK'
  BY <1>1, <1>2, <1>5 DEF ChannelInv, ChannelsTypeOK
<1>7. LockExclusive'
  BY <1>1 DEF ChannelInv, LockExclusive, Holds
<1>8. ASSUME NEW r \in ChannelCallers
      PROVE  HolderSound(r)'
  <2>1. CASE channelCalls[r].at \in Holding
    <3>1. channelCalls[r] \in ChannelCall /\ channelCalls[r].channel \in Channels
      BY <2>1, BusyIsCall, CallFields DEF Holding
    <3>2. channelCalls[r].channel # c
      BY <1>1, <2>1 DEF ChannelInv, HolderSound
    <3>3. QED
      BY <1>1, <1>5, <2>1, <3>1, <3>2 DEF ChannelInv, HolderSound
  <2>2. CASE channelCalls[r].at \notin Holding
    BY <1>1, <2>2 DEF HolderSound
  <2>3. QED
    BY <2>1, <2>2
<1>9. \A d \in Channels : RowSound(channels'[d], d)
  BY <1>4, <1>5 DEF ChannelInv
<1>10. ClosedAsSettled'
  BY <1>1, <1>4, <1>5 DEF ChannelInv, ClosedAsSettled
<1>11. ASSUME NEW x \in network' \cup settlements'
       PROVE  Followed(x)'
  <2>1. x \in network \cup settlements /\ Followed(x) /\ x.channel \in Channels
    BY <1>1, <1>11, TxFields DEF ChannelInv, ChannelsTypeOK
  <2>2. \A r \in ChannelCallers : Awaits(r, x) => Awaits(r, x)'
    BY <1>1 DEF Awaits
  <2>3. QED
    BY <1>1, <1>5, <2>1, <2>2 DEF Followed
<1>12. QED
  BY <1>6, <1>7, <1>8, <1>9, <1>10, <1>11 DEF ChannelInv

-----------------------------------------------------------------------------
LEMMA ChannelsStep == ChannelInv /\ [ChannelsNext]_channelVars => ChannelInv'
<1> SUFFICES ASSUME ChannelInv, [ChannelsNext]_channelVars PROVE ChannelInv'
  OBVIOUS
<1>1. CASE UNCHANGED channelVars
  <2>1. UNCHANGED <<channels, channelCalls, defaultKey, signedTxs, walletSeq,
                    foreign, mature, network, settlements, unanswered>>
    BY <1>1 DEF channelVars
  <2>2. ChannelsTypeOK' /\ LockExclusive' /\ \A r \in ChannelCallers : HolderSound(r)'
    BY <2>1 DEF ChannelInv, ChannelsTypeOK, LockExclusive, Holds, HolderSound
  <2>3. \A x \in network' \cup settlements' : Followed(x)'
    BY <2>1 DEF ChannelInv, Followed, Awaits
  <2>4. QED
    BY <2>1, <2>2, <2>3, RowsKept DEF ChannelInv
<1>2. ASSUME NEW c \in Channels, NEW funding \in Fundings, OpenChannel(c, funding)
      PROVE  ChannelInv'
  BY <1>2, OpenStep
<1>3. ASSUME NEW c \in Channels, ComeOfAge(c)
      PROVE  ChannelInv'
  BY <1>3, ElsewhereStep
<1>4. ASSUME NEW r \in ChannelCallers, NEW c \in Channels,
             AskClose(r, c) \/ \E sum \in ChannelSums : AskTransact(r, c, sum)
      PROVE  ChannelInv'
  BY <1>4, AskStep
<1>5. ASSUME NEW r \in ChannelCallers, ServeChannel(r)
      PROVE  ChannelInv'
  BY <1>5, LockRowStep, RecordTransferStep, SignSettlementStep,
     SubmitSettlementStep, HearSuccessStep, HearFailureStep, RecordClosedStep,
     RollBackStep DEF ServeChannel
<1>6. ASSUME NEW x \in network, LandSettlement(x)
      PROVE  ChannelInv'
  BY <1>6, LandStep
<1>7. CASE SwitchDefault \/ SendForeign
  BY <1>7, ElsewhereStep
<1>8. QED
  BY <1>1, <1>2, <1>3, <1>4, <1>5, <1>6, <1>7 DEF ChannelsNext

\* The three facts in one: the invariant says what the property says.
LEMMA ChannelInvIsSound == ChannelInv => ChannelsSound
<1> SUFFICES ASSUME ChannelInv PROVE ChannelsSound
  OBVIOUS
<1>1. ChannelBalanced
  BY DEF ChannelInv, ChannelBalanced, RowSound
<1>2. ASSUME NEW c \in Channels \ unanswered, NEW x \in settlements,
             NEW y \in settlements, x.channel = c, y.channel = c
      PROVE  x = y
  <2>1. ASSUME NEW z \in settlements, z.channel = c,
               NEW r \in ChannelCallers, Awaits(r, z)
        PROVE  Holds(r, c) /\ channels[c].status = "open" /\ z = channelCalls[r].tx
    <3>1. /\ channelCalls[r].at \in Holding /\ channelCalls[r].at # "locked"
          /\ channelCalls[r].tx = z
      BY <2>1 DEF Awaits, Holding
    <3>2. channelCalls[r].channel = c /\ channels[c].status = "open"
      BY <2>1, <3>1 DEF ChannelInv, HolderSound
    <3>3. QED
      BY <3>1, <3>2 DEF Holds
  <2>2. Followed(x) /\ Followed(y)
    BY DEF ChannelInv
  <2>3. CASE channels[c].status = "closed"
    BY <1>2, <2>1, <2>2, <2>3 DEF Followed
  <2>4. CASE channels[c].status # "closed"
    <3>1. PICK r \in ChannelCallers : Awaits(r, x)
      BY <1>2, <2>2, <2>4 DEF Followed
    <3>2. PICK q \in ChannelCallers : Awaits(q, y)
      BY <1>2, <2>2, <2>4 DEF Followed
    <3>3. Holds(r, c) /\ Holds(q, c) /\ x = channelCalls[r].tx /\ y = channelCalls[q].tx
      BY <1>2, <2>1, <3>1, <3>2
    <3>4. QED
      BY <3>3 DEF ChannelInv, LockExclusive
  <2>5. QED
    BY <2>3, <2>4
<1>3. SettledOnce
  BY <1>2 DEF SettledOnce
<1>4. QED
  BY <1>1, <1>3 DEF ChannelInv, ChannelsSound

\* Whatever transact and closeChannel requests meet, and whatever becomes of
\* what they submit, a channel's balances add up, a closed channel was paid what
\* its row says, and a channel whose closes were all answered is paid once.
THEOREM ChannelsAlwaysSound == ChannelsSpec => []ChannelsSound
  BY ChannelsInitially, ChannelsStep, ChannelInvIsSound, PTL DEF ChannelsSpec

-----------------------------------------------------------------------------
(* An agent-escrow keeps the promise of EscrowPromise, too.                *)
(*                                                                         *)
(* Under the invariant, with RestsWhole, what an escrow holds and what has *)
(* left it follow from its record alone, so that it is enough to know what *)
(* a step does to the records (RecordsMove).                               *)

PhaseOf(p) ==
    IF p.status = "None" THEN "unborn" ELSE IF p.status = "Pending" THEN "held" ELSE "closed"

\* What has left an escrow.  Insurance is paid out of fees, not out of it.
Given(l) == l.toAgents + l.toFees + l.toSender

AgentPromise == INSTANCE EscrowPromise WITH
    Promised <- PayoutIds,
    phase <- [e \in PayoutIds |-> PhaseOf(payouts[e])],
    kept <- [e \in PayoutIds |-> HeldFor(payouts[e])],
    paidOut <- [e \in PayoutIds |-> Given(ledger[e])]

AgentPromiseKept == AgentPromise!PromiseSpec

\* There is a rest to pay exactly while the escrow is pending.
RestDue(p) ==
    /\ p.status = "None" => p.amount = 0
    /\ p.status = "Pending" => p.released < p.amount
    /\ p.status = "Completed" => p.released = p.amount

RestsWhole == \A e \in PayoutIds : RestDue(payouts[e])

\* What the promise sees of an escrow, by its record.
LEMMA RecordTells ==
    ASSUME NEW p, NEW l, SoundPayout(p, l), RestDue(p)
    PROVE  /\ p.amount \in Nat /\ HeldFor(p) \in Nat
           /\ Given(l) = p.amount - HeldFor(p)
           /\ HeldFor(p) > 0 <=> p.status = "Pending"
<1>1. /\ p.amount \in Nat /\ p.released \in Nat /\ p.released <= p.amount
      /\ p.status \in {"None", "Pending", "Completed", "Cancelled"}
  <2>1. p \in PayoutRecord
    BY DEF SoundPayout
  <2>2. p.status \in PayoutStatuses
    BY <2>1, PayoutShape, SMTT(30)
  <2>3. QED
    BY <2>1, <2>2, PayoutFields DEF SoundPayout, PayoutStatuses
<1>2. /\ l.toAgents \in Nat /\ l.toFees \in Nat /\ l.toSender \in Nat
      /\ l.toAgents + l.toFees = p.released
      /\ p.status = "Cancelled" => l.toSender = p.amount - p.released
      /\ p.status # "Cancelled" => l.toSender = 0
  BY LedgerFields DEF SoundPayout
<1>3. QED
  BY <1>1, <1>2 DEF RestDue, HeldFor, Given

\* An escrow that is created, and one that is paid, refunded or changed.
Born(p, r) == p.status = "None" /\ r.status = "Pending" /\ r.released = 0 /\ r.amount > 0

Advanced(p, r) ==
    /\ p.status = "Pending" /\ r.amount = p.amount
    /\ \/ r.status = "Pending" /\ r.released >= p.released /\ r.released < r.amount
       \/ r.status = "Completed" /\ r.released = r.amount
       \/ r.status = "Cancelled"

RecordsMove ==
    \/ payouts' = payouts
    \/ \E e \in PayoutIds :
          /\ Born(payouts[e], payouts'[e]) \/ Advanced(payouts[e], payouts'[e])
          /\ \A f \in PayoutIds \ {e} : payouts'[f] = payouts[f]

\* Storing one escrow moves the records so, if it advances that escrow.
LEMMA WriteMoves ==
    ASSUME AgentInv, NEW e \in PayoutIds, NEW r, NEW l, Write(e, r, l),
           Advanced(payouts[e], r)
    PROVE  RecordsMove
<1>1. payouts \in [PayoutIds -> PayoutRecord]
  BY DEF AgentInv, AgentFundsCovered, AgentTypeOK
<1>2. payouts'[e] = r /\ \A f \in PayoutIds \ {e} : payouts'[f] = payouts[f]
  BY <1>1 DEF Write
<1>3. QED
  BY <1>2 DEF RecordsMove

\* A payment to the agent advances the escrow, and completes it with the rest.
LEMMA PayOutMoves ==
    ASSUME AgentInv, NEW e \in PayoutIds, PayoutPending(e),
           NEW sum \in Nat, sum <= Remaining(e), NEW status,
           status = (IF sum = Remaining(e) THEN "Completed" ELSE "Pending"),
           PayOut(e, sum, status)
    PROVE  RecordsMove
<1> DEFINE p == payouts[e]
           n == p.released + sum
           r == [p EXCEPT !.released = n, !.status = status]
<1>1. p \in PayoutRecord /\ p.amount \in Nat /\ p.released \in Nat
  BY InvFacts, PayoutFields
<1>2. PICK l : Write(e, [p EXCEPT !.released = @ + sum, !.status = status], l)
  BY DEF PayOut
<1>3. r = [p EXCEPT !.released = @ + sum, !.status = status]
  OBVIOUS
<1>4. /\ p.status = "Pending" /\ sum <= p.amount - p.released
      /\ \/ status = "Completed" /\ sum = p.amount - p.released
         \/ status = "Pending" /\ sum # p.amount - p.released
  BY DEF PayoutPending, Remaining
<1> HIDE DEF r, p, n
<1>5. r.status = status /\ r.released = n /\ r.amount = p.amount
  <2>1. r = [p EXCEPT !.released = n, !.status = status]
    BY DEF r
  <2>2. QED
    BY <1>1, <2>1, PayoutShape, SMTT(30)
<1>6. Advanced(p, r)
  <2>1. /\ n \in Nat /\ n >= p.released
        /\ status = "Completed" => n = p.amount
        /\ status = "Pending" => n < p.amount
    BY <1>1, <1>4 DEF n
  <2>2. QED
    BY <1>4, <1>5, <2>1 DEF Advanced
<1>7. QED
  BY <1>2, <1>3, <1>6, WriteMoves DEF p

\* A refund ends the escrow, which is still pending when it is called.
LEMMA RefundMoves ==
    ASSUME AgentInv, NEW e \in PayoutIds, PayoutPending(e), Refund(e)
    PROVE  RecordsMove
<1> DEFINE p == payouts[e]
           r == [p EXCEPT !.status = "Cancelled"]
<1>1. p \in PayoutRecord /\ p.status = "Pending"
  BY InvFacts DEF PayoutPending
<1>2. PICK l : Write(e, r, l)
  BY DEF Refund
<1> HIDE DEF p
<1>3. r.status = "Cancelled" /\ r.amount = p.amount
  BY <1>1, PayoutShape, SMTT(30)
<1> HIDE DEF r
<1>4. QED
  BY <1>1, <1>2, <1>3, WriteMoves DEF Advanced, p

\* What every entry point of the contract does to the records.
LEMMA AgentMoves ==
    ASSUME AgentInv, RestsWhole, [Direct \/ Submitted]_contractVars
    PROVE  RecordsMove
<1>1. payouts \in [PayoutIds -> PayoutRecord] /\ created \in Nat
  BY DEF AgentInv, AgentFundsCovered, AgentTypeOK
<1>2. ASSUME NEW e \in PayoutIds, PayoutPending(e), PayOut(e, Remaining(e), "Completed")
      PROVE  RecordsMove
  BY <1>2, RemainingNat, PayOutMoves
<1>3. ASSUME NEW e \in PayoutIds, NEW a, NEW sum \in PartSums, PartialConfirm(a, e, sum)
      PROVE  RecordsMove
  <2>1. sum \in Nat
    BY <1>3, AgentEscrowConstants DEF PartialConfirm
  <2>2. QED
    BY <1>3, <2>1, PayOutMoves DEF PartialConfirm
<1>4. ASSUME NEW e \in PayoutIds, NEW r, NEW l, Write(e, r, l), PayoutPending(e),
             r.status = payouts[e].status, r.amount = payouts[e].amount,
             r.released = payouts[e].released
      PROVE  RecordsMove
  <2>1. payouts[e].released < payouts[e].amount /\ payouts[e].released \in Nat
    BY <1>4, InvFacts, PayoutFields DEF RestsWhole, RestDue, PayoutPending
  <2>2. Advanced(payouts[e], r)
    BY <1>4, <2>1 DEF Advanced, PayoutPending
  <2>3. QED
    BY <1>4, <2>2, WriteMoves
<1>5. ASSUME NEW e \in PayoutIds, NEW a \in PayoutAgents, Reassign(e, a) PROVE RecordsMove
  <2>1. PayoutPending(e) /\ Write(e, [payouts[e] EXCEPT !.agent = a], ledger[e])
    BY <1>5 DEF Reassign
  <2>2. payouts[e] \in PayoutRecord
    BY InvFacts
  <2>3. PICK r : r = [payouts[e] EXCEPT !.agent = a]
    OBVIOUS
  <2>4. r.status = payouts[e].status /\ r.amount = payouts[e].amount
        /\ r.released = payouts[e].released
    BY <2>2, <2>3, ReassignedRecord
  <2>5. QED
    BY <1>4, <2>1, <2>3, <2>4
<1>6. ASSUME NEW e \in PayoutIds, PassExpiry(e) PROVE RecordsMove
  <2>1. PayoutPending(e) /\ Write(e, [payouts[e] EXCEPT !.expired = TRUE], ledger[e])
    BY <1>6 DEF PassExpiry
  <2>2. payouts[e] \in PayoutRecord
    BY InvFacts
  <2>3. PICK r : r = [payouts[e] EXCEPT !.expired = TRUE]
    OBVIOUS
  <2>4. r.status = payouts[e].status /\ r.amount = payouts[e].amount
        /\ r.released = payouts[e].released
    BY <2>2, <2>3, ExpiredRecord
  <2>5. QED
    BY <1>4, <2>1, <2>3, <2>4
<1>7. ASSUME NEW e \in PayoutIds, InsurancePayout(e) PROVE payouts' = payouts
  BY <1>1, <1>7 DEF InsurancePayout, Write
<1>8. ASSUME NEW a, NEW sum \in PayoutSums, NEW bps, CreatePayout(a, sum, bps)
      PROVE  RecordsMove
  <2>1. created + 1 \in PayoutIds /\ sum > 0
    BY <1>1, <1>8, AgentEscrowConstants DEF CreatePayout, PayoutIds
  <2>2. payouts[created + 1].status = "None"
    BY <1>1, <2>1 DEF AgentInv, UnusedPayouts, NoPayout
  <2>3. /\ payouts'[created + 1].status = "Pending" /\ payouts'[created + 1].released = 0
        /\ payouts'[created + 1].amount = sum
        /\ \A f \in PayoutIds \ {created + 1} : payouts'[f] = payouts[f]
    BY <1>1, <1>8, <2>1 DEF CreatePayout
  <2>4. QED
    BY <2>1, <2>2, <2>3 DEF RecordsMove, Born
<1>9. ASSUME NEW e \in PayoutIds, NEW toAgent, AdminRelease(e, toAgent) PROVE RecordsMove
  BY <1>2, <1>9, RefundMoves DEF AdminRelease
<1>10. ASSUME NEW e \in PayoutIds, NEW a, ConfirmPayout(a, e) PROVE RecordsMove
  BY <1>2, <1>10 DEF ConfirmPayout
<1>11. ASSUME NEW e \in PayoutIds, CancelPayout(e) PROVE RecordsMove
  BY <1>11, RefundMoves DEF CancelPayout
<1>12. ASSUME payouts' = payouts PROVE RecordsMove
  BY <1>12 DEF RecordsMove
<1>13. CASE Direct
  BY <1>3, <1>5, <1>6, <1>7, <1>9, <1>12, <1>13
     DEF Direct, WithdrawAgentFees, RegisterAgent, RemoveAgent, SetAgents, SetInsuranceShare
<1>14. CASE Submitted
  BY <1>8, <1>10, <1>11, <1>14 DEF Submitted
<1>15. QED
  BY <1>12, <1>13, <1>14 DEF contractVars

\* Creating and advancing an escrow leave a rest exactly while it is pending.
LEMMA RestsStayWhole == ASSUME RestsWhole, RecordsMove PROVE RestsWhole'
<1>1. ASSUME NEW p, NEW r, Born(p, r) \/ Advanced(p, r) PROVE RestDue(r)
  BY <1>1 DEF Born, Advanced, RestDue
<1>2. QED
  BY <1>1 DEF RestsWhole, RecordsMove


\* RestsWhole is an invariant of the contract.
LEMMA RestInvariant == AgentSpec => []RestsWhole
<1>1. AgentInit => RestsWhole
  BY DEF AgentInit, RestsWhole, RestDue, NoPayout
<1>2. AgentInv /\ RestsWhole /\ [Direct \/ Submitted]_contractVars => RestsWhole'
  BY AgentMoves, RestsStayWhole
<1>3. QED
  BY <1>1, <1>2, AgentInvariant, PTL DEF AgentSpec

\* A step of the records is a step of the promise: the creation funds an escrow,
\* a payment or a refund pays out, anything else is not seen.
LEMMA MoveIsPromised ==
    ASSUME AgentInv, AgentInv', RestsWhole, RestsWhole', RecordsMove
    PROVE  [AgentPromise!PromiseNext]_(AgentPromise!promiseVars)
<1> DEFINE phase == [e \in PayoutIds |-> PhaseOf(payouts[e])]
           kept == [e \in PayoutIds |-> HeldFor(payouts[e])]
           paid == [e \in PayoutIds |-> Given(ledger[e])]
           Same(e) == phase'[e] = phase[e] /\ kept'[e] = kept[e] /\ paid'[e] = paid[e]
<1>1. ASSUME NEW e \in PayoutIds
      PROVE  /\ phase[e] = PhaseOf(payouts[e]) /\ phase'[e] = PhaseOf(payouts'[e])
             /\ kept[e] = HeldFor(payouts[e]) /\ kept'[e] = HeldFor(payouts'[e])
             /\ paid[e] = payouts[e].amount - kept[e]
             /\ paid'[e] = payouts'[e].amount - kept'[e]
             /\ kept[e] \in Nat /\ kept'[e] \in Nat
             /\ payouts[e].amount \in Nat /\ payouts'[e].amount \in Nat
             /\ kept[e] > 0 <=> payouts[e].status = "Pending"
             /\ kept'[e] > 0 <=> payouts'[e].status = "Pending"
  <2>1. /\ SoundPayout(payouts[e], ledger[e]) /\ RestDue(payouts[e])
        /\ SoundPayout(payouts'[e], ledger'[e]) /\ RestDue(payouts'[e])
    BY DEF AgentInv, AllSound, RestsWhole
  <2>2. QED
    BY <2>1, RecordTells
<1>2. /\ phase' = [x \in PayoutIds |-> phase'[x]] /\ phase = [x \in PayoutIds |-> phase[x]]
      /\ kept' = [x \in PayoutIds |-> kept'[x]] /\ kept = [x \in PayoutIds |-> kept[x]]
      /\ paid' = [x \in PayoutIds |-> paid'[x]] /\ paid = [x \in PayoutIds |-> paid[x]]
  OBVIOUS
<1>3. \A e \in PayoutIds :
          AgentPromise!PayOut(e) <=>
              /\ phase[e] = "held"
              /\ kept'[e] \in 0..(kept[e] - 1)
              /\ paid' = [paid EXCEPT ![e] = @ + (kept[e] - kept'[e])]
              /\ phase' = [phase EXCEPT ![e] = IF kept'[e] = 0 THEN "closed" ELSE "held"]
              /\ \A f \in PayoutIds \ {e} : kept'[f] = kept[f]
  BY DEF AgentPromise!PayOut
<1>4. \A fresh \in SUBSET PayoutIds :
          AgentPromise!Fund(fresh) <=>
              /\ fresh # {}
              /\ \A e \in fresh : phase[e] = "unborn"
              /\ phase' = [e \in PayoutIds |-> IF e \in fresh THEN "held" ELSE phase[e]]
              /\ \A e \in fresh : kept'[e] > 0
              /\ \A e \in PayoutIds \ fresh : kept'[e] = kept[e]
              /\ paid' = paid
  BY DEF AgentPromise!Fund
<1>5. phase' = phase /\ kept' = kept /\ paid' = paid
      => UNCHANGED AgentPromise!promiseVars
  BY DEF AgentPromise!promiseVars
<1> HIDE DEF phase, kept, paid
<1>6. ASSUME NEW e \in PayoutIds, payouts'[e] = payouts[e] PROVE Same(e)
  BY <1>1, <1>6
<1>7. ASSUME \A e \in PayoutIds : Same(e) PROVE UNCHANGED AgentPromise!promiseVars
  BY <1>2, <1>5, <1>7
<1>8. CASE payouts' = payouts
  BY <1>6, <1>7, <1>8
<1>9. ASSUME NEW e \in PayoutIds, Born(payouts[e], payouts'[e]),
             \A f \in PayoutIds \ {e} : payouts'[f] = payouts[f]
      PROVE  AgentPromise!Fund({e})
  <2>1. \A f \in PayoutIds \ {e} : Same(f)
    BY <1>6, <1>9
  <2>2. phase[e] = "unborn" /\ phase'[e] = "held" /\ kept'[e] > 0
    BY <1>1, <1>9 DEF Born, PhaseOf
  <2>3. paid'[e] = paid[e]
    <3>1. payouts[e].amount = 0 /\ kept[e] = 0
      BY <1>1, <1>9 DEF Born, RestsWhole, RestDue
    <3>2. kept'[e] = payouts'[e].amount
      BY <1>1, <1>9 DEF Born, HeldFor
    <3>3. QED
      BY <1>1, <3>1, <3>2
  <2>4. paid' = paid
    BY <1>2, <2>1, <2>3
  <2>5. phase' = [f \in PayoutIds |-> IF f \in {e} THEN "held" ELSE phase[f]]
    BY <1>2, <2>1, <2>2
  <2>6. QED
    BY <1>4, <2>1, <2>2, <2>4, <2>5
<1>10. ASSUME NEW e \in PayoutIds, Advanced(payouts[e], payouts'[e]),
              \A f \in PayoutIds \ {e} : payouts'[f] = payouts[f]
       PROVE  AgentPromise!PayOut(e) \/ UNCHANGED AgentPromise!promiseVars
  <2>1. \A f \in PayoutIds \ {e} : Same(f)
    BY <1>6, <1>10
  <2>2. /\ phase[e] = "held" /\ payouts'[e].amount = payouts[e].amount
        /\ phase'[e] = IF kept'[e] = 0 THEN "closed" ELSE "held"
    BY <1>1, <1>10 DEF Advanced, PhaseOf
  <2>3. kept'[e] <= kept[e]
    <3>1. payouts[e] \in PayoutRecord /\ payouts'[e] \in PayoutRecord
      BY DEF AgentInv, AllSound, SoundPayout
    <3>2. payouts[e].released \in Nat /\ payouts'[e].released \in Nat
      BY <3>1, PayoutFields
    <3>3. CASE payouts'[e].status = "Pending"
      BY <1>1, <1>10, <2>2, <3>2, <3>3 DEF Advanced, HeldFor
    <3>4. CASE payouts'[e].status # "Pending"
      BY <1>1, <3>4
    <3>5. QED
      BY <3>3, <3>4
  <2>4. CASE kept'[e] = kept[e]
    <3>1. Same(e)
      BY <1>1, <1>10, <2>2, <2>4 DEF Advanced
    <3>2. QED
      BY <1>7, <2>1, <3>1
  <2>5. CASE kept'[e] < kept[e]
    <3>1. kept'[e] \in 0..(kept[e] - 1)
      BY <1>1, <2>5
    <3>2. paid'[e] = paid[e] + (kept[e] - kept'[e])
      BY <1>1, <2>2
    <3>3. paid' = [paid EXCEPT ![e] = @ + (kept[e] - kept'[e])]
      BY <1>2, <2>1, <3>2
    <3>4. phase' = [phase EXCEPT ![e] = IF kept'[e] = 0 THEN "closed" ELSE "held"]
      BY <1>2, <2>1, <2>2
    <3>5. QED
      BY <1>3, <2>1, <2>2, <3>1, <3>3, <3>4
  <2>6. QED
    BY <1>1, <2>3, <2>4, <2>5
<1>11. QED
  BY <1>8, <1>9, <1>10 DEF RecordsMove, AgentPromise!PromiseNext

\* The agent-escrow contract implements the same promise as the escrow contract
\* with its court: through confirmations in parts, cancellations, the admin's
\* release and reassignment of an escrow, it pays out exactly what was paid in,
\* once, and is closed exactly when nothing is left.
THEOREM TheAgentPromiseIsKept == AgentSpec => AgentPromiseKept
<1>1. AgentInit => AgentPromise!PromiseInit
  BY DEF AgentInit, AgentPromise!PromiseInit, PhaseOf, HeldFor, Given, NoPayout, NoLedger
<1>2. /\ AgentInv /\ AgentInv' /\ RestsWhole /\ RestsWhole' /\ [Direct \/ Submitted]_contractVars
      => [AgentPromise!PromiseNext]_(AgentPromise!promiseVars)
  BY AgentMoves, MoveIsPromised
<1>3. QED
  BY <1>1, <1>2, AgentInvariant, RestInvariant, PTL
     DEF AgentSpec, AgentPromiseKept, AgentPromise!PromiseSpec

=============================================================================
