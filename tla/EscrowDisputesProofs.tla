------------------------ MODULE EscrowDisputesProofs ------------------------
(***************************************************************************)
(* What holds of the escrow contract and the dispute contract together.    *)
(* The invariant relates the two contracts' records: a running dispute and *)
(* its escrow name each other and agree on the parties and the money.      *)
(* Every joint step is taken apart into what it does to the escrow's side, *)
(* where EscrowProofs says what is preserved, and to the court's, where    *)
(* DisputeProofs does; the steps of one contract alone are shown to be     *)
(* quiet for the other.  The last part maps every step to a step of the    *)
(* promise, or to none.                                                    *)
(***************************************************************************)
EXTENDS EscrowDisputes, EscrowProofs

DP == INSTANCE DisputeProofs

-----------------------------------------------------------------------------
(* The dispute contract's theorems are about its own instance, DP.  The    *)
(* operations of that instance and of the one the model uses, D, have the  *)
(* same definitions: what one does, the other does.                        *)

\* The assumptions the instanced lemmas rest on.
LEMMA CourtFacts == DP!DisputeConstants /\ DP!MaxTimeAssumption
<1>1. D!DisputeConstants
  BY CourtAssumption
<1>2. /\ Nobody \notin Accounts \cup Officials
      /\ {Admin, Arbitrator, SuperArbitrator} \subseteq Officials
  BY <1>1 DEF D!DisputeConstants
<1>3. DP!IsFiniteSet(Officials)
  BY <1>1 DEF D!DisputeConstants, D!IsFiniteSet, DP!IsFiniteSet
<1>4. /\ MaxDisputes \in Nat \ {0} /\ MaxArbitrators \in Nat
      /\ DeadlineSecs \in Nat /\ AppealSecs \in Nat \ {0}
      /\ DefaultQuorumBps \in 1..10000
      /\ DefaultFilingFee \in Nat /\ MaxFilingFee \in Nat
  BY <1>1 DEF D!DisputeConstants
<1>5. Claims \subseteq DP!Claim /\ Backings \subseteq DP!Backing
  BY <1>1 DEF D!DisputeConstants, D!Claim, DP!Claim, D!Backing, DP!Backing
<1>6. Witnesses \subseteq Accounts /\ FilingFees \subseteq Int /\ Quorums \subseteq Nat
  BY <1>1 DEF D!DisputeConstants
<1>7. DP!MaxTimeAssumption
  BY MaxTimeAssumption DEF MaxTimeAssumption, DP!MaxTimeAssumption
<1>8. QED
  BY ONLY <1>2, <1>3, <1>4, <1>5, <1>6, <1>7 DEF DP!DisputeConstants

LEMMA SameFinalize == ASSUME NEW d, D!FinalizeResolution(d) PROVE DP!FinalizeResolution(d)
BY DEF D!FinalizeResolution, DP!FinalizeResolution, D!Award, DP!Award, D!Pay, DP!Pay,
       D!PendingRuling, DP!PendingRuling, D!Payee, DP!Payee, D!SettledAs, DP!SettledAs,
       D!Charged, DP!Charged

LEMMA SameClaim == ASSUME NEW a, NEW d, D!ClaimExpired(a, d) PROVE DP!ClaimExpired(a, d)
BY DEF D!ClaimExpired, DP!ClaimExpired, D!Claimant, DP!Claimant, D!IsOpen, DP!IsOpen,
       D!Pay, DP!Pay, D!Charged, DP!Charged

LEMMA SameAppealRuling ==
    ASSUME NEW j, NEW d, NEW ruling, D!ResolveAppeal(j, d, ruling)
    PROVE  DP!ResolveAppeal(j, d, ruling)
BY DEF D!ResolveAppeal, DP!ResolveAppeal, D!MayRule, DP!MayRule, D!RecordRuling, DP!RecordRuling,
       D!Award, DP!Award, D!Pay, DP!Pay, D!Payee, DP!Payee, D!SettledAs, DP!SettledAs,
       D!Charged, DP!Charged

LEMMA SameAward ==
    ASSUME NEW d, NEW record, NEW ruling, D!Award(d, record, ruling)
    PROVE  DP!Award(d, record, ruling)
BY DEF D!Award, DP!Award, D!Pay, DP!Pay, D!Payee, DP!Payee, D!SettledAs, DP!SettledAs,
       D!Charged, DP!Charged

LEMMA SameVote ==
    ASSUME NEW j, NEW d, NEW side, D!CastVote(j, d, side)
    PROVE  DP!CastVote(j, d, side)
<1>1. \A S : D!Cardinality(S) = DP!Cardinality(S)
  BY DEF D!Cardinality, DP!Cardinality
<1>2. \A cast, s : D!ReachesQuorum(D!Tally(cast, d, s)) <=> DP!ReachesQuorum(DP!Tally(cast, d, s))
  BY <1>1 DEF D!ReachesQuorum, DP!ReachesQuorum, D!Tally, DP!Tally
<1>3. D!IsOpen(d) <=> DP!IsOpen(d)
  BY DEF D!IsOpen, DP!IsOpen
<1>4. QED
  BY <1>2, <1>3, SameAward DEF D!CastVote, DP!CastVote

LEMMA SameDecide ==
    ASSUME NEW d, D!Decide(d) PROVE DP!Decide(d)
BY SameFinalize, SameClaim, SameAppealRuling, SameVote
   DEF D!Decide, DP!Decide, D!Rulings, DP!Rulings

LEMMA SameArgue ==
    ASSUME NEW d, D!Argue(d) PROVE DP!Argue(d)
<1>1. \A a : D!SubmitEvidence(a, d) => DP!SubmitEvidence(a, d)
  BY DEF D!SubmitEvidence, DP!SubmitEvidence, D!IsOpen, DP!IsOpen, D!Parties, DP!Parties
<1>2. \A a : D!Appeal(a, d) => DP!Appeal(a, d)
  BY DEF D!Appeal, DP!Appeal, D!Parties, DP!Parties
<1>3. \A j, ruling : D!ResolveDispute(j, d, ruling) => DP!ResolveDispute(j, d, ruling)
  BY DEF D!ResolveDispute, DP!ResolveDispute, D!IsOpen, DP!IsOpen, D!MayRule, DP!MayRule,
         D!RecordRuling, DP!RecordRuling
<1>4. QED
  BY <1>1, <1>2, <1>3 DEF D!Argue, DP!Argue, D!Rulings, DP!Rulings

LEMMA SameManage == D!Manage => DP!Manage
<1>1. \A field, value : D!Appoint(field, value) => DP!Appoint(field, value)
  BY DEF D!Appoint, DP!Appoint
<1>2. \A j : /\ D!AddArbitrator(j) => DP!AddArbitrator(j)
             /\ D!RemoveArbitrator(j) => DP!RemoveArbitrator(j)
             /\ D!ProposeNewArbitrator(j) => DP!ProposeNewArbitrator(j)
             /\ D!AcceptArbitrator(j) => DP!AcceptArbitrator(j)
             /\ D!SetSuperArbitrator(j) => DP!SetSuperArbitrator(j)
             /\ D!SetFeeDistributorAddress(j) => DP!SetFeeDistributorAddress(j)
  BY <1>1, SMTT(30) DEF D!AddArbitrator, DP!AddArbitrator, D!RemoveArbitrator, DP!RemoveArbitrator,
              D!ProposeNewArbitrator, DP!ProposeNewArbitrator, D!AcceptArbitrator,
              DP!AcceptArbitrator, D!SetSuperArbitrator, DP!SetSuperArbitrator,
              D!SetFeeDistributorAddress, DP!SetFeeDistributorAddress,
              D!Cardinality, DP!Cardinality
<1>3. /\ \A bps : D!SetQuorumBps(bps) => DP!SetQuorumBps(bps)
      /\ \A fee : D!UpdateFilingFee(fee) => DP!UpdateFilingFee(fee)
  BY <1>1 DEF D!SetQuorumBps, DP!SetQuorumBps, D!UpdateFilingFee, DP!UpdateFilingFee
<1>4. /\ D!SetEscrowContract => DP!SetEscrowContract
      /\ D!Pause => DP!Pause
      /\ D!Unpause => DP!Unpause
  BY <1>1, Zenon DEF D!SetEscrowContract, DP!SetEscrowContract, D!Pause, DP!Pause,
              D!Unpause, DP!Unpause
<1>5. SUFFICES ASSUME D!Manage PROVE DP!Manage
  OBVIOUS
<1>6. CASE \E j \in Officials :
             \/ D!AddArbitrator(j) \/ D!RemoveArbitrator(j)
             \/ D!ProposeNewArbitrator(j) \/ D!AcceptArbitrator(j)
             \/ D!SetSuperArbitrator(j) \/ D!SetFeeDistributorAddress(j)
  BY <1>2, <1>6, Zenon DEF DP!Manage
<1>7. CASE \/ \E bps \in Quorums : D!SetQuorumBps(bps)
           \/ \E fee \in FilingFees : D!UpdateFilingFee(fee)
           \/ D!SetEscrowContract \/ D!Pause \/ D!Unpause
  BY <1>3, <1>4, <1>7, Zenon DEF DP!Manage
<1>8. QED
  BY <1>5, <1>6, <1>7, Zenon DEF D!Manage

LEMMA SameRegister ==
    ASSUME NEW opener, NEW agent, NEW confirmed, NEW escrow, NEW p,
           D!Register(opener, agent, confirmed, escrow, p)
    PROVE  DP!Register(opener, agent, confirmed, escrow, p)
BY DEF D!Register, DP!Register, D!Charged, DP!Charged

LEMMA SameFunded == DP!DisputesFunded => D!DisputesFunded
<1>1. DP!DisputeTypeOK => D!DisputeTypeOK
  <2>1. /\ D!DisputeIds = DP!DisputeIds /\ D!Someone = DP!Someone
        /\ D!Settlements = DP!Settlements /\ D!BenchRecord = DP!BenchRecord
    BY DEF D!DisputeIds, DP!DisputeIds, D!Someone, DP!Someone, D!Settlements, DP!Settlements,
           D!BenchRecord, DP!BenchRecord
  <2>2. D!Statuses = DP!Statuses /\ D!OutcomeRecord = DP!OutcomeRecord
    BY <2>1 DEF D!Statuses, DP!Statuses, D!OutcomeRecord, DP!OutcomeRecord
  <2>3. D!DisputeRecord = DP!DisputeRecord /\ D!ClockTypeOK = DP!ClockTypeOK
    BY <2>1, <2>2 DEF D!DisputeRecord, DP!DisputeRecord, D!ClockTypeOK, DP!ClockTypeOK
  <2>4. QED
    BY <2>1, <2>2, <2>3, Zenon DEF D!DisputeTypeOK, DP!DisputeTypeOK
<1>2. D!InCustody = DP!InCustody
  BY DEF D!InCustody, DP!InCustody, D!DisputeIds, DP!DisputeIds, D!Unsettled, DP!Unsettled,
         D!Stake, DP!Stake, D!Charged, DP!Charged
<1>3. \A f, n : D!Total(f, n) = DP!Total(f, n)
  BY Zenon DEF D!Total, DP!Total
<1>4. QED
  BY <1>1, <1>2, <1>3 DEF D!DisputesFunded, DP!DisputesFunded

LEMMA SameInit == D!DisputeInit => DP!DisputeInit
BY DEF D!DisputeInit, DP!DisputeInit, D!ClockInit, DP!ClockInit, D!DisputeIds, DP!DisputeIds,
       D!NoDispute, DP!NoDispute, D!Undecided, DP!Undecided

-----------------------------------------------------------------------------
(* The invariant.                                                          *)

\* A dispute over an escrow, and that escrow.  While it runs the two records
\* agree; afterwards the escrow may be archived, so only what an expiry owes
\* the agent is remembered.  A disputed escrow never becomes pending again.
Backed(d) ==
    LET e == disputes[d].escrow
    IN  e # 0 =>
          /\ e \in 1..counter /\ escrows[e].status # "Pending"
          /\ disputes[d].agent # Nobody
          /\ D!Unsettled(d) =>
                /\ InCourt(e) /\ link[e].id = d
                /\ disputes[d].amount = escrows[e].amount /\ disputes[d].amount > 0
                /\ disputes[d].sender = escrows[e].sender
                /\ disputes[d].recipient = escrows[e].recipient
                /\ disputes[d].agent = escrows[e].agent
                /\ disputes[d].confirmed = escrows[e].confirmed
          /\ disputes[d].status = "Expired" /\ escrows[e].confirmed
                => outcome[d].winner = escrows[e].agent

\* A dispute key that names this court points at a dispute over its escrow,
\* which the escrow has survived with the court's outcome.
Linked(e) ==
    LET d == link[e].id
    IN  link[e].contract = Court =>
          /\ d \in 1..opened /\ disputes[d].escrow = e
          /\ InCourt(e) => D!Unsettled(d)
          /\ ~InCourt(e) =>
                /\ escrows[e].status \in {"Released", "Cancelled"}
                /\ winner[e] = outcome[d].winner
                /\ escrows[e].status = "Cancelled" <=> winner[e] = escrows[e].sender

Parties(r) == {r.sender, r.recipient, r.agent}

\* What dispute_escrow passes on are three accounts.
Named(e) == escrows[e].status = "Pending" => Parties(escrows[e]) \subseteq Accounts

SystemInv ==
    /\ EscrowInv
    /\ DP!DisputeInv
    /\ \A e \in Ids : Named(e)
    /\ \A d \in D!DisputeIds : Backed(d)
    /\ \A e \in Ids : Linked(e)

-----------------------------------------------------------------------------
(* What an escrow step that is not the court's does to an escrow.          *)

Untouched(e) == escrows'[e] = escrows[e] /\ link'[e] = link[e] /\ winner'[e] = winner[e]

Archived(e) ==
    /\ escrows[e].status \in {"Released", "Cancelled"}
    /\ escrows'[e] = NoEscrow /\ link'[e] = NoLink

ClosedElsewhere(e) ==
    /\ escrows[e].status = "UnderDispute" /\ link[e].contract # Court
    /\ link'[e] = link[e] /\ escrows'[e].status \in {"Released", "Cancelled"}
    /\ escrows'[e].confirmed = escrows[e].confirmed /\ escrows'[e].agent = escrows[e].agent

\* A new or pending escrow may change in any way but two.
Moved(e) ==
    /\ e > counter \/ escrows[e].status = "Pending"
    /\ link'[e] = link[e] \/ link'[e].contract # Court
    /\ escrows'[e].status = "Pending" =>
          \/ Parties(escrows'[e]) \subseteq Accounts
          \/ escrows[e].status = "Pending" /\ Parties(escrows'[e]) = Parties(escrows[e])

Calm(e) == Untouched(e) \/ Archived(e) \/ ClosedElsewhere(e) \/ Moved(e)

LEMMA NewIsNamed ==
    ASSUME NEW s \in Accounts, NEW p \in Offers
    PROVE  Parties(NewEscrow(s, p)) \subseteq Accounts
<1>1. p.recipient \in Accounts /\ p.agent \in Accounts
  BY EscrowConstants DEF Terms
<1>2. /\ NewEscrow(s, p).sender = s /\ NewEscrow(s, p).recipient = p.recipient
      /\ NewEscrow(s, p).agent = p.agent
  BY DEF NewEscrow
<1>3. QED
  BY <1>1, <1>2 DEF Parties

LEMMA FundCalm ==
    ASSUME EscrowInv, Fund, NEW e \in Ids
    PROVE  Calm(e) /\ counter <= counter'
<1>1. counter \in Nat /\ escrows \in [Ids -> EscrowRecord]
  BY InvFacts DEF EscrowInv, EscrowTypeOK
<1>2. ASSUME NEW s \in Accounts, NEW p \in Offers, CreateEscrow(s, p)
      PROVE  Calm(e) /\ counter <= counter'
  <2>1. /\ escrows' = [escrows EXCEPT ![counter + 1] = NewEscrow(s, p)]
        /\ counter' = counter + 1 /\ link' = link /\ winner' = winner
    BY <1>2 DEF CreateEscrow, Store
  <2>2. IF e = counter + 1 THEN escrows'[e] = NewEscrow(s, p) ELSE escrows'[e] = escrows[e]
    BY <1>1, <2>1
  <2>3. QED
    BY <1>1, <2>1, <2>2, NewIsNamed DEF Calm, Untouched, Moved, Ids
<1>3. ASSUME NEW s \in Accounts, NEW n \in 1..MaxBatch, NEW ps \in [1..n -> Offers],
             BatchCreateEscrow(s, n, ps)
      PROVE  Calm(e) /\ counter <= counter'
  <2>1. /\ escrows' = [f \in Ids |-> IF f \in counter + 1 .. counter + n
                                     THEN NewEscrow(s, ps[f - counter]) ELSE escrows[f]]
        /\ counter' = counter + n /\ link' = link /\ winner' = winner
    BY <1>3 DEF BatchCreateEscrow
  <2>2. CASE e \in counter + 1 .. counter + n
    <3>1. e - counter \in 1..n /\ e > counter
      BY <1>1, <2>2 DEF Ids
    <3>2. escrows'[e] = NewEscrow(s, ps[e - counter]) /\ ps[e - counter] \in Offers
      BY <2>1, <2>2, <3>1
    <3>3. Parties(escrows'[e]) \subseteq Accounts
      BY <3>2, NewIsNamed
    <3>4. QED
      BY <1>1, <2>1, <3>1, <3>3 DEF Calm, Moved
  <2>3. CASE e \notin counter + 1 .. counter + n
    BY <1>1, <2>1, <2>3 DEF Calm, Untouched
  <2>4. QED
    BY <2>2, <2>3
<1>4. ASSUME NEW c \in Ids, NEW amount \in Amounts, Deposit(c, amount)
      PROVE  Calm(e) /\ counter <= counter'
  <2>1. /\ escrows[c].status = "Pending" /\ UNCHANGED <<counter, link, winner>>
        /\ escrows' = [escrows EXCEPT ![c] = [escrows[c] EXCEPT !.amount = @ + amount]]
    BY <1>4 DEF Deposit, Store, IsPending, KeepsSettings
  <2>2. /\ e # c => escrows'[e] = escrows[e]
        /\ Parties(escrows'[c]) = Parties(escrows[c])
    BY <1>1, <2>1 DEF Parties, EscrowRecord
  <2>3. QED
    BY <1>1, <2>1, <2>2 DEF Calm, Untouched, Moved
<1>5. QED
  BY <1>2, <1>3, <1>4 DEF Fund

LEMMA SettleCalm ==
    ASSUME EscrowInv, NEW c \in Ids, Settle(c), NEW e \in Ids
    PROVE  Calm(e) /\ counter <= counter'
<1>1. /\ counter \in Nat /\ escrows \in [Ids -> EscrowRecord] /\ escrows[c] \in EscrowRecord
      /\ link \in [Ids -> LinkRecord] /\ winner \in [Ids -> Accounts \cup {Nobody}]
  BY InvFacts DEF EscrowInv, EscrowTypeOK
<1>2. ASSUME NEW r, Store(c, r), IsPending(c), UNCHANGED <<counter, link, winner>>,
             Parties(r) = Parties(escrows[c])
      PROVE  Calm(e) /\ counter <= counter'
  BY <1>1, <1>2 DEF Store, IsPending, Calm, Untouched, Moved
<1>3. ASSUME NEW a \in Accounts, ReleaseEscrow(a, c) PROVE Calm(e) /\ counter <= counter'
  <2>1. Parties([escrows[c] EXCEPT !.status = "Released", !.updatedAt = now]) = Parties(escrows[c])
    BY <1>1 DEF Parties, EscrowRecord
  <2>2. QED
    BY <1>2, <1>3, <2>1 DEF ReleaseEscrow, KeepsSettings
<1>4. ASSUME NEW a \in Accounts, NEW amount \in Amounts, PartialRelease(a, c, amount)
      PROVE  Calm(e) /\ counter <= counter'
  <2> DEFINE r == [escrows[c] EXCEPT
                      !.amount = @ - amount,
                      !.status = IF amount = escrows[c].amount THEN "Released" ELSE @,
                      !.updatedAt = now]
  <2>1. Parties(r) = Parties(escrows[c])
    BY <1>1 DEF Parties, EscrowRecord
  <2>2. Store(c, r) /\ IsPending(c) /\ UNCHANGED <<counter, link, winner>>
    BY <1>4 DEF PartialRelease, KeepsSettings
  <2> HIDE DEF r
  <2>3. QED
    BY <1>2, <2>1, <2>2
<1>5. ASSUME NEW a \in Accounts, ConfirmDelivery(a, c) PROVE Calm(e) /\ counter <= counter'
  <2> DEFINE r == [escrows[c] EXCEPT !.confirmed = TRUE, !.updatedAt = now]
  <2>1. Parties(r) = Parties(escrows[c])
    BY <1>1 DEF Parties, EscrowRecord
  <2>2. Store(c, r) /\ IsPending(c) /\ UNCHANGED <<counter, link, winner>>
    BY <1>5 DEF ConfirmDelivery, KeepsSettings
  <2> HIDE DEF r
  <2>3. QED
    BY <1>2, <2>1, <2>2
<1>6. ASSUME NEW a \in Accounts, CancelEscrow(a, c) PROVE Calm(e) /\ counter <= counter'
  <2>1. Parties([escrows[c] EXCEPT !.status = "Cancelled", !.updatedAt = now])
            = Parties(escrows[c])
    BY <1>1 DEF Parties, EscrowRecord
  <2>2. QED
    BY <1>2, <1>6, <2>1 DEF CancelEscrow, RefundSender, KeepsSettings
<1>7. CASE ExpireEscrow(c)
  <2>1. Parties([escrows[c] EXCEPT !.status = "Cancelled"]) = Parties(escrows[c])
    BY <1>1 DEF Parties, EscrowRecord
  <2>2. QED
    BY <1>2, <1>7, <2>1 DEF ExpireEscrow, RefundSender, KeepsSettings
<1>8. CASE CleanupEscrow(c)
  BY <1>1, <1>8 DEF CleanupEscrow, Store, Calm, Untouched, Archived
<1>9. QED
  BY <1>3, <1>4, <1>5, <1>6, <1>7, <1>8 DEF Settle

LEMMA AdministerCalm ==
    ASSUME EscrowInv, Administer, NEW e \in Ids
    PROVE  Calm(e) /\ counter <= counter'
<1>1. counter \in Nat /\ escrows \in [Ids -> EscrowRecord]
  BY InvFacts DEF EscrowInv, EscrowTypeOK
<1>2. ASSUME NEW c \in Ids, NEW bps \in Fees, UpdateFee(c, bps)
      PROVE  Calm(e) /\ counter <= counter'
  <2>1. Parties([escrows[c] EXCEPT !.feeBps = bps]) = Parties(escrows[c])
    BY <1>1 DEF Parties, EscrowRecord
  <2>2. QED
    BY <1>1, <1>2, <2>1 DEF UpdateFee, Store, IsPending, KeepsSettings, Calm, Untouched, Moved
<1>3. ASSUME NEW amount \in Takings, WithdrawFees(amount)
      PROVE  Calm(e) /\ counter <= counter'
  BY <1>1, <1>3 DEF WithdrawFees, KeepsSettings, Calm, Untouched
<1>4. ASSUME NEW field, NEW value, Configure(field, value)
      PROVE  Calm(e) /\ counter <= counter'
  BY <1>1, <1>4 DEF Configure, Calm, Untouched
<1>5. CASE SetKycContract \/ ClearKycContract \/ Pause \/ Unpause
  BY <1>4, <1>5, Zenon DEF SetKycContract, ClearKycContract, Pause, Unpause
<1>6. QED
  BY <1>2, <1>3, <1>4, <1>5
     DEF Administer, SetFeeBps, SetCancelHoldPeriod, SetRetentionPeriod, SetDisputeContract

LEMMA OtherCourtCalm ==
    ASSUME EscrowInv, NEW c \in Ids, OtherCourt(c), NEW e \in Ids
    PROVE  Calm(e) /\ counter <= counter'
<1>1. /\ counter \in Nat /\ escrows \in [Ids -> EscrowRecord] /\ escrows[c] \in EscrowRecord
      /\ link \in [Ids -> LinkRecord] /\ winner \in [Ids -> Accounts \cup {Nobody}]
  BY InvFacts DEF EscrowInv, EscrowTypeOK
<1>2. ASSUME NEW a \in Accounts, config.court # Court, DisputeEscrow(a, c)
      PROVE  Calm(e) /\ counter <= counter'
  <2>1. PICK id \in CaseIds : MarkDisputed(a, c, id)
    BY <1>2 DEF DisputeEscrow
  <2>2. /\ link' = [link EXCEPT ![c] = [contract |-> config.court, id |-> id]]
        /\ UNCHANGED <<counter, winner>> /\ escrows[c].status = "Pending"
        /\ escrows' = [escrows EXCEPT ![c] =
                          [escrows[c] EXCEPT !.status = "UnderDispute", !.updatedAt = now]]
    BY <2>1 DEF MarkDisputed, Store, IsPending
  <2>3. e # c => link'[e] = link[e] /\ escrows'[e] = escrows[e]
    BY <1>1, <2>2
  <2>4. link'[c].contract # Court /\ escrows'[c].status = "UnderDispute"
    BY <1>1, <1>2, <2>2 DEF EscrowRecord
  <2>5. QED
    BY <1>1, <2>2, <2>3, <2>4 DEF Calm, Untouched, Moved
<1>3. ASSUME NEW a \in Accounts, NEW other \in DisputeContracts \ {Court},
             CloseDisputedEscrow(other, c, a)
      PROVE  Calm(e) /\ counter <= counter'
  <2> DEFINE r == [escrows[c] EXCEPT
                      !.status = IF a = escrows[c].sender THEN "Cancelled" ELSE "Released",
                      !.updatedAt = now]
  <2>1. /\ link[c].contract # Court /\ escrows[c].status = "UnderDispute"
        /\ escrows' = [escrows EXCEPT ![c] = r] /\ winner' = [winner EXCEPT ![c] = a]
        /\ UNCHANGED <<counter, link>>
    BY <1>3 DEF CloseDisputedEscrow, CloseDisputed, Store
  <2>2. /\ r.status \in {"Released", "Cancelled"} /\ r.agent = escrows[c].agent
        /\ r.confirmed = escrows[c].confirmed
    BY <1>1 DEF EscrowRecord
  <2> HIDE DEF r
  <2>3. e # c => escrows'[e] = escrows[e] /\ winner'[e] = winner[e]
    BY <1>1, <2>1
  <2>4. escrows'[c] = r
    BY <1>1, <2>1
  <2>5. QED
    BY <1>1, <2>1, <2>2, <2>3, <2>4 DEF Calm, Untouched, ClosedElsewhere
<1>4. QED
  BY <1>2, <1>3 DEF OtherCourt

LEMMA EscrowAloneCalm ==
    ASSUME EscrowInv, EscrowAlone, NEW e \in Ids
    PROVE  Calm(e) /\ counter <= counter'
BY FundCalm, SettleCalm, AdministerCalm, OtherCourtCalm DEF EscrowAlone

-----------------------------------------------------------------------------
(* The steps keep the two records together.                                *)

\* What the invariant says of the state as a whole.
LEMMA SystemFacts ==
    ASSUME SystemInv
    PROVE  /\ EscrowInv /\ DP!DisputeInv
           /\ counter \in Nat /\ counter <= MaxEscrows
           /\ opened \in Nat /\ opened <= MaxDisputes /\ MaxDisputes \in Nat
           /\ D!DisputeIds = DP!DisputeIds /\ 1..opened \subseteq D!DisputeIds
           /\ 1..counter \subseteq Ids /\ Nobody # Court
           /\ escrows \in [Ids -> EscrowRecord]
           /\ link \in [Ids -> LinkRecord] /\ winner \in [Ids -> Accounts \cup {Nobody}]
           /\ disputes \in [D!DisputeIds -> DP!DisputeRecord]
           /\ outcome \in [D!DisputeIds -> DP!OutcomeRecord]
           /\ \A d \in D!DisputeIds : d > opened => disputes[d] = DP!NoDispute
<1>1. DP!DisputeTypeOK /\ DP!Unused /\ D!DisputeIds = DP!DisputeIds
  BY DEF SystemInv, DP!DisputeInv, DP!DisputesFunded, D!DisputeIds, DP!DisputeIds
<1>2. EscrowTypeOK /\ MaxEscrows \in Nat
  BY ConstantFacts DEF SystemInv, EscrowInv
<1>3. MaxDisputes \in Nat
  BY CourtFacts DEF DP!DisputeConstants
<1>4. opened \in 0..MaxDisputes /\ counter \in 0..MaxEscrows
  BY <1>1, <1>2 DEF DP!DisputeTypeOK, EscrowTypeOK
<1>5. /\ disputes \in [D!DisputeIds -> DP!DisputeRecord]
      /\ outcome \in [D!DisputeIds -> DP!OutcomeRecord]
      /\ \A d \in D!DisputeIds : d > opened => disputes[d] = DP!NoDispute
  BY <1>1 DEF DP!DisputeTypeOK, DP!Unused
<1>6. Nobody # Court
  BY EscrowConstants, CourtAssumption
<1>7. 1..opened \subseteq D!DisputeIds /\ 1..counter \subseteq Ids
  BY <1>2, <1>3, <1>4 DEF D!DisputeIds, Ids
<1>8. QED
  BY <1>1, <1>2, <1>3, <1>4, <1>5, <1>6, <1>7 DEF SystemInv, EscrowTypeOK

\* A step that changes no record of the court's.
LEMMA QuietCourt ==
    ASSUME SystemInv, \A e \in Ids : Calm(e) /\ counter <= counter', counter' \in Nat,
           UNCHANGED <<disputes, opened, outcome>>
    PROVE  /\ \A d \in D!DisputeIds : Backed(d)'
           /\ \A e \in Ids : Linked(e)' /\ Named(e)'
<1>1. ASSUME NEW d \in D!DisputeIds PROVE Backed(d)'
  <2> DEFINE e == disputes[d].escrow
  <2>1. SUFFICES ASSUME e # 0 PROVE Backed(d)'
    BY DEF Backed
  <2>2. Backed(d) /\ e \in 1..counter /\ e \in Ids /\ ~(e > counter)
    BY <2>1, SystemFacts DEF SystemInv, Backed
  <2>3. CASE Untouched(e)
    BY <2>2, <2>3, SystemFacts DEF Backed, Untouched, InCourt, D!Unsettled
  <2>4. CASE Archived(e)
    BY <2>2, <2>4, SystemFacts DEF Backed, Archived, InCourt, D!Unsettled, NoEscrow
  <2>5. CASE ClosedElsewhere(e)
    BY <2>2, <2>5, SystemFacts DEF Backed, ClosedElsewhere, InCourt, D!Unsettled
  <2>6. ~Moved(e)
    BY <2>2 DEF Moved, Backed
  <2>7. QED
    BY <2>2, <2>3, <2>4, <2>5, <2>6 DEF Calm
<1>2. ASSUME NEW e \in Ids PROVE Linked(e)'
  <2>1. Linked(e)
    BY DEF SystemInv
  <2>2. SUFFICES ASSUME link'[e].contract = Court PROVE Linked(e)'
    BY DEF Linked
  <2>3. CASE Untouched(e)
    BY <2>1, <2>3 DEF Linked, Untouched, InCourt, D!Unsettled
  <2>4. ~Archived(e) /\ ~ClosedElsewhere(e)
    BY <2>2, SystemFacts DEF Archived, NoLink, ClosedElsewhere
  <2>5. ~Moved(e)
    <3>1. SUFFICES ASSUME link'[e] = link[e] PROVE e <= counter /\ escrows[e].status # "Pending"
      BY <2>2, SystemFacts DEF Moved, Ids
    <3>2. link[e].id \in D!DisputeIds /\ disputes[link[e].id].escrow = e
      BY <2>1, <2>2, <3>1, SystemFacts DEF Linked
    <3>3. Backed(link[e].id) /\ e # 0
      BY <3>2 DEF SystemInv, Ids
    <3>4. QED
      BY <3>2, <3>3, SystemFacts DEF Backed
  <2>6. QED
    BY <2>3, <2>4, <2>5 DEF Calm
<1>3. ASSUME NEW e \in Ids PROVE Named(e)'
  <2>1. Calm(e) /\ Named(e)
    BY DEF SystemInv
  <2>2. QED
    BY <2>1 DEF Calm, Untouched, Archived, NoEscrow, ClosedElsewhere, Moved, Named
<1>4. QED
  BY <1>1, <1>2, <1>3

\* A step of the court that settles nothing and touches no escrow's case.
CourtCalm(d) ==
    /\ outcome'[d] = outcome[d]
    /\ \/ disputes'[d] = disputes[d]
       \/ /\ DP!SameCase(disputes[d], disputes'[d])
          /\ DP!Unsettled(d) /\ DP!Unsettled(d)'
       \/ disputes[d] = DP!NoDispute /\ disputes'[d].escrow = 0

LEMMA QuietEscrows ==
    ASSUME SystemInv, UNCHANGED escrowVars, opened' \in Nat, opened <= opened',
           \A d \in D!DisputeIds : CourtCalm(d)
    PROVE  /\ \A d \in D!DisputeIds : Backed(d)'
           /\ \A e \in Ids : Linked(e)' /\ Named(e)'
<1>1. UNCHANGED <<escrows, link, winner, counter>>
  BY DEF escrowVars
<1>2. ASSUME NEW d \in D!DisputeIds PROVE Backed(d)'
  <2>1. Backed(d) /\ CourtCalm(d)
    BY DEF SystemInv
  <2>2. CASE disputes'[d] = disputes[d]
    BY <1>1, <2>1, <2>2 DEF Backed, CourtCalm, InCourt, D!Unsettled
  <2>3. CASE /\ DP!SameCase(disputes[d], disputes'[d])
             /\ DP!Unsettled(d) /\ DP!Unsettled(d)'
    BY <1>1, <2>1, <2>3 DEF Backed, CourtCalm, DP!SameCase, InCourt, D!Unsettled, DP!Unsettled
  <2>4. CASE disputes'[d].escrow = 0
    BY <2>4 DEF Backed
  <2>5. QED
    BY <2>1, <2>2, <2>3, <2>4 DEF CourtCalm
<1>3. ASSUME NEW e \in Ids PROVE Linked(e)'
  <2>1. SUFFICES ASSUME link[e].contract = Court PROVE Linked(e)'
    BY <1>1 DEF Linked
  <2> PICK d : d = link[e].id
    OBVIOUS
  <2>2. /\ Linked(e) /\ d \in 1..opened /\ d \in D!DisputeIds /\ d \in 1..opened'
        /\ disputes[d].escrow = e /\ e # 0 /\ CourtCalm(d)
    BY <2>1, SystemFacts DEF SystemInv, Linked, Ids
  <2>3. disputes[d] # DP!NoDispute
    BY <2>2 DEF DP!NoDispute
  <2>4. /\ disputes'[d].escrow = e /\ outcome'[d] = outcome[d]
        /\ D!Unsettled(d)' <=> D!Unsettled(d)
    BY <2>2, <2>3 DEF CourtCalm, DP!SameCase, D!Unsettled, DP!Unsettled
  <2>5. QED
    BY <1>1, <2>1, <2>2, <2>4 DEF Linked, InCourt
<1>4. \A e \in Ids : Named(e)'
  BY <1>1 DEF SystemInv, Named
<1>5. QED
  BY <1>2, <1>3, <1>4

LEMMA CourtAloneStep ==
    ASSUME SystemInv, CourtAlone
    PROVE  SystemInv'
<1>1. /\ UNCHANGED escrowVars /\ now' = now
      /\ EscrowInv /\ DP!DisputeInv /\ D!DisputeIds = DP!DisputeIds
  BY SystemFacts DEF CourtAlone
<1>2. EscrowInv'
  BY <1>1, NextSound DEF vars
<1> DEFINE calm == /\ DP!DisputeInv' /\ opened' \in Nat /\ opened <= opened'
                   /\ \A d \in D!DisputeIds : CourtCalm(d)
<1>3. ASSUME NEW d \in D!DisputeIds, D!Argue(d) PROVE calm
  <2>1. DP!Argue(d)
    BY <1>3, SameArgue, SMTT(30)
  <2>2. DP!DisputeInv'
    BY <1>1, <2>1, CourtFacts, DP!ArgueStep, SMTT(30)
  <2>3. /\ opened' = opened /\ outcome' = outcome
        /\ \A c \in DP!DisputeIds :
              \/ disputes'[c] = disputes[c]
              \/ /\ DP!SameCase(disputes[c], disputes'[c])
                 /\ DP!Unsettled(c) /\ DP!Unsettled(c)'
    BY <1>1, <2>1, CourtFacts, DP!ArgueFrame
  <2>4. QED
    BY <1>1, <2>2, <2>3, SystemFacts DEF CourtCalm
<1>4. ASSUME D!Manage PROVE calm
  <2>1. DP!Manage
    BY <1>4, SameManage
  <2>2. DP!DisputeInv'
    BY <1>1, <2>1, CourtFacts, DP!ManageStep
  <2>3. UNCHANGED <<disputes, opened, outcome>>
    BY <1>1, <2>1, CourtFacts, DP!ManageFacts
  <2>4. QED
    BY <2>2, <2>3, SystemFacts DEF CourtCalm
<1>5. ASSUME NEW a \in Accounts, NEW p \in Claims, D!OpenDispute(a, p) PROVE calm
  <2>1. D!Register(a, Nobody, FALSE, 0, p)
    BY <1>5 DEF D!OpenDispute
  <2>2. DP!Register(a, Nobody, FALSE, 0, p)
    BY <2>1, SameRegister
  <2>3. DP!OpenDispute(a, p)
    BY <1>5, <2>2, Zenon DEF D!OpenDispute, DP!OpenDispute
  <2>4. DP!DisputeInv'
    BY <1>1, <2>3, CourtFacts, DP!OpenDisputeStep, SMTT(30)
  <2> PICK no \in BOOLEAN : DP!Register(a, Nobody, no, 0, p)
    BY <2>2, ZenonT(30)
  <2>5. /\ opened' = opened + 1 /\ outcome' = outcome
        /\ \A c \in DP!DisputeIds : c # opened + 1 => disputes'[c] = disputes[c]
        /\ disputes'[opened + 1].escrow = 0
        /\ disputes[opened + 1] = DP!NoDispute
    BY <1>1, CourtFacts, DP!RegisterFrame
  <2>6. ASSUME NEW c \in D!DisputeIds PROVE CourtCalm(c)
    BY <1>1, <2>5 DEF CourtCalm
  <2>7. QED
    BY <2>4, <2>5, <2>6, SystemFacts
<1>6. calm
  BY <1>3, <1>4, <1>5 DEF CourtAlone, D!OpenFreeForm
<1>7. QED
  BY <1>1, <1>2, <1>6, QuietEscrows DEF SystemInv

LEMMA EscrowAloneStep ==
    ASSUME SystemInv, EscrowAlone
    PROVE  SystemInv'
<1>1. /\ EscrowInv /\ DP!DisputeInv /\ D!DisputeIds = DP!DisputeIds
      /\ UNCHANGED <<disputes, opened, custody, bench, votes, outcome>>
  BY SystemFacts DEF EscrowAlone, courtVars
<1>2. Fund \/ (\E e \in Ids : Settle(e) \/ Litigate(e)) \/ Administer
  BY CourtAssumption, SMTT(30) DEF EscrowAlone, OtherCourt, Litigate
<1>3. EscrowInv'
  BY <1>1, <1>2, NextSound, SMTT(30) DEF EscrowNext
<1>4. DP!DisputeInv'
  <2>1. now' \in 0..MaxTime
    BY <1>3 DEF EscrowInv, EscrowTypeOK, ClockTypeOK
  <2>2. /\ bench' \in DP!BenchRecord
        /\ votes' \in [DP!DisputeIds -> [Officials -> {"none", "Recipient", "Sender"}]]
    BY <1>1 DEF DP!DisputeInv, DP!DisputesFunded, DP!DisputeTypeOK
  <2>3. QED
    BY <1>1, <2>1, <2>2, CourtFacts, DP!QuietStep
<1>5. \A e \in Ids : Calm(e) /\ counter <= counter'
  BY <1>1, EscrowAloneCalm
<1>6. counter' \in Nat
  BY <1>3, ConstantFacts DEF EscrowInv, EscrowTypeOK
<1>7. QED
  BY <1>1, <1>3, <1>4, <1>5, <1>6, QuietCourt DEF SystemInv

LEMMA RaiseDisputeStep ==
    ASSUME SystemInv, NEW a \in Accounts, NEW e \in Ids, RaiseDispute(a, e)
    PROVE  SystemInv'
<1> DEFINE r == [escrows[e] EXCEPT !.status = "UnderDispute", !.updatedAt = now]
           b == Backing(e)
<1> PICK d : d = opened + 1
  OBVIOUS
<1>1. /\ EscrowInv /\ DP!DisputeInv /\ D!DisputeIds = DP!DisputeIds
      /\ escrows[e] \in EscrowRecord /\ escrows[e].amount \in Nat
  BY SystemFacts, InvFacts
<1>2. /\ MarkDisputed(a, e, d) /\ config.court = Court /\ now' = now
      /\ D!OpenEscrowDispute(a, b)
  BY DEF RaiseDispute
<1>3. /\ escrows[e].status = "Pending" /\ escrows' = [escrows EXCEPT ![e] = r]
      /\ link' = [link EXCEPT ![e] = [contract |-> Court, id |-> d]]
      /\ winner' = winner /\ counter' = counter
  BY <1>2 DEF MarkDisputed, IsPending, Store
<1>4. /\ r.status = "UnderDispute" /\ r.sender = escrows[e].sender
      /\ r.recipient = escrows[e].recipient /\ r.agent = escrows[e].agent
      /\ r.amount = escrows[e].amount /\ r.confirmed = escrows[e].confirmed
  BY <1>1 DEF EscrowRecord
<1>5. /\ b.sender = escrows[e].sender /\ b.recipient = escrows[e].recipient
      /\ b.agent = escrows[e].agent /\ b.amount = escrows[e].amount
      /\ b.confirmed = escrows[e].confirmed /\ b.escrow = e
  BY DEF Backing
<1> HIDE DEF r, b
<1>6. /\ b.sender \in Accounts /\ b.recipient \in Accounts /\ b.agent \in Accounts
      /\ b.amount \in Int /\ b.confirmed \in BOOLEAN /\ b.escrow \in Nat
  <2>1. Parties(escrows[e]) \subseteq Accounts
    BY <1>3 DEF SystemInv, Named
  <2>2. escrows[e].confirmed \in BOOLEAN
    BY <1>1 DEF EscrowRecord
  <2>3. QED
    BY <1>1, <1>5, <2>1, <2>2 DEF Parties, Ids
<1>7. DP!OpenEscrowDispute(a, b) /\ DP!Register(a, b.agent, b.confirmed, b.escrow, b)
  BY <1>2, SameRegister, SMTT(30) DEF D!OpenEscrowDispute, DP!OpenEscrowDispute
<1>8. DP!DisputeInv'
  BY <1>1, <1>2, <1>6, <1>7, CourtFacts, DP!OpenEscrowDisputeStep, SMTT(30)
<1>9. EscrowInv'
  BY <1>1, <1>2, SystemFacts, MarkDisputedStep, SMTT(30)
<1>10. /\ opened' = d /\ d \in D!DisputeIds /\ outcome' = outcome /\ d \in Nat
       /\ \A c \in D!DisputeIds : c # d => disputes'[c] = disputes[c]
       /\ disputes'[d].status = "Open" /\ disputes'[d].sender = escrows[e].sender
       /\ disputes'[d].recipient = escrows[e].recipient
       /\ disputes'[d].agent = escrows[e].agent
       /\ disputes'[d].amount = escrows[e].amount
       /\ disputes'[d].confirmed = escrows[e].confirmed /\ disputes'[d].escrow = e
  <2>1. /\ opened' = d /\ d \in DP!DisputeIds /\ outcome' = outcome
        /\ \A c \in DP!DisputeIds : c # d => disputes'[c] = disputes[c]
        /\ disputes'[d].status = "Open" /\ disputes'[d].sender = b.sender
        /\ disputes'[d].recipient = b.recipient /\ disputes'[d].agent = b.agent
        /\ disputes'[d].amount = b.amount
        /\ disputes'[d].confirmed = b.confirmed /\ disputes'[d].escrow = b.escrow
    <3>1. DP!DisputeInv /\ d = opened + 1
      BY SystemFacts
    <3>2. DP!Register(a, b.agent, b.confirmed, b.escrow, b)
      BY <1>7
    <3>3. QED
      BY <3>1, <3>2, CourtFacts, DP!RegisterFrame, SMTT(60)
  <2>2. D!DisputeIds = DP!DisputeIds /\ d \in Nat
    BY SystemFacts
  <2>3. QED
    BY <1>5, <2>1, <2>2, SMTT(30)
<1>11. /\ escrows'[e] = r /\ link'[e] = [contract |-> Court, id |-> d]
       /\ \A f \in Ids : f # e => escrows'[f] = escrows[f] /\ link'[f] = link[f]
  BY <1>3, SystemFacts
<1>12. link'[e].contract = Court /\ link'[e].id = d
  BY <1>11
<1>13. e <= counter /\ e \in 1..counter
  BY <1>1, <1>3, SystemFacts, ExistsBelowCounter DEF Ids
<1>14. ASSUME NEW c \in D!DisputeIds PROVE Backed(c)'
  <2>1. CASE c = d
    <3>1. /\ e \in 1..counter' /\ escrows'[e].status # "Pending" /\ disputes'[d].agent # Nobody
          /\ disputes'[d].status # "Expired"
      BY <1>3, <1>4, <1>5, <1>6, <1>10, <1>11, <1>13, EscrowConstants
    <3>2. InCourt(e)'
      BY <1>4, <1>11, <1>12 DEF InCourt
    <3>3. escrows[e].amount > 0
      BY <1>1, <1>3, InvFacts DEF Sound
    <3>4. QED
      BY <1>4, <1>10, <1>11, <1>12, <2>1, <3>1, <3>2, <3>3, SMTT(30) DEF Backed
  <2>2. CASE c # d
    <3>1. Backed(c) /\ disputes'[c] = disputes[c] /\ outcome'[c] = outcome[c]
      BY <1>10, <2>2 DEF SystemInv
    <3>2. disputes[c].escrow # 0 => disputes[c].escrow \in Ids /\ disputes[c].escrow # e
      BY <1>3, <3>1, SystemFacts DEF Backed
    <3>3. QED
      BY <1>3, <1>11, <3>1, <3>2 DEF Backed, InCourt, D!Unsettled
  <2>3. QED
    BY <2>1, <2>2
<1>15. ASSUME NEW f \in Ids PROVE Linked(f)'
  <2>1. CASE f = e
    <3>1. InCourt(e)' /\ D!Unsettled(d)' /\ d \in 1..opened'
      BY <1>4, <1>10, <1>11, <1>12 DEF InCourt, D!Unsettled, D!DisputeIds
    <3>2. QED
      BY <1>10, <1>12, <2>1, <3>1 DEF Linked, D!Unsettled
  <2>2. CASE f # e
    <3>1. SUFFICES ASSUME link[f].contract = Court PROVE Linked(f)'
      BY <1>11, <2>2 DEF Linked
    <3>2. Linked(f) /\ link[f].id \in 1..opened /\ link[f].id \in D!DisputeIds
      BY <3>1, SystemFacts DEF SystemInv, Linked
    <3>3. opened \in Nat /\ opened' = opened + 1
      BY <1>10, SystemFacts
    <3>4. link[f].id \in 1..opened' /\ link[f].id # d
      BY <3>2, <3>3
    <3>5. disputes'[link[f].id] = disputes[link[f].id]
      BY <1>10, <3>2, <3>4
    <3>6. QED
      BY <1>3, <1>10, <1>11, <2>2, <3>2, <3>4, <3>5 DEF Linked, InCourt, D!Unsettled
  <2>3. QED
    BY <2>1, <2>2
<1>16. ASSUME NEW f \in Ids PROVE Named(f)'
  BY <1>4, <1>11 DEF SystemInv, Named
<1>17. QED
  BY <1>8, <1>9, <1>14, <1>15, <1>16 DEF SystemInv

LEMMA DecideAndNotifyStep ==
    ASSUME SystemInv, NEW d \in D!DisputeIds, DecideAndNotify(d)
    PROVE  SystemInv'
<1>1. /\ EscrowInv /\ DP!DisputeInv /\ d \in DP!DisputeIds
      /\ DP!Decide(d) /\ NotifyEscrow(d) /\ now' = now
  BY SystemFacts, SameDecide, SMTT(30) DEF DecideAndNotify
<1>2. DP!DisputeInv'
  BY <1>1, CourtFacts, DP!DecideStep, SMTT(30)
<1>3. /\ DP!Unsettled(d) /\ opened' = opened
      /\ \A c \in DP!DisputeIds : c # d => disputes'[c] = disputes[c] /\ outcome'[c] = outcome[c]
      /\ DP!SameCase(disputes[d], disputes'[d])
      /\ \/ disputes'[d] = disputes[d] /\ outcome'[d] = outcome[d]
         \/ /\ disputes'[d].status \in DP!Settlements
            /\ disputes'[d].status = "Expired" => outcome'[d].winner = DP!Claimant(d)
  BY <1>1, CourtFacts, DP!DecideFrame
<1>4. CASE UNCHANGED escrowVars /\ \A c \in D!DisputeIds : CourtCalm(c)
  <2>1. EscrowInv'
    BY <1>1, <1>4, NextSound DEF vars
  <2>2. QED
    BY <1>2, <1>3, <1>4, <2>1, SystemFacts, QuietEscrows DEF SystemInv
<1>5. CASE disputes'[d] = disputes[d] /\ outcome'[d] = outcome[d]
  <2>1. UNCHANGED escrowVars
    BY <1>1, <1>3, <1>5 DEF NotifyEscrow, D!Unsettled, DP!Unsettled
  <2>2. \A c \in D!DisputeIds : CourtCalm(c)
    BY <1>3, <1>5, SystemFacts DEF CourtCalm
  <2>3. QED
    BY <1>4, <2>1, <2>2
<1>6. CASE /\ disputes'[d].status \in DP!Settlements
           /\ disputes'[d].status = "Expired" => outcome'[d].winner = DP!Claimant(d)
  <2>1. PICK e : e = disputes[d].escrow
    OBVIOUS
  <2>2. PICK w : w = outcome'[d].winner
    OBVIOUS
  <2>3. ~D!Unsettled(d)' /\ D!Unsettled(d) /\ disputes'[d].escrow = e
    BY <1>3, <1>6, <2>1 DEF D!Unsettled, DP!Unsettled, DP!Settlements, DP!SameCase
  <2>4. \A f \in Ids : link[f].contract = Court /\ f # e => link[f].id # d
    BY <2>1 DEF SystemInv, Linked
  <2>5. CASE e = 0
    <3>1. UNCHANGED escrowVars
      BY <1>1, <2>1, <2>5 DEF NotifyEscrow, D!Unsettled
    <3>2. UNCHANGED <<escrows, counter, link, winner>>
      BY <3>1 DEF escrowVars
    <3>3. EscrowInv'
      BY <1>1, <3>1, NextSound DEF vars
    <3>4. ASSUME NEW c \in D!DisputeIds PROVE Backed(c)'
      <4>1. CASE c = d
        BY <2>3, <2>5, <4>1 DEF Backed
      <4>2. CASE c # d
        BY <1>3, <3>2, <4>2, SystemFacts DEF SystemInv, Backed, InCourt, D!Unsettled
      <4>3. QED
        BY <4>1, <4>2
    <3>5. ASSUME NEW f \in Ids PROVE Linked(f)' /\ Named(f)'
      <4>1. Named(f)'
        BY <3>2 DEF SystemInv, Named
      <4>2. SUFFICES ASSUME link[f].contract = Court PROVE Linked(f)'
        BY <3>2, <4>1 DEF Linked
      <4>3. Linked(f) /\ link[f].id # d /\ link[f].id \in D!DisputeIds
        BY <2>4, <2>5, <4>2, SystemFacts DEF SystemInv, Linked, Ids
      <4>4. /\ disputes'[link[f].id] = disputes[link[f].id]
            /\ outcome'[link[f].id] = outcome[link[f].id]
        BY <1>3, <4>3, SystemFacts
      <4>5. QED
        BY <1>3, <3>2, <4>3, <4>4 DEF Linked, InCourt, D!Unsettled
    <3>6. QED
      BY <1>2, <3>3, <3>4, <3>5 DEF SystemInv
  <2>6. CASE e # 0
    <3> DEFINE st == IF w = escrows[e].sender THEN "Cancelled" ELSE "Released"
               r == [escrows[e] EXCEPT !.status = st, !.updatedAt = now]
    <3>0. CloseDisputed(Court, e, w)
      BY <1>1, <2>1, <2>2, <2>3, <2>6 DEF NotifyEscrow, D!Unsettled
    <3>1. /\ Backed(d) /\ e \in Ids /\ escrows[e] \in EscrowRecord /\ CloseDisputed(Court, e, w)
      BY <2>1, <2>6, <3>0, SystemFacts DEF SystemInv, Backed
    <3>2. /\ w \in Accounts
          /\ disputes'[d].status = "Expired" => w = DP!Claimant(d)
      <4>1. DP!DisputeTypeOK'
        BY <1>2 DEF DP!DisputeInv, DP!DisputesFunded
      <4>2. outcome'[d].winner \in Accounts
        BY <1>1, <1>6, <4>1 DEF DP!DisputeTypeOK, DP!DisputeIds
      <4>3. QED
        BY <1>6, <2>2, <4>2
    <3>3. EscrowInv'
      BY <1>1, <3>1, <3>2, CloseDisputedStep
    <3>4. /\ escrows' = [escrows EXCEPT ![e] = r] /\ winner' = [winner EXCEPT ![e] = w]
          /\ counter' = counter /\ link' = link
      BY <3>1 DEF CloseDisputed, Store
    <3>5. /\ r.status = st /\ r.sender = escrows[e].sender /\ r.agent = escrows[e].agent
          /\ r.confirmed = escrows[e].confirmed
      BY <3>1 DEF EscrowRecord
    <3> HIDE DEF r
    <3>6. /\ escrows'[e] = r /\ winner'[e] = w
          /\ \A f \in Ids : f # e => escrows'[f] = escrows[f] /\ winner'[f] = winner[f]
      BY <3>1, <3>4, SystemFacts
    <3>7. st \in {"Released", "Cancelled"} /\ ~InCourt(e)'
      BY <3>5, <3>6 DEF InCourt
    <3>8. ASSUME NEW c \in D!DisputeIds PROVE Backed(c)'
      <4>1. CASE c = d
        <5>1. /\ e \in 1..counter' /\ escrows'[e].status # "Pending"
              /\ disputes'[d].agent # Nobody
          BY <1>3, <2>1, <2>6, <3>1, <3>4, <3>5, <3>6, <3>7 DEF Backed, DP!SameCase
        <5>2. ASSUME disputes'[d].status = "Expired", escrows'[e].confirmed
              PROVE  outcome'[d].winner = escrows'[e].agent
          <6>1. disputes[d].confirmed /\ disputes[d].agent # Nobody
                /\ disputes[d].agent = escrows[e].agent
            BY <2>1, <2>3, <2>6, <3>1, <3>5, <3>6, <5>2 DEF Backed
          <6>2. QED
            BY <2>2, <3>2, <3>5, <3>6, <5>2, <6>1 DEF DP!Claimant
        <5>3. QED
          BY <2>3, <4>1, <5>1, <5>2 DEF Backed
      <4>2. CASE c # d
        <5>1. disputes'[c] = disputes[c] /\ outcome'[c] = outcome[c] /\ Backed(c)
          BY <1>3, <4>2, SystemFacts DEF SystemInv
        <5>2. CASE disputes[c].escrow = e
          <6>1. ~D!Unsettled(c)
            BY <2>1, <2>3, <2>6, <3>1, <4>2, <5>1, <5>2 DEF Backed
          <6>2. QED
            BY <2>6, <3>4, <3>5, <3>6, <3>7, <5>1, <5>2, <6>1 DEF Backed, D!Unsettled
        <5>3. CASE disputes[c].escrow # e
          <6>1. disputes[c].escrow # 0 => disputes[c].escrow \in Ids
            BY <5>1, SystemFacts DEF Backed
          <6>2. QED
            BY <3>4, <3>6, <5>1, <5>3, <6>1 DEF Backed, InCourt, D!Unsettled
        <5>4. QED
          BY <5>2, <5>3
      <4>3. QED
        BY <4>1, <4>2
    <3>9. ASSUME NEW f \in Ids PROVE Linked(f)'
      <4>1. SUFFICES ASSUME link[f].contract = Court PROVE Linked(f)'
        BY <3>4 DEF Linked
      <4>2. Linked(f) /\ link[f].id \in D!DisputeIds /\ link[f].id \in 1..opened
        BY <4>1, SystemFacts DEF SystemInv, Linked
      <4>3. CASE f = e
        <5>1. link[e].id = d
          BY <2>1, <2>3, <2>6, <3>1 DEF Backed
        <5>2. winner'[e] = outcome'[d].winner /\ escrows'[e].status \in {"Released", "Cancelled"}
          BY <2>2, <3>5, <3>6, <3>7
        <5>3. escrows'[e].status = "Cancelled" <=> winner'[e] = escrows'[e].sender
          BY <3>5, <3>6
        <5>4. QED
          BY <1>3, <2>3, <3>4, <3>7, <4>2, <4>3, <5>1, <5>2, <5>3 DEF Linked
      <4>4. CASE f # e
        <5>1. link[f].id # d
          BY <2>4, <4>1, <4>4
        <5>2. /\ disputes'[link[f].id] = disputes[link[f].id]
              /\ outcome'[link[f].id] = outcome[link[f].id]
          BY <1>3, <4>2, <5>1, SystemFacts
        <5>3. QED
          BY <1>3, <3>4, <3>6, <4>1, <4>2, <4>4, <5>2 DEF Linked, InCourt, D!Unsettled
      <4>5. QED
        BY <4>3, <4>4
    <3>10. ASSUME NEW f \in Ids PROVE Named(f)'
      BY <3>5, <3>6, <3>7 DEF SystemInv, Named
    <3>11. QED
      BY <1>2, <3>3, <3>8, <3>9, <3>10 DEF SystemInv
  <2>7. QED
    BY <2>5, <2>6
<1>7. QED
  BY <1>3, <1>5, <1>6

-----------------------------------------------------------------------------
(* The invariant holds.                                                    *)

LEMMA SystemInitInv == SystemInit => SystemInv
<1> SUFFICES ASSUME SystemInit PROVE SystemInv
  OBVIOUS
<1>1. EscrowInv /\ DP!DisputeInv
  BY CourtFacts, InitSound, SameInit, DP!InitInv, SMTT(30) DEF SystemInit
<1>2. /\ \A d \in D!DisputeIds : disputes[d].escrow = 0
      /\ \A e \in Ids : escrows[e].status = "None" /\ link[e].contract # Court
  BY EscrowConstants, CourtAssumption
     DEF SystemInit, D!DisputeInit, D!NoDispute, EscrowInit, NoEscrow, NoLink
<1>3. QED
  BY <1>1, <1>2, SMTT(30) DEF SystemInv, Named, Backed, Linked

LEMMA ClockStep ==
    ASSUME SystemInv, UNCHANGED <<escrowVars, courtVars>>, Tick \/ now' = now
    PROVE  SystemInv'
<1>1. /\ EscrowInv /\ DP!DisputeInv
      /\ UNCHANGED <<disputes, opened, custody, bench, votes, outcome>>
      /\ UNCHANGED <<escrows, counter, link, winner>> /\ UNCHANGED escrowVars
  BY SystemFacts DEF courtVars, escrowVars
<1>2. EscrowInv'
  BY <1>1, NextSound, SMTT(30) DEF EscrowNext, vars
<1>3. DP!DisputeInv'
  <2>1. now' \in 0..MaxTime
    BY <1>2 DEF EscrowInv, EscrowTypeOK, ClockTypeOK
  <2>2. /\ bench' \in DP!BenchRecord
        /\ votes' \in [DP!DisputeIds -> [Officials -> {"none", "Recipient", "Sender"}]]
    BY <1>1 DEF DP!DisputeInv, DP!DisputesFunded, DP!DisputeTypeOK
  <2>3. QED
    BY <1>1, <2>1, <2>2, CourtFacts, DP!QuietStep
<1>4. \A d \in D!DisputeIds : CourtCalm(d)
  BY <1>1 DEF CourtCalm
<1>5. QED
  BY <1>1, <1>2, <1>3, <1>4, SystemFacts, QuietEscrows DEF SystemInv

LEMMA SystemNextInv ==
    ASSUME SystemInv, [SystemNext]_systemVars
    PROVE  SystemInv'
<1>1. CASE Tick /\ UNCHANGED <<escrowVars, courtVars>>
  BY <1>1, ClockStep
<1>2. CASE UNCHANGED systemVars
  BY <1>2, ClockStep DEF systemVars
<1>3. QED
  BY <1>1, <1>2, EscrowAloneStep, CourtAloneStep, RaiseDisputeStep, DecideAndNotifyStep
     DEF SystemNext

LEMMA SystemInvariant == SystemSpec => []SystemInv
<1>1. SystemInv /\ [SystemNext]_systemVars => SystemInv'
  BY SystemNextInv
<1>2. QED
  BY <1>1, SystemInitInv, PTL DEF SystemSpec

\* Over all interleavings of the two contracts, an escrow is UnderDispute with
\* this court exactly while one dispute over its amount and parties runs.
THEOREM TheContractsAgree == SystemSpec => []ContractsAgree
<1>1. ASSUME SystemInv PROVE ContractsAgree
  <2>1. ASSUME NEW e \in Ids, InCourt(e)
        PROVE  /\ link[e].id \in 1..opened
               /\ disputes[link[e].id].escrow = e
               /\ D!Unsettled(link[e].id)
    <3>1. Linked(e) /\ link[e].contract = Court
      BY <1>1, <2>1 DEF SystemInv, InCourt
    <3>2. QED
      BY <2>1, <3>1 DEF Linked
  <2>2. ASSUME NEW d \in D!DisputeIds, D!Unsettled(d), disputes[d].escrow # 0
        PROVE  LET e == disputes[d].escrow
               IN  /\ InCourt(e) /\ link[e].id = d
                   /\ disputes[d].amount = escrows[e].amount
                   /\ disputes[d].sender = escrows[e].sender
                   /\ disputes[d].recipient = escrows[e].recipient
                   /\ disputes[d].agent = escrows[e].agent
    BY <1>1, <2>2 DEF SystemInv, Backed
  <2>3. QED
    BY <2>1, <2>2 DEF ContractsAgree
<1>2. QED
  BY <1>1, SystemInvariant, PTL

\* Money that one contract sends to the other is never owed twice: both hold
\* what they owe in every joint state, the escrow contract for its pending
\* escrows and the court for the disputes that run, those of escrows included.
THEOREM BothContractsSolvent == SystemSpec => [](Solvent /\ D!DisputesFunded)
<1>1. SystemInv => Solvent /\ D!DisputesFunded
  BY SameFunded DEF SystemInv, EscrowInv, DP!DisputeInv
<1>2. QED
  BY <1>1, SystemInvariant, PTL

\* An agent that confirmed the cash payout is paid when a dispute expires,
\* whoever opened it and whatever happened to the escrow since.
THEOREM ConfirmedAgentsArePaid == SystemSpec => []ConfirmationStands
<1>1. ASSUME SystemInv PROVE ConfirmationStands
  <2>1. SUFFICES ASSUME NEW e \in Ids, NEW d \in D!DisputeIds, disputes[d].escrow = e,
                        disputes[d].status = "Expired", escrows[e].confirmed
                 PROVE  outcome[d].winner = escrows[e].agent
    BY DEF ConfirmationStands
  <2>2. Backed(d) /\ e # 0
    BY <1>1 DEF SystemInv, Ids
  <2>3. QED
    BY <2>1, <2>2 DEF Backed
<1>2. QED
  BY <1>1, SystemInvariant, PTL

\* The escrow's own status and recorded winner agree with what the court paid.
THEOREM StatusesTellOutcomes == SystemSpec => []StatusTellsOutcome
<1>1. ASSUME SystemInv PROVE StatusTellsOutcome
  <2>1. SUFFICES ASSUME NEW e \in Ids, link[e].contract = Court, ~InCourt(e)
                 PROVE  /\ winner[e] = outcome[link[e].id].winner
                        /\ escrows[e].status = "Cancelled" <=> winner[e] = escrows[e].sender
    BY DEF StatusTellsOutcome
  <2>2. Linked(e)
    BY <1>1 DEF SystemInv
  <2>3. QED
    BY <2>1, <2>2 DEF Linked
<1>2. QED
  BY <1>1, SystemInvariant, PTL

-----------------------------------------------------------------------------
(* The promise.                                                            *)

\* What is due on an escrow, wherever it is held.
Due(e) == IF escrows[e].status = "Pending" \/ InCourt(e) THEN escrows[e].amount ELSE 0

\* The court holds for an escrow what its running dispute is about.
LEMMA StakeIs ==
    ASSUME SystemInv, NEW e \in Ids
    PROVE  Stake(e) = IF InCourt(e) THEN escrows[e].amount ELSE 0
<1> DEFINE f == [d \in D!DisputeIds |-> IF disputes[d].escrow = e /\ D!Unsettled(d)
                                        THEN disputes[d].amount ELSE 0]
           z == [d \in D!DisputeIds |-> 0]
<1>1. /\ Stake(e) = Total(f, MaxDisputes) /\ MaxDisputes \in Nat
      /\ D!DisputeIds = 1..MaxDisputes /\ e # 0
  BY SystemFacts DEF Stake, D!DisputeIds, Ids
<1>2. ASSUME NEW d \in D!DisputeIds, disputes[d].escrow = e, D!Unsettled(d)
      PROVE  InCourt(e) /\ link[e].id = d /\ disputes[d].amount = escrows[e].amount
  BY <1>1, <1>2 DEF SystemInv, Backed
<1>3. CASE ~InCourt(e)
  <2>1. \A d \in 1..MaxDisputes : f[d] = 0
    BY <1>1, <1>2, <1>3
  <2> HIDE DEF f
  <2>2. QED
    BY <1>1, <1>3, <2>1, TotalOfZeros
<1>4. CASE InCourt(e)
  <2> PICK d : d = link[e].id
    OBVIOUS
  <2>1. d \in D!DisputeIds /\ disputes[d].escrow = e /\ D!Unsettled(d)
    BY <1>4, SystemFacts DEF SystemInv, Linked, InCourt
  <2>2. f[d] = escrows[e].amount /\ \A c \in 1..MaxDisputes : c # d => f[c] = z[c]
    BY <1>1, <1>2, <2>1
  <2>3. Total(z, MaxDisputes) = 0 /\ z[d] = 0 /\ \A c \in 1..MaxDisputes : z[c] \in Nat
    BY <1>1, <2>1, TotalOfZeros
  <2>4. \A c \in 1..MaxDisputes : f[c] \in Nat /\ z[c] \in Nat
    BY <1>1, <2>2, <2>3, SystemFacts, InvFacts
  <2> HIDE DEF f, z
  <2>5. Total(f, MaxDisputes) = (Total(z, MaxDisputes) - z[d]) + f[d]
    BY <1>1, <2>1, <2>2, <2>4, TotalUpdate
  <2>6. QED
    BY <1>1, <1>4, <2>2, <2>3, <2>4, <2>5, <2>1
<1>5. QED
  BY <1>3, <1>4

\* The promise's view of an escrow in terms of its record and its history.
Viewed(e) ==
    /\ Held(e) + Stake(e) = Due(e)
    /\ PaidOut(e) - Stake(e) = flow[e].paidIn - Due(e)
    /\ Due(e) \in Nat /\ flow[e].paidIn \in Nat
    /\ escrows[e].status = "Pending" \/ InCourt(e) => Due(e) > 0 /\ ~(e > counter)
    /\ e > counter => flow[e].paidIn = 0

AllViewed == \A e \in Ids : Viewed(e)

LEMMA View == SystemInv => AllViewed
<1> SUFFICES ASSUME SystemInv, NEW e \in Ids PROVE Viewed(e)
  BY DEF AllViewed
<1>1. EscrowInv
  BY SystemFacts
<1>2. /\ Sound(escrows[e], flow[e]) /\ escrows[e].amount \in Nat
      /\ flow[e].paidIn \in Nat /\ flow[e].toAgent \in Nat /\ flow[e].toSender \in Nat
      /\ flow[e].toFees \in Nat /\ flow[e].toDispute \in Nat
  BY <1>1, InvFacts
<1>3. Stake(e) = IF InCourt(e) THEN escrows[e].amount ELSE 0
  BY StakeIs
<1>4. ASSUME InCourt(e) PROVE escrows[e].amount > 0
  <2>1. Linked(e) /\ link[e].contract = Court /\ D!Unsettled(link[e].id)
        /\ link[e].id \in D!DisputeIds /\ disputes[link[e].id].escrow = e /\ e # 0
    BY <1>4, SystemFacts DEF SystemInv, Linked, InCourt, Ids
  <2>2. Backed(link[e].id)
    BY <2>1 DEF SystemInv
  <2>3. QED
    BY <2>1, <2>2 DEF Backed
<1>5. ~(InCourt(e) /\ escrows[e].status = "Pending")
  BY DEF InCourt
<1>6. /\ Due(e) \in Nat
      /\ escrows[e].status = "Pending" \/ InCourt(e) => Due(e) > 0
  BY <1>2, <1>4 DEF Due, Sound
<1>7. Held(e) + Stake(e) = Due(e) /\ PaidOut(e) - Stake(e) = flow[e].paidIn - Due(e)
  BY <1>2, <1>3, <1>5 DEF Due, Held, PaidOut, Sound, Kept, Out
<1>8. ASSUME e > counter PROVE flow[e].paidIn = 0 /\ escrows[e].status = "None"
  BY <1>1, <1>8 DEF EscrowInv, Unused, NoEscrow, NoFlow
<1>9. QED
  BY <1>2, <1>6, <1>7, <1>8 DEF InCourt, Viewed

LEMMA NextView == SystemInv' => AllViewed'
BY View, PTL

Steady(e) ==
    /\ Phase(e)' = Phase(e)
    /\ Due(e)' = Due(e)
    /\ flow'[e].paidIn = flow[e].paidIn

LEMMA StutterSim ==
    ASSUME AllViewed, AllViewed', \A e \in Ids : Steady(e)
    PROVE  UNCHANGED Promise!promiseVars
<1>1. \A e \in Ids : /\ Phase(e)' = Phase(e)
                     /\ Held(e)' + Stake(e)' = Held(e) + Stake(e)
                     /\ PaidOut(e)' - Stake(e)' = PaidOut(e) - Stake(e)
  BY DEF Steady, AllViewed, Viewed
<1>2. QED
  BY <1>1 DEF Promise!promiseVars

LEMMA PayOutSim ==
    ASSUME AllViewed, AllViewed', NEW e \in Ids, \A f \in Ids \ {e} : Steady(f),
           Phase(e) = "held", flow'[e].paidIn = flow[e].paidIn,
           Due(e)' \in 0..(Due(e) - 1),
           Phase(e)' = IF Due(e)' = 0 THEN "closed" ELSE "held"
    PROVE  Promise!PayOut(e)
<1> DEFINE phase == [x \in Ids |-> Phase(x)]
           kept == [x \in Ids |-> Held(x) + Stake(x)]
           paid == [x \in Ids |-> PaidOut(x) - Stake(x)]
<1>1. \A f \in Ids : /\ phase[f] = Phase(f) /\ phase'[f] = Phase(f)'
                     /\ kept[f] = Due(f) /\ kept'[f] = Due(f)'
                     /\ paid[f] = flow[f].paidIn - Due(f)
                     /\ paid'[f] = flow'[f].paidIn - Due(f)'
                     /\ flow[f].paidIn \in Nat /\ Due(f) \in Nat
  BY DEF AllViewed, Viewed
<1>2. \A f \in Ids \ {e} : /\ Phase(f)' = Phase(f) /\ Due(f)' = Due(f)
                           /\ flow'[f].paidIn = flow[f].paidIn
  BY DEF Steady
<1>3. /\ DOMAIN phase = Ids /\ DOMAIN kept = Ids /\ DOMAIN paid = Ids
      /\ phase' = [x \in Ids |-> phase'[x]] /\ phase = [x \in Ids |-> phase[x]]
      /\ paid' = [x \in Ids |-> paid'[x]] /\ paid = [x \in Ids |-> paid[x]]
  OBVIOUS
<1>4. Promise!PayOut(e) <=>
          /\ phase[e] = "held"
          /\ kept'[e] \in 0..(kept[e] - 1)
          /\ paid' = [paid EXCEPT ![e] = @ + (kept[e] - kept'[e])]
          /\ phase' = [phase EXCEPT ![e] = IF kept'[e] = 0 THEN "closed" ELSE "held"]
          /\ \A f \in Ids \ {e} : kept'[f] = kept[f]
  BY DEF Promise!PayOut
<1> HIDE DEF phase, kept, paid
<1>5. phase' = [phase EXCEPT ![e] = IF kept'[e] = 0 THEN "closed" ELSE "held"]
  BY <1>1, <1>2, <1>3
<1>6. paid' = [paid EXCEPT ![e] = @ + (kept[e] - kept'[e])]
  <2>1. paid'[e] = paid[e] + (kept[e] - kept'[e])
    BY <1>1
  <2>2. QED
    BY <1>1, <1>2, <1>3, <2>1
<1>7. QED
  BY <1>1, <1>2, <1>4, <1>5, <1>6

LEMMA TopUpSim ==
    ASSUME AllViewed, AllViewed', NEW e \in Ids, \A f \in Ids \ {e} : Steady(f),
           Phase(e) = "held", Phase(e)' = "held", Due(e)' > Due(e),
           flow'[e].paidIn - Due(e)' = flow[e].paidIn - Due(e)
    PROVE  Promise!TopUp(e)
<1> DEFINE phase == [x \in Ids |-> Phase(x)]
           kept == [x \in Ids |-> Held(x) + Stake(x)]
           paid == [x \in Ids |-> PaidOut(x) - Stake(x)]
<1>1. \A f \in Ids : /\ phase[f] = Phase(f) /\ phase'[f] = Phase(f)'
                     /\ kept[f] = Due(f) /\ kept'[f] = Due(f)'
                     /\ paid[f] = flow[f].paidIn - Due(f)
                     /\ paid'[f] = flow'[f].paidIn - Due(f)'
  BY DEF AllViewed, Viewed
<1>2. \A f \in Ids \ {e} : /\ Phase(f)' = Phase(f) /\ Due(f)' = Due(f)
                           /\ flow'[f].paidIn = flow[f].paidIn
  BY DEF Steady
<1>3. /\ phase' = [x \in Ids |-> phase'[x]] /\ phase = [x \in Ids |-> phase[x]]
      /\ paid' = [x \in Ids |-> paid'[x]] /\ paid = [x \in Ids |-> paid[x]]
  OBVIOUS
<1>4. Promise!TopUp(e) <=>
          /\ phase[e] = "held"
          /\ kept'[e] > kept[e]
          /\ \A f \in Ids \ {e} : kept'[f] = kept[f]
          /\ phase' = phase /\ paid' = paid
  BY DEF Promise!TopUp
<1> HIDE DEF phase, kept, paid
<1>5. \A f \in Ids : phase'[f] = phase[f] /\ paid'[f] = paid[f]
  BY <1>1, <1>2
<1>6. phase' = phase /\ paid' = paid
  BY <1>3, <1>5
<1>7. QED
  BY <1>1, <1>2, <1>4, <1>6

LEMMA FundSim ==
    ASSUME AllViewed, AllViewed', NEW fresh \in SUBSET Ids, fresh # {},
           \A f \in Ids \ fresh : Steady(f),
           \A f \in fresh : /\ f > counter /\ Phase(f)' = "held"
                            /\ flow'[f].paidIn = Due(f)' /\ Due(f)' > 0
    PROVE  Promise!Fund(fresh)
<1> DEFINE phase == [x \in Ids |-> Phase(x)]
           kept == [x \in Ids |-> Held(x) + Stake(x)]
           paid == [x \in Ids |-> PaidOut(x) - Stake(x)]
<1>1. \A f \in Ids : /\ phase[f] = Phase(f) /\ phase'[f] = Phase(f)'
                     /\ kept[f] = Due(f) /\ kept'[f] = Due(f)'
                     /\ paid[f] = flow[f].paidIn - Due(f)
                     /\ paid'[f] = flow'[f].paidIn - Due(f)'
  BY DEF AllViewed, Viewed
<1>2. \A f \in Ids \ fresh : /\ Phase(f)' = Phase(f) /\ Due(f)' = Due(f)
                             /\ flow'[f].paidIn = flow[f].paidIn
  BY DEF Steady
<1>3. /\ phase' = [x \in Ids |-> phase'[x]]
      /\ paid' = [x \in Ids |-> paid'[x]] /\ paid = [x \in Ids |-> paid[x]]
  OBVIOUS
<1>4. Promise!Fund(fresh) <=>
          /\ fresh # {}
          /\ \A f \in fresh : phase[f] = "unborn"
          /\ phase' = [f \in Ids |-> IF f \in fresh THEN "held" ELSE phase[f]]
          /\ \A f \in fresh : kept'[f] > 0
          /\ \A f \in Ids \ fresh : kept'[f] = kept[f]
          /\ paid' = paid
  BY DEF Promise!Fund
<1>5. \A f \in fresh : /\ Phase(f) = "unborn" /\ flow[f].paidIn - Due(f) = 0
                       /\ flow'[f].paidIn - Due(f)' = 0 /\ Phase(f)' = "held"
  BY DEF AllViewed, Viewed, Phase, Due, IsPending
<1> HIDE DEF phase, kept, paid
<1>6. \A f \in Ids : paid'[f] = paid[f]
  BY <1>1, <1>2, <1>5
<1>7. paid' = paid
  BY <1>3, <1>6
<1>8. \A f \in Ids : phase'[f] = IF f \in fresh THEN "held" ELSE phase[f]
  BY <1>1, <1>2, <1>5
<1>9. phase' = [f \in Ids |-> IF f \in fresh THEN "held" ELSE phase[f]]
  BY <1>3, <1>8
<1>10. QED
  BY <1>1, <1>2, <1>4, <1>5, <1>7, <1>9

\* What a step of the system may do to the promise.
Simulated == [Promise!PromiseNext]_(Promise!promiseVars)

LEMMA AllSteady ==
    ASSUME AllViewed, AllViewed', \A e \in Ids : Steady(e)
    PROVE  Simulated
BY StutterSim DEF Simulated

\* An escrow whose record, key and history a step leaves alone.
LEMMA Aside ==
    ASSUME NEW e \in Ids, escrows'[e] = escrows[e], link'[e] = link[e], flow'[e] = flow[e],
           e > counter' <=> e > counter
    PROVE  Steady(e)
BY DEF Steady, Phase, Due, InCourt, IsPending

\* A step that rewrites one record and its history.
LEMMA OneRecord ==
    ASSUME EscrowInv, NEW e \in Ids, NEW r, Store(e, r), NEW f, flow' = [flow EXCEPT ![e] = f],
           counter' = counter, \A g \in Ids \ {e} : link'[g] = link[g]
    PROVE  escrows'[e] = r /\ flow'[e] = f /\ \A g \in Ids \ {e} : Steady(g)
<1>1. escrows \in [Ids -> EscrowRecord] /\ flow \in [Ids -> FlowRecord]
  BY DEF EscrowInv, EscrowTypeOK
<1>2. escrows'[e] = r /\ flow'[e] = f
  BY <1>1 DEF Store
<1>3. ASSUME NEW g \in Ids \ {e} PROVE Steady(g)
  <2>1. escrows'[g] = escrows[g] /\ flow'[g] = flow[g]
    BY <1>1 DEF Store
  <2>2. QED
    BY <2>1, Aside
<1>4. QED
  BY <1>2, <1>3

\* A step that settles an escrow, or leaves less of it.
LEMMA PaysOut ==
    ASSUME AllViewed, AllViewed', NEW e \in Ids, \A g \in Ids \ {e} : Steady(g),
           escrows[e].status = "Pending" \/ InCourt(e), counter' = counter,
           flow'[e].paidIn = flow[e].paidIn,
           \/ ~(escrows'[e].status = "Pending") /\ ~InCourt(e)'
           \/ /\ escrows[e].status = "Pending" /\ escrows'[e].status = "Pending"
              /\ escrows'[e].amount < escrows[e].amount
    PROVE  Simulated
<1>1. /\ Viewed(e) /\ Due(e) > 0 /\ Due(e) \in Nat /\ ~(e > counter)
      /\ Due(e)' \in Nat
      /\ escrows'[e].status = "Pending" \/ InCourt(e)' => Due(e)' > 0
  BY DEF AllViewed, Viewed
<1>2. Phase(e) = "held"
  BY <1>1 DEF Phase, IsPending
<1>3. Phase(e)' = IF Due(e)' = 0 THEN "closed" ELSE "held"
  BY <1>1 DEF Phase, Due, IsPending
<1>4. Due(e)' \in 0..(Due(e) - 1)
  <2>1. Due(e)' < Due(e)
    BY <1>1 DEF Due
  <2>2. QED
    BY <1>1, <2>1
<1>5. Promise!PayOut(e)
  BY <1>1, <1>2, <1>3, <1>4, PayOutSim
<1>6. QED
  BY <1>5 DEF Simulated, Promise!PromiseNext

\* A step that rewrites a record without touching what is due.
LEMMA NothingDue ==
    ASSUME AllViewed, AllViewed', NEW e \in Ids, \A g \in Ids \ {e} : Steady(g),
           counter' = counter, flow'[e].paidIn = flow[e].paidIn, Due(e)' = Due(e),
           (escrows'[e].status = "Pending" \/ InCourt(e)')
               <=> (escrows[e].status = "Pending" \/ InCourt(e))
    PROVE  Simulated
<1>1. Phase(e)' = Phase(e)
  BY DEF Phase, IsPending
<1>2. QED
  BY <1>1, AllSteady DEF Steady

LEMMA FundPromised ==
    ASSUME SystemInv, AllViewed, AllViewed', Fund
    PROVE  Simulated
<1>1. /\ EscrowInv /\ counter \in Nat /\ MaxEscrows \in Nat
      /\ escrows \in [Ids -> EscrowRecord] /\ flow \in [Ids -> FlowRecord]
  BY SystemFacts, ConstantFacts DEF EscrowInv, EscrowTypeOK
<1>2. ASSUME NEW s \in Accounts, NEW p \in Offers
      PROVE  /\ NewEscrow(s, p).status = "Pending" /\ NewEscrow(s, p).amount = p.amount
             /\ NewFlow(p).paidIn = p.amount
  BY DEF NewEscrow, NewFlow
<1>3. ASSUME NEW fresh \in SUBSET Ids, fresh # {}, \A g \in Ids \ fresh : Steady(g),
             \A g \in fresh : /\ g > counter /\ ~(g > counter')
                              /\ escrows'[g].status = "Pending"
                              /\ flow'[g].paidIn = escrows'[g].amount
      PROVE  Simulated
  <2>1. \A g \in fresh : Phase(g)' = "held" /\ Due(g)' = escrows'[g].amount
    BY <1>3 DEF Phase, Due, IsPending
  <2>2. \A g \in fresh : Due(g)' > 0
    BY <1>3 DEF AllViewed, Viewed
  <2>3. Promise!Fund(fresh)
    BY <1>3, <2>1, <2>2, FundSim
  <2>4. QED
    BY <2>3 DEF Simulated, Promise!PromiseNext
<1>4. ASSUME NEW s \in Accounts, NEW p \in Offers, CreateEscrow(s, p) PROVE Simulated
  <2> PICK n : n = counter + 1
    OBVIOUS
  <2>1. /\ n \in Ids /\ counter' = n /\ link' = link
        /\ escrows' = [escrows EXCEPT ![n] = NewEscrow(s, p)]
        /\ flow' = [flow EXCEPT ![n] = NewFlow(p)]
    BY <1>1, <1>4 DEF CreateEscrow, Store, Book, Ids
  <2>2. \A g \in Ids \ {n} : Steady(g)
    BY <1>1, <2>1, Aside DEF Ids
  <2>3. escrows'[n] = NewEscrow(s, p) /\ flow'[n] = NewFlow(p) /\ n > counter /\ ~(n > counter')
    BY <1>1, <2>1
  <2>4. QED
    <3> PICK fresh \in SUBSET Ids : fresh = {n}
      BY <2>1
    <3>1. QED
      BY <1>2, <1>3, <2>1, <2>2, <2>3
<1>5. ASSUME NEW s \in Accounts, NEW n \in 1..MaxBatch, NEW ps \in [1..n -> Offers],
             BatchCreateEscrow(s, n, ps)
      PROVE  Simulated
  <2> PICK fresh : fresh = counter + 1 .. counter + n
    OBVIOUS
  <2>1. /\ counter' = counter + n /\ link' = link /\ counter + n <= MaxEscrows
        /\ escrows' = [e \in Ids |-> IF e \in fresh THEN NewEscrow(s, ps[e - counter])
                                                    ELSE escrows[e]]
        /\ flow' = [e \in Ids |-> IF e \in fresh THEN NewFlow(ps[e - counter]) ELSE flow[e]]
    BY <1>5 DEF BatchCreateEscrow
  <2>2. fresh \in SUBSET Ids /\ fresh # {}
    <3>1. counter + 1 \in fresh
      BY <1>1
    <3>2. fresh \subseteq Ids
      BY <1>1, <2>1 DEF Ids
    <3>3. QED
      BY <3>1, <3>2
  <2>3. \A g \in Ids \ fresh : Steady(g)
    <3>1. SUFFICES ASSUME NEW g \in Ids \ fresh PROVE Steady(g)
      OBVIOUS
    <3>2. escrows'[g] = escrows[g] /\ flow'[g] = flow[g] /\ link'[g] = link[g]
      BY <2>1
    <3>3. g > counter' <=> g > counter
      BY <1>1, <2>1 DEF Ids
    <3>4. QED
      BY <3>2, <3>3, Aside
  <2>4. ASSUME NEW g \in fresh
        PROVE  /\ g > counter /\ ~(g > counter') /\ escrows'[g].status = "Pending"
               /\ flow'[g].paidIn = escrows'[g].amount
    <3>1. g \in Ids /\ g - counter \in 1..n /\ g > counter /\ ~(g > counter')
      BY <1>1, <2>1, <2>2
    <3>2. ps[g - counter] \in Offers
      BY <3>1
    <3>3. escrows'[g] = NewEscrow(s, ps[g - counter]) /\ flow'[g] = NewFlow(ps[g - counter])
      BY <2>1, <3>1
    <3>4. QED
      BY <1>2, <3>1, <3>2, <3>3
  <2>5. QED
    BY <1>3, <2>2, <2>3, <2>4
<1>6. ASSUME NEW e \in Ids, NEW amount \in Amounts, Deposit(e, amount) PROVE Simulated
  <2> DEFINE r == [escrows[e] EXCEPT !.amount = @ + amount]
             f == [flow[e] EXCEPT !.paidIn = @ + amount]
  <2>1. /\ Store(e, r) /\ flow' = [flow EXCEPT ![e] = f] /\ counter' = counter /\ link' = link
        /\ escrows[e].status = "Pending" /\ amount > 0 /\ amount \in Int
    BY <1>6, EscrowConstants DEF Deposit, Book, KeepsSettings, IsPending
  <2>2. /\ r.status = "Pending" /\ r.amount = escrows[e].amount + amount
        /\ f.paidIn = flow[e].paidIn + amount
    BY <1>1, <2>1 DEF EscrowRecord, FlowRecord
  <2> HIDE DEF r, f
  <2>3. escrows'[e] = r /\ flow'[e] = f /\ \A g \in Ids \ {e} : Steady(g)
    BY <1>1, <2>1, OneRecord
  <2>4. /\ Due(e) = escrows[e].amount /\ Due(e)' = escrows[e].amount + amount
        /\ Phase(e) = "held" /\ Phase(e)' = "held"
    BY <2>1, <2>2, <2>3 DEF Due, Phase, IsPending, AllViewed, Viewed
  <2>5. Due(e) \in Nat /\ flow[e].paidIn \in Nat
    BY DEF AllViewed, Viewed
  <2>6. Promise!TopUp(e)
    BY <2>1, <2>2, <2>3, <2>4, <2>5, TopUpSim
  <2>7. QED
    BY <2>6, SMTT(30) DEF Simulated, Promise!PromiseNext
<1>7. QED
  BY <1>4, <1>5, <1>6 DEF Fund

LEMMA SettlePromised ==
    ASSUME SystemInv, AllViewed, AllViewed', NEW e \in Ids, Settle(e)
    PROVE  Simulated
<1>1. /\ EscrowInv /\ escrows[e] \in EscrowRecord /\ flow[e] \in FlowRecord
      /\ escrows[e].amount \in Nat
  BY SystemFacts, InvFacts
<1>2. ASSUME NEW r, Store(e, r), NEW f, Book(e, f), KeepsSettings, IsPending(e),
             f.paidIn = flow[e].paidIn,
             \/ r.status \in {"Released", "Cancelled"}
             \/ r.status = "Pending" /\ r.amount < escrows[e].amount
      PROVE  Simulated
  <2>1. /\ escrows'[e] = r /\ flow'[e] = f /\ \A g \in Ids \ {e} : Steady(g)
        /\ counter' = counter
    BY <1>1, <1>2, OneRecord DEF Book, KeepsSettings
  <2>2. QED
    BY <1>2, <2>1, PaysOut DEF IsPending, InCourt
<1>3. ASSUME NEW amount, PayAgent(e, amount)
      PROVE  \E f : Book(e, f) /\ f.paidIn = flow[e].paidIn
  <2> PICK fee : fee = FeeOf(amount, escrows[e].feeBps)
    OBVIOUS
  <2> DEFINE f == [flow[e] EXCEPT !.toAgent = @ + (amount - fee), !.toFees = @ + fee]
  <2>1. Book(e, f)
    BY <1>3 DEF PayAgent
  <2>2. f.paidIn = flow[e].paidIn
    BY <1>1 DEF FlowRecord
  <2> HIDE DEF f
  <2>3. QED
    BY <2>1, <2>2
<1>4. ASSUME RefundSender(e) PROVE \E f : Book(e, f) /\ f.paidIn = flow[e].paidIn
  <2> DEFINE f == [flow[e] EXCEPT !.toSender = @ + escrows[e].amount]
  <2>1. Book(e, f)
    BY <1>4 DEF RefundSender
  <2>2. f.paidIn = flow[e].paidIn
    BY <1>1 DEF FlowRecord
  <2> HIDE DEF f
  <2>3. QED
    BY <2>1, <2>2
<1>5. ASSUME NEW a \in Accounts, ReleaseEscrow(a, e) PROVE Simulated
  <2> DEFINE r == [escrows[e] EXCEPT !.status = "Released", !.updatedAt = now]
  <2>1. PICK f : Book(e, f) /\ f.paidIn = flow[e].paidIn
    BY <1>3, <1>5 DEF ReleaseEscrow
  <2>2. Store(e, r) /\ IsPending(e) /\ KeepsSettings
    BY <1>5 DEF ReleaseEscrow
  <2>3. r.status = "Released"
    BY <1>1 DEF EscrowRecord
  <2> HIDE DEF r
  <2>4. QED
    BY <1>2, <2>1, <2>2, <2>3
<1>6. ASSUME NEW a \in Accounts, NEW amount \in Amounts, PartialRelease(a, e, amount)
      PROVE  Simulated
  <2> DEFINE r == [escrows[e] EXCEPT
                      !.amount = @ - amount,
                      !.status = IF amount = escrows[e].amount THEN "Released" ELSE @,
                      !.updatedAt = now]
  <2>1. PICK f : Book(e, f) /\ f.paidIn = flow[e].paidIn
    BY <1>3, <1>6, SMTT(30) DEF PartialRelease
  <2>2. Store(e, r) /\ IsPending(e) /\ KeepsSettings /\ amount > 0 /\ amount \in Int
    BY <1>6, EscrowConstants DEF PartialRelease
  <2>3. r.status \in {"Released", "Pending"} /\ r.amount = escrows[e].amount - amount
    BY <1>1, <2>2 DEF EscrowRecord, IsPending
  <2> HIDE DEF r
  <2>4. QED
    BY <1>1, <1>2, <2>1, <2>2, <2>3
<1>7. ASSUME NEW a \in Accounts, ConfirmDelivery(a, e) PROVE Simulated
  <2> DEFINE r == [escrows[e] EXCEPT !.confirmed = TRUE, !.updatedAt = now]
  <2>1. /\ escrows' = [escrows EXCEPT ![e] = r] /\ escrows[e].status = "Pending"
        /\ UNCHANGED <<counter, link, flow>>
    BY <1>7 DEF ConfirmDelivery, Store, IsPending, KeepsSettings
  <2>2. r.status = "Pending" /\ r.amount = escrows[e].amount
    BY <1>1, <2>1 DEF EscrowRecord
  <2> HIDE DEF r
  <2>3. escrows'[e] = r /\ \A g \in Ids \ {e} : escrows'[g] = escrows[g]
    BY <2>1, SystemFacts
  <2>4. \A g \in Ids \ {e} : Steady(g)
    BY <2>1, <2>3, Aside
  <2>5. QED
    BY <2>1, <2>2, <2>3, <2>4, NothingDue DEF Due
<1>8. ASSUME NEW a \in Accounts, CancelEscrow(a, e) PROVE Simulated
  <2> DEFINE r == [escrows[e] EXCEPT !.status = "Cancelled", !.updatedAt = now]
  <2>1. PICK f : Book(e, f) /\ f.paidIn = flow[e].paidIn
    BY <1>4, <1>8 DEF CancelEscrow
  <2>2. Store(e, r) /\ IsPending(e) /\ KeepsSettings
    BY <1>8 DEF CancelEscrow, RefundSender
  <2>3. r.status = "Cancelled"
    BY <1>1 DEF EscrowRecord
  <2> HIDE DEF r
  <2>4. QED
    BY <1>2, <2>1, <2>2, <2>3
<1>9. CASE ExpireEscrow(e)
  <2> DEFINE r == [escrows[e] EXCEPT !.status = "Cancelled"]
  <2>1. PICK f : Book(e, f) /\ f.paidIn = flow[e].paidIn
    BY <1>4, <1>9 DEF ExpireEscrow
  <2>2. Store(e, r) /\ IsPending(e) /\ KeepsSettings
    BY <1>9 DEF ExpireEscrow, RefundSender
  <2>3. r.status = "Cancelled"
    BY <1>1 DEF EscrowRecord
  <2> HIDE DEF r
  <2>4. QED
    BY <1>2, <2>1, <2>2, <2>3
<1>10. CASE CleanupEscrow(e)
  <2>1. /\ escrows' = [escrows EXCEPT ![e] = NoEscrow] /\ link' = [link EXCEPT ![e] = NoLink]
        /\ UNCHANGED <<counter, flow>> /\ escrows[e].status \in {"Released", "Cancelled"}
    BY <1>10 DEF CleanupEscrow, Store
  <2>2. /\ escrows'[e].status = "None"
        /\ \A g \in Ids \ {e} : escrows'[g] = escrows[g] /\ link'[g] = link[g]
    BY <2>1, SystemFacts DEF NoEscrow
  <2>3. \A g \in Ids \ {e} : Steady(g)
    BY <2>1, <2>2, Aside
  <2>4. QED
    BY <2>1, <2>2, <2>3, NothingDue DEF Due, InCourt
<1>11. QED
  BY <1>5, <1>6, <1>7, <1>8, <1>9, <1>10 DEF Settle

LEMMA AdministerPromised ==
    ASSUME SystemInv, AllViewed, AllViewed', Administer
    PROVE  Simulated
<1>1. ASSUME UNCHANGED <<escrows, counter, link, flow>> PROVE Simulated
  BY <1>1, Aside, AllSteady
<1>2. ASSUME NEW e \in Ids, NEW bps \in Fees, UpdateFee(e, bps) PROVE Simulated
  <2> DEFINE r == [escrows[e] EXCEPT !.feeBps = bps]
  <2>1. /\ escrows' = [escrows EXCEPT ![e] = r] /\ escrows[e].status = "Pending"
        /\ UNCHANGED <<counter, link, flow>> /\ escrows[e] \in EscrowRecord
    BY <1>2, SystemFacts DEF UpdateFee, Store, IsPending, KeepsSettings
  <2>2. r.status = "Pending" /\ r.amount = escrows[e].amount
    BY <2>1 DEF EscrowRecord
  <2> HIDE DEF r
  <2>3. escrows'[e] = r /\ \A g \in Ids \ {e} : escrows'[g] = escrows[g]
    BY <2>1, SystemFacts
  <2>4. \A g \in Ids \ {e} : Steady(g)
    BY <2>1, <2>3, Aside
  <2>5. QED
    BY <2>1, <2>2, <2>3, <2>4, NothingDue DEF Due
<1>3. ASSUME NEW amount \in Takings, WithdrawFees(amount) PROVE Simulated
  BY <1>1, <1>3 DEF WithdrawFees, KeepsSettings
<1>4. ASSUME NEW field, NEW value, Configure(field, value) PROVE Simulated
  BY <1>1, <1>4 DEF Configure
<1>5. CASE SetKycContract \/ ClearKycContract \/ Pause \/ Unpause
  BY <1>4, <1>5, Zenon DEF SetKycContract, ClearKycContract, Pause, Unpause
<1>6. QED
  BY <1>2, <1>3, <1>4, <1>5
     DEF Administer, SetFeeBps, SetCancelHoldPeriod, SetRetentionPeriod, SetDisputeContract

\* To the promise, handing the money to a court it does not know pays it out.
LEMMA OtherCourtPromised ==
    ASSUME SystemInv, AllViewed, AllViewed', NEW e \in Ids, OtherCourt(e)
    PROVE  Simulated
<1>1. /\ EscrowInv /\ escrows[e] \in EscrowRecord /\ flow[e] \in FlowRecord
      /\ link \in [Ids -> LinkRecord]
  BY SystemFacts, InvFacts
<1>2. ASSUME NEW a \in Accounts, config.court # Court, DisputeEscrow(a, e) PROVE Simulated
  <2> DEFINE r == [escrows[e] EXCEPT !.status = "UnderDispute", !.updatedAt = now]
             f == [flow[e] EXCEPT !.toDispute = @ + escrows[e].amount]
  <2>1. PICK id \in CaseIds : MarkDisputed(a, e, id)
    BY <1>2 DEF DisputeEscrow
  <2>2. /\ Store(e, r) /\ flow' = [flow EXCEPT ![e] = f] /\ counter' = counter
        /\ escrows[e].status = "Pending"
        /\ link' = [link EXCEPT ![e] = [contract |-> config.court, id |-> id]]
    BY <2>1 DEF MarkDisputed, Book, IsPending
  <2>3. r.status = "UnderDispute" /\ f.paidIn = flow[e].paidIn
    BY <1>1 DEF EscrowRecord, FlowRecord
  <2>4. link'[e].contract # Court /\ \A g \in Ids \ {e} : link'[g] = link[g]
    BY <1>1, <1>2, <2>2
  <2> HIDE DEF r, f
  <2>5. escrows'[e] = r /\ flow'[e] = f /\ \A g \in Ids \ {e} : Steady(g)
    BY <1>1, <2>2, <2>4, OneRecord
  <2>6. QED
    BY <2>2, <2>3, <2>4, <2>5, PaysOut DEF InCourt
<1>3. ASSUME NEW a \in Accounts, NEW other \in DisputeContracts \ {Court},
             CloseDisputedEscrow(other, e, a)
      PROVE  Simulated
  <2> DEFINE r == [escrows[e] EXCEPT
                      !.status = IF a = escrows[e].sender THEN "Cancelled" ELSE "Released",
                      !.updatedAt = now]
  <2>1. /\ escrows' = [escrows EXCEPT ![e] = r] /\ UNCHANGED <<counter, link, flow>>
        /\ escrows[e].status = "UnderDispute" /\ link[e].contract # Court
    BY <1>3 DEF CloseDisputedEscrow, CloseDisputed, Store
  <2>2. r.status \in {"Released", "Cancelled"}
    BY <1>1 DEF EscrowRecord
  <2> HIDE DEF r
  <2>3. escrows'[e] = r /\ \A g \in Ids \ {e} : escrows'[g] = escrows[g]
    BY <2>1, SystemFacts
  <2>4. \A g \in Ids \ {e} : Steady(g)
    BY <2>1, <2>3, Aside
  <2>5. QED
    BY <2>1, <2>2, <2>3, <2>4, NothingDue DEF Due, InCourt
<1>4. QED
  BY <1>2, <1>3 DEF OtherCourt

\* While it is disputed the court holds what the escrow held before.
LEMMA RaisePromised ==
    ASSUME SystemInv, AllViewed, AllViewed', NEW a \in Accounts, NEW e \in Ids, RaiseDispute(a, e)
    PROVE  Simulated
<1> DEFINE r == [escrows[e] EXCEPT !.status = "UnderDispute", !.updatedAt = now]
           f == [flow[e] EXCEPT !.toDispute = @ + escrows[e].amount]
<1>1. /\ EscrowInv /\ escrows[e] \in EscrowRecord /\ flow[e] \in FlowRecord
      /\ link \in [Ids -> LinkRecord]
  BY SystemFacts, InvFacts
<1>2. /\ Store(e, r) /\ flow' = [flow EXCEPT ![e] = f] /\ counter' = counter
      /\ escrows[e].status = "Pending"
      /\ link' = [link EXCEPT ![e] = [contract |-> Court, id |-> opened + 1]]
  BY DEF RaiseDispute, MarkDisputed, Book, IsPending
<1>3. /\ r.status = "UnderDispute" /\ r.amount = escrows[e].amount
      /\ f.paidIn = flow[e].paidIn
  BY <1>1 DEF EscrowRecord, FlowRecord
<1>4. link'[e].contract = Court /\ \A g \in Ids \ {e} : link'[g] = link[g]
  BY <1>1, <1>2
<1> HIDE DEF r, f
<1>5. escrows'[e] = r /\ flow'[e] = f /\ \A g \in Ids \ {e} : Steady(g)
  BY <1>1, <1>2, <1>4, OneRecord
<1>6. InCourt(e)' /\ Due(e)' = Due(e)
  BY <1>2, <1>3, <1>4, <1>5 DEF InCourt, Due
<1>7. QED
  BY <1>2, <1>3, <1>5, <1>6, NothingDue

\* The court's last step on a dispute pays out the escrow behind it.
LEMMA DecidePromised ==
    ASSUME SystemInv, AllViewed, AllViewed', NEW d \in D!DisputeIds, DecideAndNotify(d)
    PROVE  Simulated
<1>1. CASE UNCHANGED escrowVars
  BY <1>1, Aside, AllSteady DEF escrowVars
<1>2. ASSUME disputes[d].escrow # 0,
             CloseDisputed(Court, disputes[d].escrow, outcome'[d].winner)
      PROVE  Simulated
  <2>1. PICK e : e = disputes[d].escrow
    OBVIOUS
  <2>2. PICK w : w = outcome'[d].winner
    OBVIOUS
  <2>3. e \in Ids /\ EscrowInv /\ escrows[e] \in EscrowRecord
    <3>1. e \in 1..counter /\ 1..counter \subseteq Ids
      BY <1>2, <2>1, SystemFacts DEF SystemInv, Backed
    <3>2. QED
      BY <3>1, SystemFacts
  <2> DEFINE r == [escrows[e] EXCEPT
                      !.status = IF w = escrows[e].sender THEN "Cancelled" ELSE "Released",
                      !.updatedAt = now]
  <2>4. /\ escrows' = [escrows EXCEPT ![e] = r] /\ UNCHANGED <<counter, link, flow>>
        /\ InCourt(e)
    BY <1>2, <2>1, <2>2 DEF CloseDisputed, Store, InCourt
  <2>5. r.status \in {"Released", "Cancelled"}
    BY <2>3 DEF EscrowRecord
  <2> HIDE DEF r
  <2>6. escrows'[e] = r /\ \A g \in Ids \ {e} : escrows'[g] = escrows[g]
    BY <2>3, <2>4, SystemFacts
  <2>7. \A g \in Ids \ {e} : Steady(g)
    BY <2>4, <2>6, Aside
  <2>8. QED
    BY <2>3, <2>4, <2>5, <2>6, <2>7, PaysOut DEF InCourt
<1>3. QED
  BY <1>1, <1>2 DEF DecideAndNotify, NotifyEscrow, D!Unsettled

LEMMA NextPromised ==
    ASSUME SystemInv, SystemInv', [SystemNext]_systemVars
    PROVE  Simulated
<1>1. AllViewed /\ AllViewed'
  BY View, NextView
<1>2. ASSUME UNCHANGED escrowVars PROVE Simulated
  BY <1>1, <1>2, Aside, AllSteady DEF escrowVars
<1>3. CASE EscrowAlone
  BY <1>1, <1>3, FundPromised, AdministerPromised, SettlePromised, OtherCourtPromised
     DEF EscrowAlone
<1>4. CASE CourtAlone
  BY <1>2, <1>4 DEF CourtAlone
<1>5. CASE UNCHANGED systemVars
  BY <1>2, <1>5 DEF systemVars
<1>6. QED
  BY <1>1, <1>2, <1>3, <1>4, <1>5, RaisePromised, DecidePromised DEF SystemNext

LEMMA InitPromised == SystemInit => Promise!PromiseInit
<1> SUFFICES ASSUME SystemInit PROVE Promise!PromiseInit
  OBVIOUS
<1>1. AllViewed
  BY SystemInitInv, View
<1>2. ASSUME NEW e \in Ids
      PROVE  Phase(e) = "unborn" /\ Held(e) + Stake(e) = 0 /\ PaidOut(e) - Stake(e) = 0
  <2>1. e > counter /\ escrows[e].status = "None"
    BY DEF SystemInit, EscrowInit, NoEscrow, Ids
  <2>2. Due(e) = 0
    BY <2>1 DEF Due, InCourt
  <2>3. QED
    BY <1>1, <2>1, <2>2 DEF AllViewed, Viewed, Phase
<1>3. QED
  BY <1>2 DEF Promise!PromiseInit

\* For any number of escrows and disputes, the two contracts together implement
\* the promise: an escrow pays out exactly what was paid in, once, through
\* whatever releases, refunds, disputes and rulings it goes.
THEOREM ThePromiseIsKept == SystemSpec => PromiseKept
<1>1. SystemInit => Promise!PromiseInit
  BY InitPromised
<1>2. SystemInv /\ SystemInv' /\ [SystemNext]_systemVars
          => [Promise!PromiseNext]_(Promise!promiseVars)
  BY NextPromised DEF Simulated
<1>3. QED
  BY <1>1, <1>2, SystemInvariant, PTL DEF SystemSpec, PromiseKept, Promise!PromiseSpec

-----------------------------------------------------------------------------
(* Each contract beside the other does what its own specification lets it  *)
(* do, so that what was proved of each alone holds of the two together.    *)

LEMMA TimeStands ==
    ASSUME EscrowAlone PROVE now' = now
<1>1. ASSUME Fund PROVE now' = now
  BY <1>1 DEF Fund, CreateEscrow, BatchCreateEscrow, Deposit, KeepsSettings
<1>2. ASSUME NEW e, Settle(e) PROVE now' = now
  BY <1>2 DEF Settle, ReleaseEscrow, PartialRelease, ConfirmDelivery, CancelEscrow,
              ExpireEscrow, CleanupEscrow, RefundSender, KeepsSettings
<1>3. ASSUME NEW e, OtherCourt(e) PROVE now' = now
  BY <1>3 DEF OtherCourt, DisputeEscrow, CloseDisputedEscrow
<1>4. ASSUME NEW field, NEW value, Configure(field, value) PROVE now' = now
  BY <1>4 DEF Configure
<1>5. ASSUME Administer PROVE now' = now
  BY <1>4, <1>5, Zenon DEF Administer, UpdateFee, WithdrawFees, SetFeeBps, SetCancelHoldPeriod,
              SetRetentionPeriod, SetKycContract, ClearKycContract, SetDisputeContract,
              Pause, Unpause, KeepsSettings
<1>6. QED
  BY <1>1, <1>2, <1>3, <1>5 DEF EscrowAlone

\* A decision closes the escrow of its dispute in favour of an account, or
\* leaves the escrow contract alone.
LEMMA DecisionCloses ==
    ASSUME SystemInv, NEW d \in D!DisputeIds, DecideAndNotify(d)
    PROVE  \/ UNCHANGED vars
           \/ \E e \in Ids, w \in Accounts : CloseDisputedEscrow(Court, e, w)
<1>1. /\ DP!DisputeInv /\ d \in DP!DisputeIds
      /\ DP!Decide(d) /\ NotifyEscrow(d) /\ now' = now
  BY SystemFacts, SameDecide, SMTT(30) DEF DecideAndNotify
<1>2. DP!DisputeInv'
  BY <1>1, CourtFacts, DP!DecideStep, SMTT(30)
<1>3. \/ disputes'[d] = disputes[d] /\ outcome'[d] = outcome[d]
      \/ disputes'[d].status \in DP!Settlements
  BY <1>1, CourtFacts, DP!DecideFrame
<1>4. D!Unsettled(d)
  BY <1>1, CourtFacts, DP!DecideFrame DEF D!Unsettled, DP!Unsettled
<1>5. CASE UNCHANGED escrowVars
  BY <1>1, <1>5 DEF vars
<1>6. CASE ~UNCHANGED escrowVars
  <2>1. /\ disputes[d].escrow # 0
        /\ disputes'[d].status \notin {"Open", "Appealing", "UnderAppeal"}
        /\ CloseDisputed(Court, disputes[d].escrow, outcome'[d].winner)
    BY <1>1, <1>6 DEF NotifyEscrow, D!Unsettled
  <2>2. disputes'[d].status \in DP!Settlements
    BY <1>3, <1>4, <2>1 DEF D!Unsettled
  <2>3. disputes[d].escrow \in Ids
    BY <2>1, SystemFacts DEF SystemInv, Backed
  <2>4. outcome'[d].winner \in Accounts
    <3>1. DP!DisputeTypeOK'
      BY <1>2 DEF DP!DisputeInv, DP!DisputesFunded
    <3>2. QED
      BY <1>1, <2>2, <3>1 DEF DP!DisputeTypeOK, DP!DisputeIds
  <2>5. QED
    BY <1>1, <2>1, <2>3, <2>4 DEF CloseDisputedEscrow
<1>7. QED
  BY <1>5, <1>6

\* For the escrow contract the court is one of the contracts it may call and be
\* called by: whatever the two do together (dispute_escrow, close_disputed_escrow
\* included), the escrow contract does what EscrowSpec allows.  CaseIds are the
\* ids that a dispute contract may return; those of the court are among them.
THEOREM EscrowKeepsItsSpecification ==
    ASSUME 1..MaxDisputes \subseteq CaseIds
    PROVE  SystemSpec => EscrowSpec
<1>1. ASSUME SystemInv, [SystemNext]_systemVars PROVE [EscrowNext]_vars
  <2>1. CASE Tick /\ UNCHANGED <<escrowVars, courtVars>>
    BY <2>1 DEF EscrowNext
  <2>2. CASE EscrowAlone
    <3>1. Fund \/ (\E e \in Ids : Settle(e) \/ Litigate(e)) \/ Administer
      BY <2>2, CourtAssumption, SMTT(30) DEF EscrowAlone, OtherCourt, Litigate
    <3>2. QED
      BY <3>1 DEF EscrowNext
  <2>3. CASE CourtAlone
    BY <2>3 DEF CourtAlone, vars
  <2>4. ASSUME NEW a \in Accounts, NEW e \in Ids, RaiseDispute(a, e) PROVE EscrowNext
    <3>1. MarkDisputed(a, e, opened + 1) /\ now' = now /\ opened < MaxDisputes
      BY <2>4 DEF RaiseDispute, D!OpenEscrowDispute, D!Register
    <3>2. opened + 1 \in CaseIds
      <4>1. opened \in Nat /\ MaxDisputes \in Nat
        BY <1>1, SystemFacts, CourtFacts DEF DP!DisputeConstants
      <4>2. QED
        BY <3>1, <4>1
    <3>3. DisputeEscrow(a, e)
      BY <3>1, <3>2 DEF DisputeEscrow
    <3>4. QED
      BY <3>3 DEF EscrowNext, Litigate
  <2>5. ASSUME NEW d \in D!DisputeIds, DecideAndNotify(d) PROVE [EscrowNext]_vars
    BY <1>1, <2>5, DecisionCloses, CourtAssumption DEF EscrowNext, Litigate
  <2>6. CASE UNCHANGED systemVars
    BY <2>6 DEF systemVars, vars
  <2>7. QED
    BY <1>1, <2>1, <2>2, <2>3, <2>4, <2>5, <2>6 DEF SystemNext
<1>2. SystemInit => EscrowInit
  BY DEF SystemInit
<1>3. QED
  BY <1>1, <1>2, SystemInvariant, PTL DEF SystemSpec, EscrowSpec

\* What the escrow contract promises alone it promises beside the court: no
\* change of the fee reaches an agreed escrow, a pending escrow can always be
\* paid, and a release or a refund keeps to its window of time.
THEOREM EscrowPromisesHoldTogether ==
    ASSUME 1..MaxDisputes \subseteq CaseIds
    PROVE  SystemSpec =>
              /\ [](FeeNeverAboveAgreed /\ FlowsBalance /\ PendingIsFunded)
              /\ PayoutWindows
<1>1. SystemSpec => EscrowSpec
  BY EscrowKeepsItsSpecification
<1>2. QED
  BY <1>1, EscrowFeeBounded, EscrowFlowsBalance, EscrowPendingFunded, EscrowPayoutsInTime, PTL

\* For the court the escrow contract is one of the contracts that open disputes
\* with open_escrow_dispute: the disputes that dispute_escrow opens are about
\* accounts, and a callback changes nothing of the court's.  Backings are the
\* disputes an escrow contract may open, here any at all.
THEOREM CourtKeepsItsSpecification ==
    ASSUME DP!Backing \subseteq Backings
    PROVE  SystemSpec => DP!DisputeSpec
<1>1. ASSUME SystemInv, [SystemNext]_systemVars PROVE [DP!DisputeNext]_(DP!vars)
  <2>1. CASE Tick /\ UNCHANGED <<escrowVars, courtVars>>
    BY <2>1 DEF DP!DisputeNext, DP!Tick, Tick, courtVars, DP!disputeVars
  <2>2. CASE EscrowAlone
    <3>1. UNCHANGED DP!vars
      BY <2>2, TimeStands DEF EscrowAlone, courtVars, DP!vars, DP!disputeVars
    <3>2. QED
      BY <3>1
  <2>3. CASE CourtAlone
    <3>1. D!OpenFreeForm => DP!OpenFreeForm
      BY SameRegister DEF D!OpenFreeForm, DP!OpenFreeForm, D!OpenDispute, DP!OpenDispute
    <3>2. DP!DisputeStep /\ now' = now
      BY <2>3, <3>1, SameManage, SameArgue, SystemFacts, <1>1 DEF CourtAlone, DP!DisputeStep
    <3>3. QED
      BY <3>2 DEF DP!DisputeNext
  <2>4. ASSUME NEW a \in Accounts, NEW e \in Ids, RaiseDispute(a, e) PROVE DP!DisputeNext
    <3> DEFINE b == Backing(e)
    <3>1. /\ MarkDisputed(a, e, opened + 1) /\ now' = now /\ D!OpenEscrowDispute(a, b)
      BY <2>4 DEF RaiseDispute
    <3>2. b \in DP!Backing
      <4>1. escrows[e] \in EscrowRecord /\ escrows[e].amount \in Nat
        BY <1>1, SystemFacts, InvFacts
      <4>2. Parties(escrows[e]) \subseteq Accounts
        BY <1>1, <3>1 DEF SystemInv, Named, MarkDisputed, IsPending
      <4>3. escrows[e].confirmed \in BOOLEAN
        BY <4>1 DEF EscrowRecord
      <4>4. QED
        BY <4>1, <4>2, <4>3 DEF DP!Backing, Backing, Parties, Ids
    <3>3. DP!OpenEscrowDispute(a, b)
      <4> HIDE DEF b
      <4>1. QED
        BY <3>1, SameRegister DEF D!OpenEscrowDispute, DP!OpenEscrowDispute
    <3>4. DP!OpenBacked
      BY <3>2, <3>3 DEF DP!OpenBacked
    <3>5. QED
      BY <3>1, <3>4 DEF DP!DisputeNext, DP!DisputeStep
  <2>5. ASSUME NEW d \in D!DisputeIds, DecideAndNotify(d) PROVE DP!DisputeNext
    <3>1. d \in DP!DisputeIds /\ DP!Decide(d) /\ now' = now
      BY <1>1, <2>5, SystemFacts, SameDecide, SMTT(30) DEF DecideAndNotify
    <3>2. QED
      BY <3>1 DEF DP!DisputeNext, DP!DisputeStep
  <2>6. CASE UNCHANGED systemVars
    BY <2>6 DEF systemVars, courtVars, DP!vars, DP!disputeVars
  <2>7. QED
    BY <1>1, <2>1, <2>2, <2>3, <2>4, <2>5, <2>6 DEF SystemNext
<1>2. SystemInit => DP!DisputeInit
  BY SameInit DEF SystemInit
<1>3. QED
  BY <1>1, <1>2, SystemInvariant, PTL DEF SystemSpec, DP!DisputeSpec

\* What the court promises alone it promises to the parties of an escrow: a
\* recorded ruling is the one paid, no ruling pays before the appeal window is
\* over, and the panel pays only with more than its quorum on the winning side.
THEOREM CourtPromisesHoldTogether ==
    ASSUME DP!Backing \subseteq Backings
    PROVE  SystemSpec => []DP!RulingCarriedOut /\ DP!AppealWindowKept /\ DP!PanelDecides
<1>1. SystemSpec => DP!DisputeSpec
  BY CourtKeepsItsSpecification
<1>2. /\ DP!DisputeSpec => []DP!RulingCarriedOut
      /\ DP!DisputeSpec => DP!AppealWindowKept
      /\ DP!DisputeSpec => DP!PanelDecides
  BY CourtFacts, DP!RulingsAreCarriedOut, DP!AppealWindowIsKept, DP!PanelHasDecided
<1>3. QED
  BY <1>1, <1>2, PTL

-----------------------------------------------------------------------------
(* Every dispute can be settled.  As for the escrow contract alone, a      *)
(* settlement is a guard on the present state and a value for every        *)
(* variable in the next.                                                   *)

\* The money is in custody, and close_disputed_escrow does not panic.
CanSettle(d) ==
    /\ D!Stake(d) <= custody
    /\ disputes[d].escrow # 0 => InCourt(disputes[d].escrow)

\* What a settlement that stores record and pays to and feeTo does to every
\* variable of the two contracts.
Settled(d, record, to, feeTo) ==
    /\ disputes' = [disputes EXCEPT ![d] = record]
    /\ custody' = custody - D!Stake(d)
    /\ outcome' = [outcome EXCEPT ![d] = [winner |-> to, feeTo |-> feeTo]]
    /\ UNCHANGED <<opened, bench, votes>>
    /\ LET e == disputes[d].escrow
       IN  IF e = 0 THEN UNCHANGED escrowVars
           ELSE /\ Store(e, [escrows[e] EXCEPT
                       !.status = IF to = escrows[e].sender THEN "Cancelled" ELSE "Released",
                       !.updatedAt = now])
                /\ winner' = [winner EXCEPT ![e] = to]
                /\ UNCHANGED <<counter, fees, vault, config, link, flow>>

\* A step that does so pays the stake and notifies the escrow contract.
LEMMA SettledPays ==
    ASSUME SystemInv, NEW d \in D!DisputeIds, CanSettle(d),
           NEW record, NEW to, NEW feeTo, Settled(d, record, to, feeTo),
           record.amount = disputes[d].amount, record.fee = disputes[d].fee,
           record.status \notin {"Open", "Appealing", "UnderAppeal"}
    PROVE  /\ D!Pay(d, record, to, feeTo) /\ UNCHANGED <<opened, bench, votes>>
           /\ NotifyEscrow(d)
<1>1. D!Pay(d, record, to, feeTo) /\ UNCHANGED <<opened, bench, votes>>
  BY DEF CanSettle, Settled, D!Pay, D!Stake
<1>2. disputes'[d] = record /\ outcome'[d].winner = to
  <2>1. DOMAIN disputes = D!DisputeIds /\ DOMAIN outcome = D!DisputeIds
    BY SystemFacts
  <2>2. QED
    BY <2>1 DEF Settled
<1>3. NotifyEscrow(d)
  <2>1. CASE disputes[d].escrow = 0
    BY <2>1 DEF NotifyEscrow, Settled, D!Unsettled
  <2>2. CASE disputes[d].escrow # 0
    <3>1. CloseDisputed(Court, disputes[d].escrow, to)
      BY <2>2 DEF CanSettle, Settled, CloseDisputed, InCourt
    <3>2. QED
      BY <1>2, <2>2, <3>1 DEF NotifyEscrow, D!Unsettled
  <2>3. QED
    BY <2>1, <2>2
<1>4. QED
  BY <1>1, <1>3

\* The ways of SettlementOpen, as guards and next values: the claim after the
\* deadline, the finalization after the appeal window and the ruling on appeal
\* are steps of the two contracts whenever CanSettle holds.
LEMMA SettlementsAreGuarded ==
    ASSUME SystemInv, NEW d \in D!DisputeIds, CanSettle(d)
    PROVE  /\ /\ D!IsOpen(d) /\ now > disputes[d].deadline
              /\ Settled(d, [disputes[d] EXCEPT !.status = "Expired"],
                         D!Claimant(d), disputes[d].opener)
              => D!ClaimExpired(D!Claimant(d), d) /\ NotifyEscrow(d)
           /\ LET ruling == D!PendingRuling(d)
                  to == D!Payee(d, ruling)
              IN  /\ disputes[d].status = "Appealing" /\ now > disputes[d].appealBy
                  /\ Settled(d, [disputes[d] EXCEPT !.status = D!SettledAs(ruling)], to,
                             IF to = disputes[d].opener THEN to ELSE bench.distributor)
                  => D!FinalizeResolution(d) /\ NotifyEscrow(d)
           /\ LET q == D!RecordRuling(disputes[d], "Sender")
                  to == D!Payee(d, "Sender")
              IN  /\ disputes[d].status = "UnderAppeal"
                  /\ Settled(d, [q EXCEPT !.status = D!SettledAs("Sender")], to,
                             IF to = q.opener THEN to ELSE bench.distributor)
                  => D!ResolveAppeal(bench.super, d, "Sender") /\ NotifyEscrow(d)
<1>1. disputes[d] \in DP!DisputeRecord
  BY SystemFacts
<1> DEFINE Marked(r, s) == [r EXCEPT !.status = s]
<1>2. ASSUME NEW r \in DP!DisputeRecord, NEW s
      PROVE  Marked(r, s).amount = r.amount /\ Marked(r, s).fee = r.fee /\ Marked(r, s).status = s
  BY DEF DP!DisputeRecord
<1>3. \A ruling : D!SettledAs(ruling) \notin {"Open", "Appealing", "UnderAppeal"}
  BY DEF D!SettledAs
<1>4. ASSUME D!IsOpen(d), now > disputes[d].deadline,
             Settled(d, Marked(disputes[d], "Expired"), D!Claimant(d), disputes[d].opener)
      PROVE  D!ClaimExpired(D!Claimant(d), d) /\ NotifyEscrow(d)
  <2> DEFINE r == Marked(disputes[d], "Expired")
  <2>1. /\ r.amount = disputes[d].amount /\ r.fee = disputes[d].fee
        /\ r.status \notin {"Open", "Appealing", "UnderAppeal"}
    BY <1>1, <1>2
  <2> HIDE DEF r
  <2>2. Settled(d, r, D!Claimant(d), disputes[d].opener)
    BY <1>4 DEF r
  <2>3. /\ D!Pay(d, r, D!Claimant(d), disputes[d].opener)
        /\ UNCHANGED <<opened, bench, votes>> /\ NotifyEscrow(d)
    BY <2>1, <2>2, SettledPays
  <2>4. QED
    BY <1>4, <2>3 DEF D!ClaimExpired, r
<1>5. ASSUME NEW ruling, NEW q \in DP!DisputeRecord, NEW to, NEW feeTo,
             q.amount = disputes[d].amount, q.fee = disputes[d].fee,
             to = D!Payee(d, ruling), feeTo = (IF to = q.opener THEN to ELSE bench.distributor),
             Settled(d, Marked(q, D!SettledAs(ruling)), to, feeTo)
      PROVE  /\ D!Award(d, q, ruling) /\ UNCHANGED <<opened, bench, votes>>
             /\ NotifyEscrow(d)
  <2> DEFINE r == Marked(q, D!SettledAs(ruling))
  <2>1. /\ r.amount = disputes[d].amount /\ r.fee = disputes[d].fee
        /\ r.status \notin {"Open", "Appealing", "UnderAppeal"}
    BY <1>2, <1>3, <1>5
  <2> HIDE DEF r
  <2>2. Settled(d, r, to, feeTo)
    BY <1>5 DEF r
  <2>3. /\ D!Pay(d, r, to, feeTo)
        /\ UNCHANGED <<opened, bench, votes>> /\ NotifyEscrow(d)
    BY <2>1, <2>2, SettledPays
  <2>4. QED
    BY <1>5, <2>3 DEF D!Award, r
<1>6. D!RecordRuling(disputes[d], "Sender") \in DP!DisputeRecord
  BY <1>1 DEF D!RecordRuling, DP!DisputeRecord
<1>7. /\ D!RecordRuling(disputes[d], "Sender").amount = disputes[d].amount
      /\ D!RecordRuling(disputes[d], "Sender").fee = disputes[d].fee
  BY <1>1 DEF D!RecordRuling, DP!DisputeRecord
<1>8. QED
  BY <1>1, <1>4, <1>5, <1>6, <1>7
     DEF D!FinalizeResolution, D!ResolveAppeal, D!MayRule

\* Whatever has happened to the escrow meanwhile, and whether or not either
\* contract is paused, the money of a dispute that runs is there and its escrow
\* is still waiting for the outcome: no settlement can fail.
THEOREM SettlementsAreOpen ==
    SystemSpec => [](\A d \in D!DisputeIds : D!Unsettled(d) => CanSettle(d))
<1>1. ASSUME SystemInv, NEW d \in D!DisputeIds, D!Unsettled(d) PROVE CanSettle(d)
  <2>1. DP!DisputeInv /\ d \in DP!DisputeIds /\ DP!Unsettled(d)
    BY <1>1, SystemFacts DEF D!Unsettled, DP!Unsettled
  <2>2. DP!Stake(d) <= custody
    BY <2>1, CourtFacts, DP!StakeIsCovered
  <2>3. D!Stake(d) = DP!Stake(d)
    BY DEF D!Stake, DP!Stake, D!Charged, DP!Charged
  <2>4. disputes[d].escrow # 0 => InCourt(disputes[d].escrow)
    BY <1>1 DEF SystemInv, Backed
  <2>5. QED
    BY <2>2, <2>3, <2>4 DEF CanSettle
<1>2. SystemInv => \A d \in D!DisputeIds : D!Unsettled(d) => CanSettle(d)
  BY <1>1
<1>3. QED
  BY <1>2, SystemInvariant, PTL

=============================================================================
