------------------------------- MODULE Escrow -------------------------------
(***************************************************************************)
(* The escrow contract (contracts/escrow/src/lib.rs): a sender locks USDC  *)
(* for a recipient, an agent pays the recipient in cash and is then paid   *)
(* from the escrow, less the platform fee.  A Soroban invocation either    *)
(* succeeds or leaves no trace, so every entry point is one action and a   *)
(* panic is an action that is not enabled.                                 *)
(*                                                                         *)
(* Users' own USDC balances are not modelled: a transfer into the contract *)
(* that the payer cannot cover is a failed transaction.  The contract's    *)
(* balance, vault, is, and a transfer out of it needs the funds to be      *)
(* there.                                                                  *)
(***************************************************************************)
EXTENDS LedgerClock, Sums

CONSTANTS
    Accounts,           \* the users: any of them may be sender, recipient, agent
    DisputeContracts,   \* addresses the admin may configure as dispute contract
    Nobody,             \* an unset address
    Verified,           \* external: accounts the kyc-attestation contract vouches for
    MaxEscrows,         \* bound: escrow ids are 1..MaxEscrows
    MaxBatch,           \* the batch size limit, 20 in the code
    MaxPaidIn,          \* bound: no deposit takes an escrow's funding beyond it
    MinAmount,          \* MIN_ESCROW_AMOUNT
    MaxAmount,          \* MAX_ESCROW_AMOUNT
    MaxFeeBps,          \* MAX_FEE_BPS
    MaxHoldSecs,        \* MAX_CANCEL_HOLD_SECS
    ExpirySecs,         \* DEFAULT_EXPIRY_SECS
    DefaultFeeBps,      \* DEFAULT_PLATFORM_FEE_BPS
    DefaultHoldSecs,    \* DEFAULT_CANCEL_HOLD_SECS
    DefaultRetention,   \* DEFAULT_RETENTION_SECS
    Offers,             \* input: the terms senders try, see Terms
    Amounts,            \* input: amounts tried by deposit and partial release
    Fees,               \* input: basis points the admin tries
    Periods,            \* input: durations the admin tries
    Takings,            \* input: amounts the admin tries to withdraw
    Settings,           \* input: the fields of config the admin changes
    CaseIds             \* input: ids a dispute contract may return

\* The parameters of one escrow, EscrowParams in the code.
Terms == [recipient : Accounts, agent : Accounts, amount : Int, maxFeeBps : Nat]

ASSUME EscrowConstants ==
    /\ Nobody \notin Accounts \cup DisputeContracts
    /\ Verified \subseteq Accounts
    /\ MaxEscrows \in Nat \ {0} /\ MaxBatch \in Nat \ {0}
    /\ MinAmount \in Nat \ {0} /\ MaxAmount \in Nat
    /\ MaxFeeBps \in 0..10000 /\ DefaultFeeBps \in 0..MaxFeeBps
    /\ ExpirySecs \in Nat /\ MaxHoldSecs \in 0..(ExpirySecs - 1)
    /\ DefaultHoldSecs \in 0..MaxHoldSecs /\ DefaultRetention \in Nat \ {0}
    /\ Offers \subseteq Terms /\ Amounts \subseteq Int /\ Takings \subseteq Int /\ MaxPaidIn \in Nat
    /\ Fees \subseteq Nat /\ Periods \subseteq Nat /\ CaseIds \subseteq Nat

VARIABLES
    escrows,    \* DataKey::Escrow(id); NoEscrow where storage has no record
    counter,    \* DataKey::EscrowCounter
    fees,       \* DataKey::AccumulatedFees
    vault,      \* the contract's balance in the USDC token
    config,     \* the admin's settings and the pause flag
    link,       \* DataKey::EscrowDispute(id)
    winner,     \* DataKey::EscrowDisputeWinner(id)
    flow        \* history: where every escrow's funds came from and went

escrowVars == <<escrows, counter, fees, vault, config, link, winner, flow>>
vars == <<now, escrowVars>>

Ids == 1..MaxEscrows

Statuses == {"None", "Pending", "Released", "Cancelled", "UnderDispute"}

NoEscrow ==
    [sender |-> Nobody, recipient |-> Nobody, agent |-> Nobody, amount |-> 0,
     feeBps |-> 0, status |-> "None", confirmed |-> FALSE,
     createdAt |-> 0, updatedAt |-> 0, expiresAt |-> 0]

NoLink == [contract |-> Nobody, id |-> 0]

NoFlow == [paidIn |-> 0, toAgent |-> 0, toSender |-> 0, toFees |-> 0,
           toDispute |-> 0, agreedBps |-> 0]

EscrowRecord ==
    [sender : Accounts \cup {Nobody}, recipient : Accounts \cup {Nobody},
     agent : Accounts \cup {Nobody}, amount : Nat, feeBps : 0..MaxFeeBps,
     status : Statuses, confirmed : BOOLEAN,
     createdAt : Nat, updatedAt : Nat, expiresAt : Nat]

ConfigRecord ==
    [feeBps : 0..MaxFeeBps, holdSecs : 0..MaxHoldSecs, retention : Nat,
     paused : BOOLEAN, kyc : BOOLEAN, court : DisputeContracts \cup {Nobody}]

LinkRecord == [contract : DisputeContracts \cup {Nobody}, id : Nat]

FlowRecord == [paidIn : Nat, toAgent : Nat, toSender : Nat,
               toFees : Nat, toDispute : Nat, agreedBps : Nat]

EscrowTypeOK ==
    /\ ClockTypeOK
    /\ escrows \in [Ids -> EscrowRecord]
    /\ counter \in 0..MaxEscrows
    /\ fees \in Nat
    /\ vault \in Nat
    /\ config \in ConfigRecord
    /\ link \in [Ids -> LinkRecord]
    /\ winner \in [Ids -> Accounts \cup {Nobody}]
    /\ flow \in [Ids -> FlowRecord]

-----------------------------------------------------------------------------
(* Helpers.                                                                *)

\* What the contract still holds for an escrow.  A released, cancelled or
\* disputed record keeps its last amount, but those funds have left.
Held(e) == IF escrows[e].status = "Pending" THEN escrows[e].amount ELSE 0

Owed == [e \in Ids |-> Held(e)]

\* (amount * bps) / 10_000 in integer arithmetic
FeeOf(amount, bps) == (amount * bps) \div 10000

\* is_kyc_verified: everyone passes while no KYC contract is configured.
KycVerified(a) == config.kyc => a \in Verified

\* The checks create_escrow and batch_create_escrow share.
ValidTerms(sender, p) ==
    /\ p.amount \in MinAmount..MaxAmount
    /\ config.feeBps <= p.maxFeeBps
    /\ sender # p.recipient /\ sender # p.agent /\ p.recipient # p.agent

NewEscrow(sender, p) ==
    [sender |-> sender, recipient |-> p.recipient, agent |-> p.agent,
     amount |-> p.amount, feeBps |-> config.feeBps, status |-> "Pending",
     confirmed |-> FALSE, createdAt |-> now, updatedAt |-> now,
     expiresAt |-> now + ExpirySecs]

NewFlow(p) == [paidIn |-> p.amount, toAgent |-> 0, toSender |-> 0, toFees |-> 0,
               toDispute |-> 0, agreedBps |-> config.feeBps]

IsPending(e) == escrows[e].status = "Pending"

EscrowExpired(e) == now >= escrows[e].expiresAt

\* storage().persistent().set(&DataKey::Escrow(e), record), with the fields of
\* the old record that the operation overwrites.
Store(e, record) == escrows' = [escrows EXCEPT ![e] = record]

Book(e, record) == flow' = [flow EXCEPT ![e] = record]

\* Operations that change records and money but no setting.
KeepsSettings == UNCHANGED <<now, counter, config, link, winner>>

-----------------------------------------------------------------------------
(* Funding.                                                                *)

CreateEscrow(sender, p) ==
    /\ ~config.paused
    /\ ValidTerms(sender, p)
    /\ KycVerified(sender) /\ KycVerified(p.agent)
    /\ counter < MaxEscrows
    /\ counter' = counter + 1
    /\ Store(counter + 1, NewEscrow(sender, p))
    /\ vault' = vault + p.amount
    /\ Book(counter + 1, NewFlow(p))
    /\ UNCHANGED <<now, fees, config, link, winner>>

\* Up to 20 escrows of one sender, funded by a single transfer.  The KYC
\* checks of create_escrow are not made here.
BatchCreateEscrow(sender, n, ps) ==
    LET fresh == counter + 1 .. counter + n
    IN  /\ ~config.paused
        /\ n <= MaxBatch
        /\ \A i \in 1..n : ValidTerms(sender, ps[i])
        /\ counter + n <= MaxEscrows
        /\ counter' = counter + n
        /\ escrows' = [e \in Ids |-> IF e \in fresh
                                     THEN NewEscrow(sender, ps[e - counter])
                                     ELSE escrows[e]]
        /\ vault' = vault + Total([i \in 1..n |-> ps[i].amount], n)
        /\ flow' = [e \in Ids |-> IF e \in fresh THEN NewFlow(ps[e - counter])
                                                 ELSE flow[e]]
        /\ UNCHANGED <<now, fees, config, link, winner>>

\* Anyone may top up a pending escrow; updated_at is not touched.
Deposit(e, amount) ==
    /\ ~config.paused
    /\ amount > 0 /\ flow[e].paidIn + amount <= MaxPaidIn
    /\ IsPending(e)
    /\ ~EscrowExpired(e)
    /\ vault' = vault + amount
    /\ Store(e, [escrows[e] EXCEPT !.amount = @ + amount])
    /\ Book(e, [flow[e] EXCEPT !.paidIn = @ + amount])
    /\ KeepsSettings /\ UNCHANGED fees

-----------------------------------------------------------------------------
(* Paying out to the agent.                                                *)

\* Mutant: the agent is paid the gross amount and the fee is booked as well.
PayAgentGross(e, amount) ==
    LET fee == FeeOf(amount, escrows[e].feeBps)
    IN  /\ amount - fee > 0
        /\ amount <= vault
        /\ fees' = fees + fee
        /\ vault' = vault - amount
        /\ Book(e, [flow[e] EXCEPT !.toAgent = @ + (amount - fee),
                                   !.toFees = @ + fee])

\* The tail release_escrow and partial_release share: the fee on amount is
\* booked, the rest is transferred to the agent.
PayAgent(e, amount) ==
    LET fee == FeeOf(amount, escrows[e].feeBps)
    IN  /\ amount - fee > 0
        /\ amount - fee <= vault
        /\ fees' = fees + fee
        /\ vault' = vault - (amount - fee)
        /\ Book(e, [flow[e] EXCEPT !.toAgent = @ + (amount - fee),
                                   !.toFees = @ + fee])

\* Mutant: pausing also blocks releases.
ReleaseUnlessPaused(agent, e) ==
    /\ ~config.paused
    /\ agent = escrows[e].agent
    /\ IsPending(e)
    /\ ~EscrowExpired(e)
    /\ PayAgent(e, escrows[e].amount)
    /\ Store(e, [escrows[e] EXCEPT !.status = "Released", !.updatedAt = now])
    /\ KeepsSettings

ReleaseEscrow(agent, e) ==
    /\ agent = escrows[e].agent
    /\ IsPending(e)
    /\ ~EscrowExpired(e)
    /\ PayAgent(e, escrows[e].amount)
    /\ Store(e, [escrows[e] EXCEPT !.status = "Released", !.updatedAt = now])
    /\ KeepsSettings

\* Mutant: the last chunk leaves the escrow pending.
PartialReleaseStaysPending(agent, e, amount) ==
    /\ amount > 0
    /\ agent = escrows[e].agent
    /\ IsPending(e)
    /\ ~EscrowExpired(e)
    /\ amount <= escrows[e].amount
    /\ PayAgent(e, amount)
    /\ Store(e, [escrows[e] EXCEPT !.amount = @ - amount, !.updatedAt = now])
    /\ KeepsSettings

PartialRelease(agent, e, amount) ==
    /\ amount > 0
    /\ agent = escrows[e].agent
    /\ IsPending(e)
    /\ ~EscrowExpired(e)
    /\ amount <= escrows[e].amount
    /\ PayAgent(e, amount)
    /\ Store(e, [escrows[e] EXCEPT
                    !.amount = @ - amount,
                    !.status = IF amount = escrows[e].amount THEN "Released" ELSE @,
                    !.updatedAt = now])
    /\ KeepsSettings

\* The agent states that the cash was handed over.
ConfirmDelivery(agent, e) ==
    /\ agent = escrows[e].agent
    /\ IsPending(e)
    /\ ~escrows[e].confirmed
    /\ Store(e, [escrows[e] EXCEPT !.confirmed = TRUE, !.updatedAt = now])
    /\ KeepsSettings /\ UNCHANGED <<fees, vault, flow>>

-----------------------------------------------------------------------------
(* Refunding the sender.                                                   *)

RefundSender(e) ==
    /\ escrows[e].amount <= vault
    /\ vault' = vault - escrows[e].amount
    /\ Book(e, [flow[e] EXCEPT !.toSender = @ + escrows[e].amount])
    /\ KeepsSettings /\ UNCHANGED fees

CancelEscrow(sender, e) ==
    /\ sender = escrows[e].sender
    /\ IsPending(e)
    /\ ~escrows[e].confirmed
    /\ now >= escrows[e].createdAt + config.holdSecs
    /\ Store(e, [escrows[e] EXCEPT !.status = "Cancelled", !.updatedAt = now])
    /\ RefundSender(e)

\* Mutant: expires one second early, when the agent's window has just closed.
ExpireAtExpiry(e) ==
    /\ IsPending(e)
    /\ now >= escrows[e].expiresAt
    /\ Store(e, [escrows[e] EXCEPT !.status = "Cancelled"])
    /\ RefundSender(e)

\* Permissionless.  Refunds even a confirmed escrow and leaves updated_at as
\* it was.
ExpireEscrow(e) ==
    /\ IsPending(e)
    /\ now > escrows[e].expiresAt
    /\ Store(e, [escrows[e] EXCEPT !.status = "Cancelled"])
    /\ RefundSender(e)

-----------------------------------------------------------------------------
(* Disputes.  What the dispute contract does in the same transaction is    *)
(* its own module's business; here it returns an id when it accepts a      *)
(* dispute, and later reports any of the accounts as the winner.           *)

\* Mutant: the funds leave for the dispute contract, the record stays pending.
MarkDisputedOnlyMoves(caller, e, id) ==
    /\ config.court # Nobody
    /\ caller \in {escrows[e].sender, escrows[e].recipient}
    /\ IsPending(e)
    /\ escrows[e].amount <= vault
    /\ vault' = vault - escrows[e].amount
    /\ link' = [link EXCEPT ![e] = [contract |-> config.court, id |-> id]]
    /\ Book(e, [flow[e] EXCEPT !.toDispute = @ + escrows[e].amount])
    /\ UNCHANGED <<escrows, counter, fees, config, winner>>

MarkDisputed(caller, e, id) ==
    /\ config.court # Nobody
    /\ caller \in {escrows[e].sender, escrows[e].recipient}
    /\ IsPending(e)
    /\ escrows[e].confirmed => caller # escrows[e].sender
    /\ escrows[e].amount <= vault
    /\ vault' = vault - escrows[e].amount
    /\ Store(e, [escrows[e] EXCEPT !.status = "UnderDispute", !.updatedAt = now])
    /\ link' = [link EXCEPT ![e] = [contract |-> config.court, id |-> id]]
    /\ Book(e, [flow[e] EXCEPT !.toDispute = @ + escrows[e].amount])
    /\ UNCHANGED <<counter, fees, config, winner>>

DisputeEscrow(caller, e) ==
    /\ \E id \in CaseIds : MarkDisputed(caller, e, id)
    /\ UNCHANGED now

\* Mutant: the winner is recorded, the escrow stays under dispute.
CloseDisputedKeepsStatus(contract, e, w) ==
    /\ link[e].contract = contract
    /\ escrows[e].status = "UnderDispute"
    /\ winner' = [winner EXCEPT ![e] = w]
    /\ UNCHANGED <<escrows, counter, fees, vault, config, link, flow>>

\* Mutant: only a recipient that wins counts as released.
CloseDisputedByRecipient(contract, e, w) ==
    /\ link[e].contract = contract
    /\ escrows[e].status = "UnderDispute"
    /\ Store(e, [escrows[e] EXCEPT
                    !.status = IF w = escrows[e].recipient THEN "Released" ELSE "Cancelled",
                    !.updatedAt = now])
    /\ winner' = [winner EXCEPT ![e] = w]
    /\ UNCHANGED <<counter, fees, vault, config, link, flow>>

CloseDisputed(contract, e, w) ==
    /\ link[e].contract = contract
    /\ escrows[e].status = "UnderDispute"
    /\ Store(e, [escrows[e] EXCEPT
                    !.status = IF w = escrows[e].sender THEN "Cancelled" ELSE "Released",
                    !.updatedAt = now])
    /\ winner' = [winner EXCEPT ![e] = w]
    /\ UNCHANGED <<counter, fees, vault, config, link, flow>>

CloseDisputedEscrow(contract, e, w) ==
    /\ CloseDisputed(contract, e, w)
    /\ UNCHANGED now

-----------------------------------------------------------------------------
(* Archiving and administration.                                           *)

\* Mutant: a disputed escrow counts as settled.
CleanupUnlessPending(e) ==
    /\ escrows[e].status \in {"Released", "Cancelled", "UnderDispute"}
    /\ now >= escrows[e].updatedAt + config.retention
    /\ Store(e, NoEscrow)
    /\ link' = [link EXCEPT ![e] = NoLink]
    /\ winner' = [winner EXCEPT ![e] = Nobody]
    /\ UNCHANGED <<now, counter, fees, vault, config, flow>>

\* Permissionless removal of a settled record and of its dispute keys.
CleanupEscrow(e) ==
    /\ escrows[e].status \in {"Released", "Cancelled"}
    /\ now >= escrows[e].updatedAt + config.retention
    /\ Store(e, NoEscrow)
    /\ link' = [link EXCEPT ![e] = NoLink]
    /\ winner' = [winner EXCEPT ![e] = Nobody]
    /\ UNCHANGED <<now, counter, fees, vault, config, flow>>

\* Mutant: the fee of a funded escrow may be raised up to the maximum.
UpdateFeeUpwards(e, bps) ==
    /\ bps <= MaxFeeBps
    /\ IsPending(e)
    /\ Store(e, [escrows[e] EXCEPT !.feeBps = bps])
    /\ KeepsSettings /\ UNCHANGED <<fees, vault, flow>>

\* The fee of a pending escrow may only go down (#1365).
UpdateFee(e, bps) ==
    /\ bps <= MaxFeeBps
    /\ IsPending(e)
    /\ bps <= escrows[e].feeBps
    /\ Store(e, [escrows[e] EXCEPT !.feeBps = bps])
    /\ KeepsSettings /\ UNCHANGED <<fees, vault, flow>>

\* Mutant: the withdrawal is checked against the balance, not against the fees.
WithdrawFromBalance(amount) ==
    /\ amount > 0
    /\ amount <= vault
    /\ fees' = fees - amount
    /\ vault' = vault - amount
    /\ KeepsSettings /\ UNCHANGED <<escrows, flow>>

WithdrawFees(amount) ==
    /\ amount > 0
    /\ amount <= fees
    /\ amount <= vault
    /\ fees' = fees - amount
    /\ vault' = vault - amount
    /\ KeepsSettings /\ UNCHANGED <<escrows, flow>>

Configure(field, value) ==
    /\ field \in Settings
    /\ config' = [config EXCEPT ![field] = value]
    /\ UNCHANGED <<now, escrows, counter, fees, vault, link, winner, flow>>

SetFeeBps(bps) == bps <= MaxFeeBps /\ Configure("feeBps", bps)

\* Mutant: the hold period has no upper bound.
SetAnyHoldPeriod(secs) == Configure("holdSecs", secs)

SetCancelHoldPeriod(secs) == secs <= MaxHoldSecs /\ Configure("holdSecs", secs)

SetRetentionPeriod(secs) == secs > 0 /\ Configure("retention", secs)

SetKycContract == Configure("kyc", TRUE)

ClearKycContract == Configure("kyc", FALSE)

SetDisputeContract(c) == Configure("court", c)

Pause == Configure("paused", TRUE)

Unpause == Configure("paused", FALSE)

-----------------------------------------------------------------------------
(* Behaviours.                                                             *)

EscrowInit ==
    /\ ClockInit
    /\ escrows = [e \in Ids |-> NoEscrow]
    /\ counter = 0
    /\ fees = 0
    /\ vault = 0
    /\ config = [feeBps |-> DefaultFeeBps, holdSecs |-> DefaultHoldSecs,
                 retention |-> DefaultRetention, paused |-> FALSE,
                 kyc |-> FALSE, court |-> Nobody]
    /\ link = [e \in Ids |-> NoLink]
    /\ winner = [e \in Ids |-> Nobody]
    /\ flow = [e \in Ids |-> NoFlow]

Fund ==
    \/ \E s \in Accounts, p \in Offers : CreateEscrow(s, p)
    \/ \E s \in Accounts, n \in 1..MaxBatch :
          \E ps \in [1..n -> Offers] : BatchCreateEscrow(s, n, ps)
    \/ \E e \in Ids, amount \in Amounts : Deposit(e, amount)

Settle(e) ==
    \/ \E a \in Accounts :
          \/ ReleaseEscrow(a, e)
          \/ \E amount \in Amounts : PartialRelease(a, e, amount)
          \/ ConfirmDelivery(a, e)
          \/ CancelEscrow(a, e)
    \/ ExpireEscrow(e)
    \/ CleanupEscrow(e)

Litigate(e) ==
    \E a \in Accounts :
        \/ DisputeEscrow(a, e)
        \/ \E c \in DisputeContracts : CloseDisputedEscrow(c, e, a)

Administer ==
    \/ \E e \in Ids, bps \in Fees : UpdateFee(e, bps)
    \/ \E amount \in Takings : WithdrawFees(amount)
    \/ \E bps \in Fees : SetFeeBps(bps)
    \/ \E secs \in Periods : SetCancelHoldPeriod(secs) \/ SetRetentionPeriod(secs)
    \/ SetKycContract
    \/ ClearKycContract
    \/ \E c \in DisputeContracts : SetDisputeContract(c)
    \/ Pause
    \/ Unpause

EscrowNext ==
    \/ Tick /\ UNCHANGED escrowVars
    \/ Fund
    \/ \E e \in Ids : Settle(e) \/ Litigate(e)
    \/ Administer

EscrowSpec == EscrowInit /\ [][EscrowNext]_vars
-----------------------------------------------------------------------------
(* Properties.                                                             *)

\* What has left the escrow for good.
PaidOut(e) == flow[e].toAgent + flow[e].toSender + flow[e].toFees + flow[e].toDispute

\* The contract's USDC balance is exactly what it owes: the pending escrows
\* and the fees not yet withdrawn.  Every entry point moves tokens and records
\* separately; an amount refunded twice, a disputed escrow paid again or a fee
\* booked but also paid out would be taken from another user's escrow.
Solvent == vault = Total(Owed, MaxEscrows) + fees

\* Per escrow nothing is lost or created on any path: what was paid in is
\* still held or went to the agent, the sender, the fees or the dispute
\* contract, also after deposits, partial releases and archiving.
FlowsBalance == \A e \in Ids : flow[e].paidIn = Held(e) + PaidOut(e)

\* Over all partial releases and the final one the platform never takes more
\* than the rate the sender accepted at creation (#1365), whatever the admin
\* does to the escrow's fee or the platform fee in between.
FeeNeverAboveAgreed ==
    \A e \in Ids :
        flow[e].toFees * 10000 <= flow[e].agreedBps * (flow[e].toFees + flow[e].toAgent)

\* A pending escrow can never be closed with an empty balance: dispute_escrow
\* passes the amount to open_escrow_dispute, which rejects amounts <= 0, so an
\* escrow drained by partial releases must not stay pending.
PendingIsFunded == \A e \in Ids : IsPending(e) => escrows[e].amount > 0

\* The agent is paid only before the expiry, and once it has confirmed the
\* cash payout the sender gets the money back only after the expiry.
PayoutWindows ==
    [][\A e \in Ids :
          /\ flow'[e].toAgent # flow[e].toAgent => now < escrows[e].expiresAt
          /\ flow'[e].toSender # flow[e].toSender /\ escrows[e].confirmed
                => now > escrows[e].expiresAt]_vars

\* "Must stay below the escrow expiry so the sender always gets a cancel
\* window before expiry" (lib.rs:247): whatever hold periods the admin sets
\* and whether or not the contract is paused, a sender whose agent has not
\* confirmed can cancel from MAX_CANCEL_HOLD_SECS after creation.
CancelWindow ==
    \A e \in Ids :
        IsPending(e) /\ ~escrows[e].confirmed
            /\ now >= escrows[e].createdAt + MaxHoldSecs
        => ENABLED CancelEscrow(escrows[e].sender, e)

\* Pausing blocks only entry points that move funds in (governance.rs:136):
\* a pending escrow can always be released by its agent or expired by anyone,
\* except in the one second now = expires_at, when neither comparison holds.
ExitsOpen ==
    \A e \in Ids :
        IsPending(e) /\ now # escrows[e].expiresAt
        => ENABLED (ReleaseEscrow(escrows[e].agent, e) \/ ExpireEscrow(e))

\* set_kyc_contract is documented as "enabling KYC checks on escrow creation"
\* (lib.rs:1434): while a KYC contract is set, an escrow is created only for a
\* verified sender and a verified agent.
KycOnCreation ==
    [][\A e \in Ids :
          escrows[e].status = "None" /\ escrows'[e].status = "Pending" /\ config.kyc
          => escrows'[e].sender \in Verified /\ escrows'[e].agent \in Verified]_vars
=============================================================================
