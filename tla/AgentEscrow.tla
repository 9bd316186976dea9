---------------------------- MODULE AgentEscrow ----------------------------
(***************************************************************************)
(* The agent-escrow contract (contracts/agent-escrow/src/lib.rs): a sender *)
(* locks USDC for one agent, who is paid in one confirmation or in parts;  *)
(* a share of every fee goes to an insurance fund that pays senders what   *)
(* an agent had taken of a cancelled escrow.                               *)
(*                                                                         *)
(* As in Escrow, an entry point is one action and a panic is an action     *)
(* that is not enabled; users' own balances are not modelled.  Times are   *)
(* one flag per escrow: has expires_at passed?  withdraw_fees is written   *)
(* twice in the source; the two differ in who receives the money.          *)
(***************************************************************************)
EXTENDS Sums

CONSTANTS
    PayoutAgents,    \* addresses the admin may register
    NoAgent,         \* an unset address
    MaxPayouts,      \* bound: escrow ids are 1..MaxPayouts
    PayoutSums,      \* input: amounts of new escrows
    PayoutFees,      \* input: fee_bps of new escrows
    PartSums,        \* input: amounts of partial confirmations
    ShareRates,      \* input: insurance rates the admin tries
    MaxShareBps,     \* MAX_INSURANCE_CONTRIBUTION_BPS
    DefaultShareBps, \* the rate set by initialize
    FeeTakings       \* input: amounts the admin tries to withdraw

ASSUME AgentEscrowConstants ==
    /\ NoAgent \notin PayoutAgents
    /\ MaxPayouts \in Nat \ {0}
    /\ PayoutSums \subseteq Int /\ PartSums \subseteq Int /\ FeeTakings \subseteq Int
    /\ PayoutFees \subseteq Nat /\ ShareRates \subseteq Nat
    /\ MaxShareBps \in 0..10000 /\ DefaultShareBps \in 0..MaxShareBps

VARIABLES
    payouts,       \* DataKey::Escrow(id)
    created,       \* DataKey::Counter
    agents,        \* DataKey::RegisteredAgent and AgentList
    agentFees,     \* DataKey::Fees
    insuranceFund, \* DataKey::InsuranceFund
    shareBps,      \* DataKey::InsuranceContributionBps
    agentVault,    \* the contract's balance in the USDC token
    ledger         \* history of every escrow; insured is DataKey::InsurancePaid(id)

contractVars ==
    <<payouts, created, agents, agentFees, insuranceFund, shareBps, agentVault, ledger>>

PayoutIds == 1..MaxPayouts

NoPayout == [agent |-> NoAgent, amount |-> 0, feeBps |-> 0, status |-> "None",
             released |-> 0, expired |-> FALSE]
NoLedger == [toAgents |-> 0, toSender |-> 0, toFees |-> 0, insured |-> 0]

PayoutRecord ==
    [agent : PayoutAgents \cup {NoAgent}, amount : Nat, feeBps : 0..10000,
     status : {"None", "Pending", "Completed", "Cancelled"},
     released : Nat, expired : BOOLEAN]
LedgerRecord == [toAgents : Nat, toSender : Nat, toFees : Nat, insured : Nat]

AgentTypeOK ==
    /\ payouts \in [PayoutIds -> PayoutRecord]
    /\ created \in 0..MaxPayouts
    /\ agents \subseteq PayoutAgents
    /\ agentFees \in Nat /\ insuranceFund \in Nat /\ agentVault \in Nat
    /\ shareBps \in 0..MaxShareBps
    /\ ledger \in [PayoutIds -> LedgerRecord]

AgentInit ==
    /\ payouts = [e \in PayoutIds |-> NoPayout]
    /\ created = 0
    /\ agents = {}
    /\ agentFees = 0
    /\ insuranceFund = 0
    /\ shareBps = DefaultShareBps
    /\ agentVault = 0
    /\ ledger = [e \in PayoutIds |-> NoLedger]

-----------------------------------------------------------------------------
Bps(amount, bps) == (amount * bps) \div 10000

PayoutPending(e) == payouts[e].status = "Pending"

Remaining(e) == payouts[e].amount - payouts[e].released

Write(e, record, entry) ==
    /\ payouts' = [payouts EXCEPT ![e] = record]
    /\ ledger' = [ledger EXCEPT ![e] = entry]

\* The steps that neither create nor administer.
SameSettings == UNCHANGED <<created, agents, shareBps>>

\* book_fee: the insurance fund's share and the rest.
BookFee(fee) ==
    LET share == Bps(fee, shareBps)
    IN  /\ insuranceFund' = insuranceFund + share
        /\ agentFees' = agentFees + (fee - share)

\* The agent gets sum less the fee; released_amount counts the gross sum.
PayOut(e, sum, status) ==
    LET fee == Bps(sum, payouts[e].feeBps)
    IN  /\ sum - fee <= agentVault
        /\ agentVault' = agentVault - (sum - fee)
        /\ BookFee(fee)
        /\ Write(e, [payouts[e] EXCEPT !.released = @ + sum, !.status = status],
                    [ledger[e] EXCEPT !.toAgents = @ + (sum - fee), !.toFees = @ + fee])

\* The sender gets what was not released.
Refund(e) ==
    /\ Remaining(e) <= agentVault
    /\ agentVault' = agentVault - Remaining(e)
    /\ Write(e, [payouts[e] EXCEPT !.status = "Cancelled"],
                [ledger[e] EXCEPT !.toSender = @ + Remaining(e)])
    /\ SameSettings /\ UNCHANGED <<agentFees, insuranceFund>>

-----------------------------------------------------------------------------
CreatePayout(agent, sum, bps) ==
    /\ sum > 0 /\ bps <= 10000
    /\ agent \in agents
    /\ created < MaxPayouts
    /\ created' = created + 1
    /\ agentVault' = agentVault + sum
    /\ payouts' = [payouts EXCEPT ![created + 1] =
                     [agent |-> agent, amount |-> sum, feeBps |-> bps,
                      status |-> "Pending", released |-> 0, expired |-> FALSE]]
    /\ UNCHANGED <<agents, agentFees, insuranceFund, shareBps, ledger>>

\* Also after expires_at, and only while the agent is registered.
ConfirmPayout(agent, e) ==
    /\ agent = payouts[e].agent /\ agent \in agents
    /\ PayoutPending(e)
    /\ PayOut(e, Remaining(e), "Completed")
    /\ SameSettings

PartialConfirm(agent, e, sum) ==
    /\ sum > 0 /\ sum <= Remaining(e)
    /\ agent = payouts[e].agent /\ agent \in agents
    /\ PayoutPending(e)
    /\ ~payouts[e].expired
    /\ PayOut(e, sum, IF sum = Remaining(e) THEN "Completed" ELSE "Pending")
    /\ SameSettings

CancelPayout(e) ==
    /\ PayoutPending(e)
    /\ payouts[e].expired
    /\ Refund(e)

AdminRelease(e, toAgent) ==
    /\ PayoutPending(e)
    /\ \/ /\ toAgent /\ payouts[e].agent \in agents
          /\ PayOut(e, Remaining(e), "Completed")
          /\ SameSettings
       \/ ~toAgent /\ Refund(e)

\* Mutant of InsurancePayout: what was paid before is not subtracted.
InsurancePayoutAgain(e) ==
    LET loss == payouts[e].released
        sum == IF loss < insuranceFund THEN loss ELSE insuranceFund
    IN  /\ payouts[e].status = "Cancelled"
        /\ sum > 0 /\ sum <= agentVault
        /\ insuranceFund' = insuranceFund - sum
        /\ agentVault' = agentVault - sum
        /\ Write(e, payouts[e], [ledger[e] EXCEPT !.insured = @ + sum])
        /\ SameSettings /\ UNCHANGED agentFees

\* What a cancelled escrow's agent had been given is paid to the sender, once,
\* as far as the fund goes.
InsurancePayout(e) ==
    LET loss == payouts[e].released - ledger[e].insured
        sum == IF loss < insuranceFund THEN loss ELSE insuranceFund
    IN  /\ payouts[e].status = "Cancelled"
        /\ sum > 0 /\ sum <= agentVault
        /\ insuranceFund' = insuranceFund - sum
        /\ agentVault' = agentVault - sum
        /\ Write(e, payouts[e], [ledger[e] EXCEPT !.insured = @ + sum])
        /\ SameSettings /\ UNCHANGED agentFees

WithdrawAgentFees(sum) ==
    /\ sum > 0 /\ sum <= agentFees /\ sum <= agentVault
    /\ agentFees' = agentFees - sum
    /\ agentVault' = agentVault - sum
    /\ UNCHANGED <<payouts, created, agents, insuranceFund, shareBps, ledger>>

Reassign(e, agent) ==
    /\ PayoutPending(e)
    /\ agent # payouts[e].agent /\ agent \in agents
    /\ Write(e, [payouts[e] EXCEPT !.agent = agent], ledger[e])
    /\ SameSettings /\ UNCHANGED <<agentFees, insuranceFund, agentVault>>

SetAgents(a, b) ==
    /\ agents' = (agents \cup a) \ b
    /\ UNCHANGED <<payouts, created, agentFees, insuranceFund, shareBps, agentVault, ledger>>

RegisterAgent(agent) == SetAgents({agent}, {})
RemoveAgent(agent) == SetAgents({}, {agent})

SetInsuranceShare(bps) ==
    /\ bps <= MaxShareBps
    /\ shareBps' = bps
    /\ UNCHANGED <<payouts, created, agents, agentFees, insuranceFund, agentVault, ledger>>

\* Time: an escrow's expires_at passes.
PassExpiry(e) ==
    /\ PayoutPending(e) /\ ~payouts[e].expired
    /\ Write(e, [payouts[e] EXCEPT !.expired = TRUE], ledger[e])
    /\ SameSettings /\ UNCHANGED <<agentFees, insuranceFund, agentVault>>

\* Everything but what the backend submits (see AgentPayouts).
Direct ==
    \/ \E e \in PayoutIds :
          \/ \E a \in PayoutAgents, sum \in PartSums : PartialConfirm(a, e, sum)
          \/ \E toAgent \in BOOLEAN : AdminRelease(e, toAgent)
          \/ InsurancePayout(e)
          \/ \E a \in PayoutAgents : Reassign(e, a)
          \/ PassExpiry(e)
    \/ \E sum \in FeeTakings : WithdrawAgentFees(sum)
    \/ \E a \in PayoutAgents : RegisterAgent(a) \/ RemoveAgent(a)
    \/ \E bps \in ShareRates : SetInsuranceShare(bps)

Submitted ==
    \/ \E a \in PayoutAgents, sum \in PayoutSums, bps \in PayoutFees :
          CreatePayout(a, sum, bps)
    \/ \E e \in PayoutIds :
          \/ \E a \in PayoutAgents : ConfirmPayout(a, e)
          \/ CancelPayout(e)

AgentSpec == AgentInit /\ [][Direct \/ Submitted]_contractVars

-----------------------------------------------------------------------------
LockedIn == [e \in PayoutIds |-> IF PayoutPending(e) THEN Remaining(e) ELSE 0]

\* The contract's USDC is what it owes: the unreleased rest of the pending
\* escrows, the fees and the insurance fund.  The three share one balance, so
\* a share booked twice or a second refund would be paid from a stranger's
\* escrow.  (And the state has its types.)
AgentFundsCovered ==
    /\ AgentTypeOK
    /\ agentVault = Total(LockedIn, MaxPayouts) + agentFees + insuranceFund

\* By refund and insurance together, the sender of an escrow is never given
\* more than was paid in, and by refund and payout no more than that leaves
\* the escrow ("repeat calls cannot pay twice", SC-128).
NobodyPaidTwice ==
    \A e \in PayoutIds :
        LET p == payouts[e]
            l == ledger[e]
        IN  /\ l.toSender + l.insured <= p.amount
            /\ l.toAgents + l.toFees + l.toSender <= p.amount

\* Whatever the parts in which the agent confirms, the fees add up to no more
\* than the fee of one confirmation.
PartsNotDearer ==
    \A e \in PayoutIds :
        ledger[e].toFees <= Bps(payouts[e].amount, payouts[e].feeBps)

\* Nobody gets out of an escrow more than his part of it.
PartsOfTheWhole == NobodyPaidTwice /\ PartsNotDearer

\* The contract can pay what it owes, and owes nobody more than his part.
PayoutsSafe == AgentFundsCovered /\ PartsOfTheWhole
=============================================================================
