------------------------- MODULE DisputeResolution -------------------------
(***************************************************************************)
(* The dispute-resolution contract (contracts/dispute-resolution/src).     *)
(* It holds the USDC of a dispute until an arbitrator's ruling survives    *)
(* its appeal window, the super-arbitrator decides an appeal, a panel      *)
(* reaches its quorum, or the deadline passes.                             *)
(*                                                                         *)
(* As in Escrow, an entry point is one action.  A dispute backed by an     *)
(* escrow is opened by the escrow contract, which has sent the amount, and *)
(* is reported back to it on settlement: EscrowDisputes joins the two.     *)
(***************************************************************************)
EXTENDS LedgerClock, Sums, FiniteSets

CONSTANTS
    Accounts,           \* the users
    Officials,          \* addresses the admin appoints: arbitrators, fee receivers
    Nobody,             \* an unset address
    Admin, Arbitrator, SuperArbitrator,    \* the arguments of initialize
    MaxDisputes,        \* bound: dispute ids are 1..MaxDisputes
    DeadlineSecs,       \* RESOLUTION_DEADLINE_SECS
    AppealSecs,         \* APPEAL_WINDOW_SECS
    MaxArbitrators,     \* MAX_ARBITRATORS
    DefaultQuorumBps,   \* DEFAULT_QUORUM_BPS
    DefaultFilingFee,   \* the filing fee set by initialize
    MaxFilingFee,       \* the limit in update_filing_fee
    Claims,             \* input: free-form disputes, see Claim
    Backings,           \* input: disputes an escrow contract may push, see Backing
    Witnesses,          \* input: the accounts that submit evidence
    FilingFees,         \* input: filing fees the admin tries; the code takes negative ones
    Quorums,            \* input: quorum thresholds the admin tries
    Appointments        \* input: the fields of bench the admin changes

Claim == [sender : Accounts, recipient : Accounts, amount : Int]

Backing == [sender : Accounts, recipient : Accounts, agent : Accounts, amount : Int,
            confirmed : BOOLEAN, escrow : Nat \ {0}]

ASSUME DisputeConstants ==
    /\ Nobody \notin Accounts \cup Officials
    /\ {Admin, Arbitrator, SuperArbitrator} \subseteq Officials
    /\ IsFiniteSet(Officials)
    /\ MaxDisputes \in Nat \ {0} /\ MaxArbitrators \in Nat
    /\ DeadlineSecs \in Nat /\ AppealSecs \in Nat \ {0}
    /\ DefaultQuorumBps \in 1..10000
    /\ DefaultFilingFee \in Nat /\ MaxFilingFee \in Nat
    /\ Claims \subseteq Claim /\ Backings \subseteq Backing
    /\ Witnesses \subseteq Accounts /\ FilingFees \subseteq Int /\ Quorums \subseteq Nat

VARIABLES
    disputes,   \* DataKey::Dispute(id), with the keys stored next to it
    opened,     \* DataKey::Counter
    custody,    \* the contract's balance in the USDC token
    bench,      \* the arbitrators and the admin's settings
    votes,      \* DataKey::Vote(id, arbitrator)
    outcome     \* history: who received the amount and the filing fee

disputeVars == <<disputes, opened, custody, bench, votes, outcome>>
vars == <<now, disputeVars>>

DisputeIds == 1..MaxDisputes

Settlements == {"ResolvedForRecipient", "ResolvedForSender", "ResolvedForAgent", "Expired"}

Statuses == {"None", "Open", "Appealing", "UnderAppeal"} \cup Settlements

Rulings == {"Sender", "Recipient", "Agent"}

Someone == Accounts \cup {Nobody}

\* agent and escrow are unset in a free-form dispute; evidence is the set of
\* parties that have submitted some.
DisputeRecord ==
    [sender : Someone, recipient : Someone, agent : Someone, opener : Someone,
     amount : Nat, fee : Int, status : Statuses, deadline : Nat, appealBy : Nat,
     forRecipient : BOOLEAN, forAgent : BOOLEAN, confirmed : BOOLEAN, escrow : Nat,
     evidence : SUBSET Accounts]

NoDispute ==
    [sender |-> Nobody, recipient |-> Nobody, agent |-> Nobody, opener |-> Nobody,
     amount |-> 0, fee |-> 0, status |-> "None", deadline |-> 0, appealBy |-> 0,
     forRecipient |-> FALSE, forAgent |-> FALSE, confirmed |-> FALSE, escrow |-> 0,
     evidence |-> {}]

BenchRecord ==
    [arbitrator : Officials, nominee : Officials \cup {Nobody}, super : Officials,
     panel : SUBSET Officials, quorum : 1..10000, filingFee : Int,
     distributor : Officials, paused : BOOLEAN, registered : BOOLEAN]

OutcomeRecord == [winner : Someone, feeTo : Accounts \cup Officials \cup {Nobody}]

Undecided == [winner |-> Nobody, feeTo |-> Nobody]

DisputeTypeOK ==
    /\ ClockTypeOK
    /\ disputes \in [DisputeIds -> DisputeRecord]
    /\ opened \in 0..MaxDisputes
    /\ custody \in Nat
    /\ bench \in BenchRecord
    /\ votes \in [DisputeIds -> [Officials -> {"none", "Recipient", "Sender"}]]
    /\ outcome \in [DisputeIds -> OutcomeRecord]
    /\ \A d \in DisputeIds : disputes[d].status \in Settlements => outcome[d].winner \in Accounts

-----------------------------------------------------------------------------
(* Helpers.                                                                *)

\* A filing fee below one stroop is neither collected nor settled.
Charged(fee) == IF fee > 0 THEN fee ELSE 0

Stake(d) == disputes[d].amount + Charged(disputes[d].fee)

Unsettled(d) == disputes[d].status \in {"Open", "Appealing", "UnderAppeal"}

InCustody == [d \in DisputeIds |-> IF Unsettled(d) THEN Stake(d) ELSE 0]

IsOpen(d) == disputes[d].status = "Open"

Parties(d) == {disputes[d].sender, disputes[d].recipient, disputes[d].agent} \ {Nobody}

PendingRuling(d) ==
    IF disputes[d].forAgent THEN "Agent"
    ELSE IF disputes[d].forRecipient THEN "Recipient" ELSE "Sender"

\* Mutant: a ruling for a party leaves the agent's entry of an earlier ruling.
RecordRulingKeepsAgent(record, ruling) ==
    [record EXCEPT !.forAgent = @ \/ ruling = "Agent",
                   !.forRecipient = ruling = "Recipient"]

RecordRuling(record, ruling) ==
    [record EXCEPT !.forAgent = ruling = "Agent",
                   !.forRecipient = ruling = "Recipient"]

\* A ruling for the agent needs an escrow dispute.
MayRule(d, ruling) == ruling = "Agent" => disputes[d].agent # Nobody

Payee(d, ruling) ==
    CASE ruling = "Recipient" -> disputes[d].recipient
      [] ruling = "Sender" -> disputes[d].sender
      [] OTHER -> disputes[d].agent

SettledAs(ruling) ==
    CASE ruling = "Recipient" -> "ResolvedForRecipient"
      [] ruling = "Sender" -> "ResolvedForSender"
      [] OTHER -> "ResolvedForAgent"

\* Mutant: the filing fee in force is settled, not the one that was paid.
PayCurrentFee(d, record, winner, feeTo) ==
    LET stake == record.amount + Charged(bench.filingFee)
    IN  /\ stake <= custody
        /\ custody' = custody - stake
        /\ disputes' = [disputes EXCEPT ![d] = record]
        /\ outcome' = [outcome EXCEPT ![d] = [winner |-> winner, feeTo |-> feeTo]]

\* The amount and the recorded filing fee leave the contract.
Pay(d, record, winner, feeTo) ==
    LET stake == record.amount + Charged(record.fee)
    IN  /\ stake <= custody
        /\ custody' = custody - stake
        /\ disputes' = [disputes EXCEPT ![d] = record]
        /\ outcome' = [outcome EXCEPT ![d] = [winner |-> winner, feeTo |-> feeTo]]

\* The opener gets the filing fee back when it wins and forfeits it otherwise.
Award(d, record, ruling) ==
    LET winner == Payee(d, ruling)
    IN  Pay(d, [record EXCEPT !.status = SettledAs(ruling)], winner,
            IF winner = record.opener THEN winner ELSE bench.distributor)

-----------------------------------------------------------------------------
(* Opening a dispute and collecting evidence.                              *)

Register(opener, agent, confirmed, escrow, p) ==
    /\ ~bench.paused
    /\ p.amount > 0
    /\ opener \in {p.sender, p.recipient}
    /\ opened < MaxDisputes
    /\ opened' = opened + 1
    /\ disputes' = [disputes EXCEPT ![opened + 1] =
          [sender |-> p.sender, recipient |-> p.recipient, agent |-> agent,
           opener |-> opener, amount |-> p.amount, fee |-> bench.filingFee,
           status |-> "Open", deadline |-> now + DeadlineSecs, appealBy |-> 0,
           forRecipient |-> FALSE, forAgent |-> FALSE, confirmed |-> confirmed,
           escrow |-> escrow, evidence |-> {}]]
    /\ custody' = custody + p.amount + Charged(bench.filingFee)
    /\ UNCHANGED <<bench, votes, outcome>>

\* The token refuses the transfer of a negative filing fee.
OpenDispute(opener, p) ==
    /\ bench.filingFee >= 0
    /\ Register(opener, Nobody, FALSE, 0, p)

OpenEscrowDispute(opener, b) ==
    /\ bench.registered
    /\ Register(opener, b.agent, b.confirmed, b.escrow, b)

SubmitEvidence(a, d) ==
    /\ IsOpen(d)
    /\ now < disputes[d].deadline
    /\ a \in Parties(d)
    /\ disputes' = [disputes EXCEPT ![d].evidence = @ \cup {a}]
    /\ UNCHANGED <<opened, custody, bench, votes, outcome>>

-----------------------------------------------------------------------------
(* The single arbitrator, appeals and the deadline.                        *)

\* resolve_dispute and resolve_dispute_for_agent.  The deadline is not checked.
ResolveDispute(j, d, ruling) ==
    /\ j = bench.arbitrator
    /\ IsOpen(d)
    /\ MayRule(d, ruling)
    /\ disputes' = [disputes EXCEPT ![d] =
          [RecordRuling(@, ruling) EXCEPT !.status = "Appealing",
                                          !.appealBy = now + AppealSecs]]
    /\ UNCHANGED <<opened, custody, bench, votes, outcome>>

Appeal(a, d) ==
    /\ disputes[d].status = "Appealing"
    /\ now <= disputes[d].appealBy
    /\ a \in Parties(d)
    /\ disputes' = [disputes EXCEPT ![d] = [@ EXCEPT !.status = "UnderAppeal"]]
    /\ UNCHANGED <<opened, custody, bench, votes, outcome>>

\* Callable by anyone.
FinalizeResolution(d) ==
    /\ disputes[d].status = "Appealing"
    /\ now > disputes[d].appealBy
    /\ Award(d, disputes[d], PendingRuling(d))
    /\ UNCHANGED <<opened, bench, votes>>

\* resolve_appeal and resolve_appeal_for_agent.
ResolveAppeal(j, d, ruling) ==
    /\ j = bench.super
    /\ disputes[d].status = "UnderAppeal"
    /\ MayRule(d, ruling)
    /\ Award(d, RecordRuling(disputes[d], ruling), ruling)
    /\ UNCHANGED <<opened, bench, votes>>

\* Who may claim once the deadline has passed.
Claimant(d) ==
    IF disputes[d].confirmed /\ disputes[d].agent # Nobody
    THEN disputes[d].agent
    ELSE disputes[d].sender

\* Mutant: a ruling under appeal does not stop the claim.
ClaimUnlessSettled(a, d) ==
    /\ a = Claimant(d)
    /\ Unsettled(d)
    /\ now > disputes[d].deadline
    /\ Pay(d, [disputes[d] EXCEPT !.status = "Expired"], a, disputes[d].opener)
    /\ UNCHANGED <<opened, bench, votes>>

\* The arbitrator missed the deadline: the filing fee goes back to the opener.
ClaimExpired(a, d) ==
    /\ a = Claimant(d)
    /\ IsOpen(d)
    /\ now > disputes[d].deadline
    /\ Pay(d, [disputes[d] EXCEPT !.status = "Expired"], a, disputes[d].opener)
    /\ UNCHANGED <<opened, bench, votes>>

-----------------------------------------------------------------------------
(* The arbitrator panel.                                                   *)

\* Mutant: the votes of former members count.
TallyOfEveryone(cast, d, side) == Cardinality({j \in Officials : cast[d][j] = side})

\* Only the votes of today's members are read.
Tally(cast, d, side) == Cardinality({j \in bench.panel : cast[d][j] = side})

\* "strictly exceeds": n / panel size > quorum / 10_000
ReachesQuorum(n) == n * 10000 > bench.quorum * Cardinality(bench.panel)

CastVote(j, d, side) ==
    LET cast == [votes EXCEPT ![d][j] = side]
        carried(s) == ReachesQuorum(Tally(cast, d, s))
    IN  /\ j \in bench.panel
        /\ votes[d][j] = "none"
        /\ IsOpen(d)
        /\ votes' = cast
        /\ \/ carried("Recipient") /\ Award(d, disputes[d], "Recipient")
           \/ /\ ~carried("Recipient") /\ carried("Sender")
              /\ Award(d, disputes[d], "Sender")
           \/ /\ ~carried("Recipient") /\ ~carried("Sender")
              /\ UNCHANGED <<disputes, custody, outcome>>
        /\ UNCHANGED <<opened, bench>>

-----------------------------------------------------------------------------
(* Administration.                                                         *)

Appoint(field, value) ==
    /\ field \in Appointments
    /\ bench' = [bench EXCEPT ![field] = value]
    /\ UNCHANGED <<disputes, opened, custody, votes, outcome>>

AddArbitrator(j) ==
    /\ Cardinality(bench.panel) < MaxArbitrators
    /\ j \notin bench.panel
    /\ Appoint("panel", bench.panel \cup {j})

RemoveArbitrator(j) == j \in bench.panel /\ Appoint("panel", bench.panel \ {j})

SetQuorumBps(bps) == bps \in 1..10000 /\ Appoint("quorum", bps)

ProposeNewArbitrator(j) == Appoint("nominee", j)

AcceptArbitrator(j) ==
    /\ j = bench.nominee
    /\ bench' = [bench EXCEPT !.arbitrator = j, !.nominee = Nobody]
    /\ UNCHANGED <<disputes, opened, custody, votes, outcome>>

SetSuperArbitrator(j) == Appoint("super", j)

SetFeeDistributorAddress(j) == Appoint("distributor", j)

SetEscrowContract == Appoint("registered", TRUE)

UpdateFilingFee(fee) == fee <= MaxFilingFee /\ Appoint("filingFee", fee)

Pause == Appoint("paused", TRUE)

Unpause == Appoint("paused", FALSE)

-----------------------------------------------------------------------------
(* Behaviours.                                                             *)

DisputeInit ==
    /\ ClockInit
    /\ disputes = [d \in DisputeIds |-> NoDispute]
    /\ opened = 0
    /\ custody = 0
    /\ bench = [arbitrator |-> Arbitrator, nominee |-> Nobody, super |-> SuperArbitrator,
                panel |-> {}, quorum |-> DefaultQuorumBps, filingFee |-> DefaultFilingFee,
                distributor |-> Admin, paused |-> FALSE, registered |-> FALSE]
    /\ votes = [d \in DisputeIds |-> [j \in Officials |-> "none"]]
    /\ outcome = [d \in DisputeIds |-> Undecided]

OpenFreeForm == \E a \in Accounts, p \in Claims : OpenDispute(a, p)

OpenBacked == \E a \in Accounts, b \in Backings : OpenEscrowDispute(a, b)

\* Steps that move no money.
Argue(d) ==
    \/ \E a \in Witnesses : SubmitEvidence(a, d)
    \/ \E a \in Accounts : Appeal(a, d)
    \/ \E j \in Officials, ruling \in Rulings : ResolveDispute(j, d, ruling)

\* Steps that may settle the dispute.
Decide(d) ==
    \/ FinalizeResolution(d)
    \/ \E a \in Accounts : ClaimExpired(a, d)
    \/ \E j \in Officials :
          \/ \E ruling \in Rulings : ResolveAppeal(j, d, ruling)
          \/ \E side \in {"Recipient", "Sender"} : CastVote(j, d, side)

Manage ==
    \/ \E j \in Officials :
          \/ AddArbitrator(j) \/ RemoveArbitrator(j)
          \/ ProposeNewArbitrator(j) \/ AcceptArbitrator(j)
          \/ SetSuperArbitrator(j) \/ SetFeeDistributorAddress(j)
    \/ \E bps \in Quorums : SetQuorumBps(bps)
    \/ \E fee \in FilingFees : UpdateFilingFee(fee)
    \/ SetEscrowContract
    \/ Pause
    \/ Unpause

DisputeStep ==
    \/ OpenFreeForm
    \/ OpenBacked
    \/ \E d \in DisputeIds : Argue(d) \/ Decide(d)
    \/ Manage

DisputeNext ==
    \/ Tick /\ UNCHANGED disputeVars
    \/ DisputeStep /\ UNCHANGED now

DisputeSpec == DisputeInit /\ [][DisputeNext]_vars
-----------------------------------------------------------------------------
(* Properties.                                                             *)

\* The contract holds exactly the amounts and filing fees of the disputes
\* that are not settled.  A filing fee settled at another rate than it was
\* paid, or a dispute settled on two of its four paths, would be paid out of
\* the funds of another dispute.  (The state has its types, too.)
DisputesFunded == DisputeTypeOK /\ custody = Total(InCustody, MaxDisputes)

\* Whichever of arbitrator and super-arbitrator ruled last, the funds went
\* where the recorded ruling points.  The ruling lives in two places (a field
\* and the key RulingForAgent) that a second ruling has to overwrite together.
RulingCarriedOut ==
    \A d \in DisputeIds :
        disputes[d].status \in Settlements /\ disputes[d].appealBy > 0
        => /\ disputes[d].status = SettledAs(PendingRuling(d))
           /\ outcome[d].winner = Payee(d, PendingRuling(d))

\* How many of today's panel have voted for a side.
Supporters(d, side) == {j \in bench.panel : votes[d][j] = side}

\* A panel decision is carried by present members only: the step that pays a
\* dispute without a ruling leaves more than the quorum of the panel of that
\* moment on the winning side, however the panel changed during the vote.
PanelDecides ==
    [][\A d \in DisputeIds, ruling \in {"Recipient", "Sender"} :
          disputes[d].status = "Open" /\ disputes'[d].status = SettledAs(ruling)
          => Cardinality(Supporters(d, ruling)') * 10000
                > bench'.quorum * Cardinality(bench'.panel)]_vars

\* A loser always has the appeal window: no ruling of the single arbitrator
\* moves money before 24 hours have passed, unless a party appealed first,
\* and the deadline of the dispute does not cut the window short.
AppealWindowKept ==
    [][\A d \in DisputeIds :
          disputes[d].status = "Appealing" /\ outcome'[d] # outcome[d]
          => now > disputes[d].appealBy]_vars

\* "releases funds to the winning side" (lib.rs:1208): a panel decision never
\* goes against the larger number of present members' votes.
WinningSidePaid ==
    [][\A d \in DisputeIds, ruling \in {"Recipient", "Sender"} :
          disputes[d].status = "Open" /\ disputes'[d].status = SettledAs(ruling)
          => \A side \in {"Recipient", "Sender"} :
                Cardinality(Supporters(d, side)')
                    <= Cardinality(Supporters(d, ruling)')]_vars

\* "a recipient who opens a dispute in good faith cannot lose their locked
\* funds to the sender simply because the dispute expired unresolved" (README
\* of the contract, line 18): a free-form dispute that expires goes back to
\* its opener.
ExpiryRefundsFunder ==
    \A d \in DisputeIds :
        disputes[d].status = "Expired" /\ disputes[d].escrow = 0
        => outcome[d].winner = disputes[d].opener
=============================================================================
