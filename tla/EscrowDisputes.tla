--------------------------- MODULE EscrowDisputes ---------------------------
(***************************************************************************)
(* The escrow contract and the dispute-resolution contract together.  They *)
(* call each other inside one transaction: dispute_escrow moves the money  *)
(* and opens the dispute, every settlement of the dispute pays the winner  *)
(* and calls close_disputed_escrow.  If the callee panics, so does the     *)
(* caller, so a joint step is the conjunction of the two contracts' parts. *)
(*                                                                         *)
(* The escrow admin may point the escrow contract at another dispute       *)
(* contract at any time.  Such a contract is not modelled: it may accept   *)
(* any dispute and report any winner.                                      *)
(***************************************************************************)
EXTENDS Escrow

CONSTANTS
    Court,              \* the dispute-resolution contract modelled here
    Officials, Admin, Arbitrator, SuperArbitrator, MaxDisputes, DeadlineSecs,
    AppealSecs, MaxArbitrators, DefaultQuorumBps, DefaultFilingFee, MaxFilingFee,
    Claims, Backings, Witnesses, FilingFees, Quorums, Appointments

VARIABLES disputes, opened, custody, bench, votes, outcome

D == INSTANCE DisputeResolution

ASSUME CourtAssumption == Court \in DisputeContracts /\ D!DisputeConstants

courtVars == <<disputes, opened, custody, bench, votes, outcome>>
systemVars == <<now, escrowVars, courtVars>>

-----------------------------------------------------------------------------
(* Joint steps.                                                            *)

\* Mutant: the agent's confirmation is not passed on.
BackingUnconfirmed(e) ==
    [sender |-> escrows[e].sender, recipient |-> escrows[e].recipient,
     agent |-> escrows[e].agent, amount |-> escrows[e].amount,
     confirmed |-> FALSE, escrow |-> e]

\* The arguments dispute_escrow passes to open_escrow_dispute.
Backing(e) ==
    [sender |-> escrows[e].sender, recipient |-> escrows[e].recipient,
     agent |-> escrows[e].agent, amount |-> escrows[e].amount,
     confirmed |-> escrows[e].confirmed, escrow |-> e]

RaiseDispute(caller, e) ==
    /\ config.court = Court
    /\ MarkDisputed(caller, e, opened + 1)
    /\ D!OpenEscrowDispute(caller, Backing(e))
    /\ UNCHANGED now

\* Mutant: the outcome of an expired dispute is not reported.
NotifyUnlessExpired(d) ==
    IF disputes[d].escrow # 0 /\ ~D!Unsettled(d)' /\ disputes'[d].status # "Expired"
    THEN CloseDisputed(Court, disputes[d].escrow, outcome'[d].winner)
    ELSE UNCHANGED escrowVars

\* notify_escrow, at the end of every settlement.
NotifyEscrow(d) ==
    IF disputes[d].escrow # 0 /\ ~D!Unsettled(d)'
    THEN CloseDisputed(Court, disputes[d].escrow, outcome'[d].winner)
    ELSE UNCHANGED escrowVars

DecideAndNotify(d) == D!Decide(d) /\ NotifyEscrow(d) /\ UNCHANGED now

\* A dispute contract that is not this one.
OtherCourt(e) ==
    \E a \in Accounts :
        \/ config.court # Court /\ DisputeEscrow(a, e)
        \/ \E c \in DisputeContracts \ {Court} : CloseDisputedEscrow(c, e, a)

-----------------------------------------------------------------------------
(* Behaviours.                                                             *)

SystemInit == EscrowInit /\ D!DisputeInit

EscrowAlone ==
    /\ Fund \/ Administer \/ \E e \in Ids : Settle(e) \/ OtherCourt(e)
    /\ UNCHANGED courtVars

CourtAlone ==
    /\ D!OpenFreeForm \/ D!Manage \/ \E d \in D!DisputeIds : D!Argue(d)
    /\ UNCHANGED <<now, escrowVars>>

SystemNext ==
    \/ Tick /\ UNCHANGED <<escrowVars, courtVars>>
    \/ EscrowAlone
    \/ CourtAlone
    \/ \E a \in Accounts, e \in Ids : RaiseDispute(a, e)
    \/ \E d \in D!DisputeIds : DecideAndNotify(d)

SystemSpec == SystemInit /\ [][SystemNext]_systemVars

-----------------------------------------------------------------------------
(* Properties.                                                             *)

InCourt(e) == escrows[e].status = "UnderDispute" /\ link[e].contract = Court

\* The two contracts agree which escrows are disputed, and about what: an
\* escrow is UnderDispute exactly while its dispute is unsettled, and the
\* dispute is over the escrow's parties, its amount and its confirmation.
ContractsAgree ==
    /\ \A e \in Ids : InCourt(e) =>
          /\ link[e].id \in 1..opened
          /\ disputes[link[e].id].escrow = e
          /\ D!Unsettled(link[e].id)
    /\ \A d \in D!DisputeIds : D!Unsettled(d) /\ disputes[d].escrow # 0 =>
          LET e == disputes[d].escrow
          IN  /\ InCourt(e) /\ link[e].id = d
              /\ disputes[d].amount = escrows[e].amount
              /\ disputes[d].sender = escrows[e].sender
              /\ disputes[d].recipient = escrows[e].recipient
              /\ disputes[d].agent = escrows[e].agent

\* Every dispute past its deadlines can be settled by somebody, whatever
\* happened to the escrow meanwhile and whether or not either contract is
\* paused: the money is there and close_disputed_escrow does not panic.  An
\* escrow archived too early would lock the funds for ever.
SettlementOpen ==
    \A d \in D!DisputeIds :
        /\ D!IsOpen(d) /\ now > disputes[d].deadline
           => ENABLED (D!ClaimExpired(D!Claimant(d), d) /\ NotifyEscrow(d))
        /\ disputes[d].status = "Appealing" /\ now > disputes[d].appealBy
           => ENABLED (D!FinalizeResolution(d) /\ NotifyEscrow(d))
        /\ disputes[d].status = "UnderAppeal"
           => ENABLED (D!ResolveAppeal(bench.super, d, "Sender") /\ NotifyEscrow(d))

\* An agent that has confirmed the payout of an escrow loses its money only
\* to a ruling: doing nothing pays the agent, not the sender (#1366).
ConfirmationStands ==
    \A e \in Ids : \A d \in D!DisputeIds :
        /\ disputes[d].escrow = e /\ disputes[d].status = "Expired"
        /\ escrows[e].confirmed
        => outcome[d].winner = escrows[e].agent

\* The status an escrow leaves a dispute with says where the money went:
\* back to the sender if and only if Cancelled.
StatusTellsOutcome ==
    \A e \in Ids : link[e].contract = Court /\ ~InCourt(e) =>
        /\ winner[e] = outcome[link[e].id].winner
        /\ escrows[e].status = "Cancelled" <=> winner[e] = escrows[e].sender

-----------------------------------------------------------------------------
(* The promise the two contracts implement.                                *)

\* What the court still holds for the escrow.
Stake(e) ==
    Total([d \in D!DisputeIds |-> IF disputes[d].escrow = e /\ D!Unsettled(d)
                                  THEN disputes[d].amount ELSE 0],
          MaxDisputes)

\* Money handed to another dispute contract has left the system.
Phase(e) ==
    IF e > counter THEN "unborn"
    ELSE IF IsPending(e) \/ InCourt(e) THEN "held" ELSE "closed"

Promise == INSTANCE EscrowPromise WITH
    Promised <- Ids,
    phase <- [e \in Ids |-> Phase(e)],
    kept <- [e \in Ids |-> Held(e) + Stake(e)],
    paidOut <- [e \in Ids |-> PaidOut(e) - Stake(e)]

\* The two contracts together keep the promise: whatever combination of
\* partial releases, fees, disputes, appeals, votes and expiries settles an
\* escrow, it pays out all it took in, once, and is closed exactly then.
PromiseKept == Promise!PromiseSpec
=============================================================================
