# AfriPay: specifications of the cross-border payment system

AfriPay moves USDC on the Stellar network between senders, recipients and the
agents who hand out cash. The program has three parts: Soroban contracts in
Rust (`src/contracts`), a Node.js backend (`src/backend/src`) and web clients.
This directory holds TLA+ modules for the parts where money can be lost by an
order of events nobody thought of, TLC configurations that explore small
instances, and proofs of what matters most for instances of every size.

Contents: 1 the system, 2 the plan, 3 the modules and the code, 4 the runs,
5 fairness, 6 the proofs, 7 divergences found, 8 what is not modelled,
9 how to run everything.

## 1. The system

### How the parts interact

    web client --HTTP--> controllers --> txQueue --> stellar.js --> Horizon --> ledger
                              |                                                  |
                              |--> agentEscrow.js, disputeResolution.js ---------|
                              |                                                  v
                     loyalty_mint_queue (PostgreSQL)             escrow <--> dispute-resolution
                              ^                                     |
                     jobs on every replica, under Redis locks   kyc-attestation, fee-distributor
                              ^
                     event indexer, ledger listener <-- contract events

* The **contracts** run inside ledger transactions. An invocation either
  succeeds as a whole, cross-contract calls included, or leaves no trace. Two
  invocations never overlap. What is hard is therefore not interleaving inside
  a call, it is the order in which different parties call, the passing of
  deadlines, and settings that the administrator changes in between.
* The **backend** runs as several processes over one PostgreSQL database and
  one Redis server. Every `await` is a point where another request or another
  process runs, any of them may die, and every answer from Horizon may be lost.

### Components

For each part: its state, its operations, what is hard, what makes it correct.
The contracts first.

**Escrow** (`contracts/escrow/src/lib.rs`). State: escrow records by id, the id
counter, accumulated fees, the contract's USDC, the settings (platform fee, hold
and retention periods, KYC and dispute contract), a pause flag, and for disputed
escrows the dispute's id and winner. Operations: create, batch create, deposit,
release, partial release, confirm delivery, cancel, expire, dispute, close
disputed, clean up, update fee, withdraw fees, and the setters. Calls
kyc-attestation (a question) and dispute-resolution (a push of the funds); is
called back by the latter. Hard: nine ways out of `Pending` by four parties,
settings that change under a funded escrow, two strict comparisons with
`expires_at`. Correct when the balance covers exactly what is owed, no escrow is
paid from another one's money, the fee never exceeds the agreed rate, and there
is always a way out.

**Dispute resolution** (`contracts/dispute-resolution/src/lib.rs`). State:
dispute records, a counter, the contract's USDC, the arbitrators, quorum, filing
fee, nominated and super-arbitrator, votes. Operations: open (free-form or
pushed by an escrow contract), submit evidence, resolve, appeal, finalize,
resolve appeal, claim expired, vote, and administration. Hard: a ruling waits in
two storage keys for its appeal window; votes are stored when cast and tallied
later by another panel under another quorum; the filing fee changes meanwhile.
Correct when each dispute is paid from its own funds, once, to whom the last
ruling says, not before its appeal window closed, and can always be settled.

**Governance** (`governance.rs` in both crates). State: pause flag, pending
upgrade with its earliest time, contract version. Operations: pause, unpause,
propose, cancel and execute an upgrade, migrate. Correct when pausing never
closes an exit (modelled), and when nothing is upgraded that did not wait the
full timelock (planned; a second proposal overwrites the first and must restart
the wait).

**Agent escrow** (`contracts/agent-escrow`). State: registered agents, escrows,
fees, insurance fund. Operations: register, remove, reassign, create, confirm
payout (whole or partial), cancel, admin release, insurance payout. Hard: the
fee is rounded at every partial confirmation, and the insurance fund is a share
of it, paid out of the same balance. Correct when the balance is open escrows +
fees + insurance, nobody gets more than an escrow held, and parts are not dearer
than the whole.

**Savings vault** (`contracts/savings-vault`). State: vaults with balance, lock
and accrued interest, the interest rate, a reserve, lock bounds, two kinds of
emergency. Operations: deposit, withdraw (early for a penalty), accrue, set the
rate, fund the reserve, distribute yield, announce, activate and take back an
emergency, close a user's vaults. Hard: interest is accrued by whichever call
comes next at whatever rate is then in force; the two emergencies know nothing
of each other. Correct when every saver can be paid, no second earns twice, and
no vault is closed without its warning.

**Recurring payments** (`contracts/recurring-payments`). State: schedules with
their next due date, counts of payments and misses. Operations: create, execute
(which pays, or counts the missed windows), cancel, pause, resume. Hard: two
closed forms for due dates and misses, and a grace period that may outlast the
interval. Correct when a sender pays once per interval at most, for as long as
authorised, and every missed window counts once.

**Multisig approval**: proposals, votes, weights, quorum changes,
signer changes; must not execute on votes of former signers. **Fee
distributor**: accumulated fees per token, the agent pool, the split; must
distribute what was deposited. **Loyalty token**: balances, allowances,
snapshots. **KYC attestation**: attestations with tiers and expiry.

The backend.

**Transaction queue** (`utils/txQueue.js`) and **payments**
(`services/stellar.js`). State: per wallet a chain of promises, a count of
unsettled tasks; per payment the sequence number loaded, the transaction signed,
the retries used; outside the process the account's sequence number and
transactions on their way. Hard: the timeout settles the promise and leaves the
function running; an unanswered submission may still apply; `tx_bad_seq` may or
may not mean that an earlier submission of the same payment was applied. Correct
when one call moves money at most once and its answer is true.

**Distributed lock** (`utils/distributedLock.js`). State: a Redis key with a time
to live, a heartbeat timer, a lost flag. Hard: expiry during the work, failed
renewals, releasing somebody else's lock.

**Loyalty mint queue** (`jobs/loyaltyMintJob.js`, `services/loyaltyToken.js`).
State: rows `pending`, `processing`, `completed`, `failed` with a retry count;
`loyalty_points`; points on chain. Hard: several replicas, a claim in two
statements, a mint whose outcome is unknown, writes after a mint, crashes.
Correct when points are minted once unless an outcome was really lost, and every
row is settled in the end.

**Idempotency** (`middleware/idempotency.js`, `middleware/requireStepUp.js`,
`utils/cache.js`; in the client `utils/idempotency.js`, `BatchPayment.jsx`, the
offline queue and its replay). State: a marker in Redis (or in the process), a
kept answer there and in a table, the key the form holds, queued payments. Hard:
the marker is read, then two other stores, and only then is it set; every store
may fail; an answer may be lost on its way to the client, which then decides
whether to repeat and under which key. Correct when a request whose answer was
kept is never handled again.

**Refresh tokens** (`controllers/authController.js`; `utils/api.js` in the
client). State: rows of tokens in families, the cookie of each tab. Hard: two
tabs refresh with one token; logout, password reset and the accusation of reuse
end families in between. Correct when a token has one live successor and nobody
is accused who did nothing but wait.

**Fee configuration** (`services/feeConfigService.js`,
`jobs/activateScheduledFeeConfigs.js`). State: rows with dates, a cache per
process, two jobs' worth of old reads. Correct when a quote is a fee that was
in force within the cache's time, and the latest change due takes over.

**Claimable balances** (`services/ledgerListener.js`,
`jobs/checkClaimableBalanceExpiry.js`). State: a row per balance and one per
payment, streams with cursors. Hard: effects and the expiry job settle the same
balance; cursors are stored without being waited for. Correct when both tables
say what the ledger did.

**Confirmation job** (`jobs/transactionConfirmationJob.js`): pending
transactions are looked up in Horizon until their time is over, in batches, by
every replica. **Dispute and agent-escrow controllers**: a database row beside
the contract's record, updated after the contract's call, which may be given up
and land later.

**Payment channels** (`services/paymentChannel.js`, `routes/channels.js`). State:
a row per channel with two balances, a status and a closing transaction signed in
advance; the sequence number of the wallet's account, which everything the
wallet sends uses up. `transact` and `closeChannel` hold the row's lock, close
also while it submits the settlement. Hard: a rollback takes back the row and not
the ledger. Correct when the balances add up, a closed channel was paid what its
row says, and no channel is paid twice.

**Payment controller**, **scheduled payments job**, **event
indexer**, **channel account pool**: see section 8. **Accounts, KYC, support,
notifications, anchors, analytics**: handlers over single rows. **Web clients**:
besides keys, tokens and the offline queue, no state the system depends on.

The hazards that follow from this list, each at its line and with the properties
that cover it, are in `PROJECT.json`. A hazard without a property belongs to a
part that is not modelled, is outside what the model assumes, or is one the code
does not guard against, as its note says.

## 2. The plan

Done, in this order, money held by contracts before money on its way, and both
before bookkeeping:

1. `LedgerClock`, `Sums`, `Escrow`: custody of the money.
2. `DisputeResolution`, then `EscrowDisputes` (both contracts and the calls
   between them) and `EscrowPromise` (what they promise together, to which
   `EscrowDisputes` is shown to conform).
3. `SumsProofs`, `EscrowProofs`: the escrow contract's invariants for any number
   of accounts and escrows.
4. `DistributedLock` and `LoyaltyMint`; `TxQueue` and `PaymentQueue`.
5. The mint queue for any number of replicas, in `JobsProofs`.
6. The other contracts with time and money in them: `AgentEscrow`,
   `SavingsVault`, `RecurringPayments`.
7. The backend beside the contracts: `AgentPayouts` on `AgentEscrow`,
   `DisputeRecords` on `DisputeResolution`.
8. The backend's own state: `IdempotentRequests`, `RefreshTokens`, `FeeConfigs`,
   `ClaimableBalances`, `Confirmations`.
9. Proofs of the agent escrow, the savings vault and the recurring payments,
   in `SettlementsProofs` and `JobsProofs`.
10. `PaymentChannels`, with its proofs in `SettlementsProofs`.
11. The safety properties that had only been checked: `DisputeProofs`,
    `EscrowDisputesProofs` with the refinement, `RequestsProofs`,
    `DisputeRecordsProofs`, and the rest of `JobsProofs` and `SettlementsProofs`.
12. What the contracts keep of their own promises beside each other, the guards
    behind the properties over `ENABLED`, and the promise of agent-escrow.

Next, the most valuable first:

1. *Proofs.* What an administrator can and cannot do to an escrow or a dispute
   that runs.
2. *Upgrade timelock.* A module shared by the contracts: propose, cancel,
   execute, against "an upgrade runs only after it was visible for the whole
   timelock".
3. *Multisig approval*, once its crate compiles: votes and executions against
   signers and quorum at the time they are counted.

## 3. The modules and the code

| module | models | state |
| --- | --- | --- |
| `LedgerClock` | the ledger timestamp every deadline is compared with | `now` |
| `Sums` | the sum of a function over `1..n`, as a recursive function | |
| `Escrow` | `contracts/escrow/src/lib.rs`, the pause flag of `governance.rs` | `escrows`, `counter`, `fees`, `vault`, `config`, `link`, `winner`, history `flow` |
| `DisputeResolution` | `contracts/dispute-resolution/src/lib.rs`, its pause flag | `disputes`, `opened`, `custody`, `bench`, `votes`, history `outcome` |
| `EscrowDisputes` | the two together with `dispute_escrow`, `notify_escrow` and `close_disputed_escrow` as joint steps | both |
| `EscrowPromise` | the abstract specification, of both contracts together and of agent-escrow: an escrow pays out what was put in, once | `phase`, `kept`, `paidOut` |
| `DistributedLock` | `utils/distributedLock.js` | `keys` (Redis), `holds` (calls of `withLock`), `faults` |
| `LoyaltyMint` | `jobs/loyaltyMintJob.js`, `mintPoints` | `queue`, `paid`, `work`, and histories `attempts`, `mints`, `slips`, `credits`, `echoes` |
| `TxQueue` | `utils/txQueue.js` | `queues`, `call`, `pendingTasksTotal` |
| `PaymentQueue` | `sendPayment` and its helpers in `services/stellar.js`, on `TxQueue` | `send`, `account`, `outside`, `inFlight`, `applied` |
| `AgentEscrow` | `contracts/agent-escrow/src/lib.rs` | `payouts`, `created`, `agents`, `shareBps`, `agentFees`, `insuranceFund`, `agentVault`, history `ledger` |
| `AgentPayouts` | `agentEscrowController.js`, `services/agentEscrow.js`, `config/soroban.js`, on `AgentEscrow` | `payoutRows`, `calls`, `strays` |
| `DisputeRecords` | `disputeResolutionController.js`, `services/disputeResolution.js`, on `DisputeResolution` | `rows`, `calls`, `strays` |
| `SavingsVault` | `contracts/savings-vault/src/lib.rs` | `vaults`, `opened`, `rate`, `reserve`, `totalLocked`, `bounds`, `emergency`, `vaultFunds`, history `story` |
| `RecurringPayments` | `contracts/recurring-payments/src/lib.rs` | `schedules`, `missed`, `authorized`, history `record` |
| `IdempotentRequests` | the idempotency middleware, the step-up check, the stores, and the form and queue that make the keys | `form`, `queued`, `requests`, `inflight`, `answers`, `rows`, `paidBy` |
| `RefreshTokens` | `refresh`, `logout` and the password reset of `authController.js`; `refreshSession` in `api.js` | `family`, `graceOver`, `denied`, `jar`, `refreshes`, `exit`, `ended`, `accused` |
| `FeeConfigs` | `feeConfigService.js`, the fee-config routes, `activateScheduledFeeConfigs.js` | `configs`, `minute`, `cached`, `tasks`, history `offSince` |
| `ClaimableBalances` | `ledgerListener.js`, `checkClaimableBalanceExpiry.js`, the rows `sendPayment` leaves | `coins`, `due`, `tables`, `feed`, `streams`, `handling`, `cursor` |
| `Confirmations` | `transactionConfirmationJob.js` | `outcomes`, `statuses`, `lapsed`, `batches`, `lookups`, history `unknown` |
| `PaymentChannels` | `paymentChannel.js`, `routes/channels.js` | `channels`, `channelCalls`, `defaultKey`, `mature`, and the account and ledger beside them: `walletSeq`, `network`, `settlements`, history `unanswered` |
| `MCEscrow`, `MCDispute`, `MCEscrowDisputes` | inputs for the runs | |
| `MCJobs`, `MCRequests`, `MCSettlements` | several modules in one run each (section 4) | `followed` |
| `SumsProofs` | lemmas about `Total` | |
| `EscrowProofs`, `DisputeProofs`, `EscrowDisputesProofs` | theorems about the two contracts, alone and together | |
| `SettlementsProofs` | theorems about `AgentEscrow`, `AgentPayouts`, `PaymentChannels` | |
| `DisputeRecordsProofs` | theorems about `DisputeRecords` | |
| `JobsProofs` | theorems about `LoyaltyMint`, `FeeConfigs`, `ClaimableBalances`, `Confirmations`, `RecurringPayments`, `SavingsVault` | |
| `RequestsProofs` | theorems about `PaymentQueue` (with `TxQueue`), `RefreshTokens`, `IdempotentRequests` | |

Definitions have the code's names in the case TLA+ uses: `partial_release` is
`PartialRelease`, `FeeOf` is the fee computation, `MAX_SEQ_RETRIES` is itself.
`map` in `PROJECT.json` gives every definition's lines.

**Contracts.** One entry point is one action; a panic is a guard that is false,
and so is a failed token transfer out of the contract. `require_auth` is the
caller being a parameter. Users' own balances are left out: a transfer in that
the payer cannot cover is a transaction that fails. Contract balances (`vault`,
`custody`) are kept apart from the records, since the code keeps them apart and
the point is that they agree. Amounts and fees are integers with the code's
truncating division; overflow of `i128` is out of reach because of the code's
own limit on amounts. `flow` and `outcome` are history variables: they record
payments and decide nothing. Escrow ids grow and are never reused, as in the
code.

**Joint steps.** `dispute_escrow` marks the escrow, sends the funds and calls
`open_escrow_dispute`; if the callee panics everything is undone. So
`RaiseDispute` is the conjunction of `MarkDisputed` and
`D!OpenEscrowDispute`, and every settling action of the dispute contract is
conjoined with `NotifyEscrow`. A dispute contract other than the modelled one,
to which the administrator may point the escrow contract at any time, may accept
any dispute and report any winner (`OtherCourt`). The refinement maps an escrow
to `held` while it is pending or in this court, counts what either contract
still holds for it as `kept`, and what has left both (or went to a foreign
court) as `paidOut`.

**Agent escrows, vaults, schedules.** `ledger`, `story` and `record` are history
variables, as `flow` is. An agent escrow's time is one bit, whether
`expires_at` has passed, since nothing else is compared with a clock;
`LedgerClock` serves the other two. `withdraw_fees` of the agent-escrow crate
and `deposit` of the savings crate are in the source twice, by a merge that kept
two versions; the modelled action is what the versions have in common, and
the crates do not compile until one of them is removed. `RateUnit` stands for
10000 times the seconds of a year, so that a vault of a few units earns
something in a few seconds.

**Rows beside contracts.** `AgentPayouts` and `DisputeRecords` split a request
at each `await`: the row is read, a call is sent, the call lands in a ledger (an
action of the contract, taken as it is), the outcome is seen, the row is
written, and for a dispute its ticket. A request may give up waiting; its
call becomes a stray that lands later or expires. The process may die between
the landing and the write. Parties also act on the contract directly (`Direct`,
`DisputeNext`), behind the backend's back.

**Idempotency.** A body is a version of the form, a key the number of the request
it was made for. `Serve` is the middleware with one step per `await`: marker,
Redis, row, setting the marker, the handler under the wallet's lock, the
payment, and the storing of the answer in three stores. Two properties of the
code matter and are kept: an answer of 5xx is not stored, and each store fails
softly ("not found"). `FlushRedis` is a restart of Redis; `ExpireMarker` the
30 seconds.

**Refresh tokens.** Each query of `refresh` is a step. A successor is inserted
before the old token is claimed, and dropped when the claim finds the token
taken. `webLocks` is chosen in the initial state, since `refreshSession` serialises
tabs only where the browser can. `Grace` is one bit per token.

**Fees, balances, confirmations.** A database transaction is one step, the reads
before it and the cache write after it are others. In `ClaimableBalances` the
feed of effects is a sequence, a stream has a place in it, a handler has one
`await` before its tables are written and one before its cursor is saved. In
`Confirmations` a worker holds the batch it read while others settle its rows.

**Lock and mint queue.** Time is counted in heartbeat intervals. The random lock
value is represented by the replica, which is sound because a replica is inside
one `withLock` at a time and `SET NX` needs the key gone. `PromptTimers` says
whether a due heartbeat runs before the next interval ends; without it the event
loop may be late by any amount. All failures (Redis, database, crash, a mint
that lands after its confirmation timed out) draw on one bound, `MaxFaults`, so
that one failure is tried at every point of every behaviour. A write that fails
may have committed: its answer is lost, and the job cannot tell. Each `await` of the
job ends a step: taking the slot, `SELECT ... FOR UPDATE SKIP LOCKED`, the
`UPDATE ... COMMIT` of the claim, the mint, each of the two writes after it, the
error handling and the release. The row lock between the first two statements of
the claim is `RowLocked`; the pool's connection, and the lock with it, is gone
when the process dies. Rows are numbered by `created_at` and exist from the
start with their payment incomplete; `CompletePayment` makes one claimable. A
mint that lands late is counted when its timeout is reported, which is the
earliest it can have happened.

**Payments.** `TxQueue` keeps for each task the state of its promise and for each
wallet the order of the chain. A function cannot be cancelled, so what a task
does after `Timeout` is in `send` and no longer touches `call`. Retries of
`loadAccount` are repetitions of the load and change nothing; any error before
the first submission is `FailToLoad`. Horizon and the ledger are external and
are as permissive as the code has to assume: a request or an answer is lost, a
loaded sequence number is up to `HorizonLag` behind, a transaction waits
(`inFlight`), expires, or applies only with the account's next number and at
most once, with a failed operation still using the number up; other clients of
the account use numbers too. One favourable assumption is made: a transaction
that was applied, and is submitted again, is answered with its result and not
with `tx_bad_seq`. Should a lagging node break it, the code would rebuild and
pay twice; that hazard is listed without a property.

## 4. The runs

Every property was also confronted with a plausible bug of the code it is about
(the definitions commented "Mutant of ..."): the run finds each of them.

| run | configuration | asks |
| --- | --- | --- |
| `escrow_funds` | `MCEscrow`, `MCEscrowFunds.cfg` | Two escrows settled in every way and order: is the balance always exactly what is owed (`Solvent`), does each escrow account for its own money (`FlowsBalance`), is a pending escrow never empty (`PendingIsFunded`), and does nobody get paid outside their window (`PayoutWindows`)? |
| `escrow_settings` | `MCEscrowSettings.cfg` | The administrator changes fee, hold, retention and pause at any moment: is the agreed fee a maximum (`FeeNeverAboveAgreed`), and do cancel, release and expiry stay open (`CancelWindow`, `ExitsOpen`)? |
| `escrow_kyc` | `MCEscrowKyc.cfg` | Finding 1. |
| `dispute_funds` | `MCDispute`, `MCDisputeFunds.cfg` | Two disputes, the filing fee changing: is custody exactly the unsettled stakes (`DisputesFunded`), does the money follow the last ruling (`RulingCarriedOut`), not before the appeal window closed (`AppealWindowKept`)? |
| `settlements` | `MCSettlements`, `MCSettlements.cfg` | Four parts that settle money, each in behaviours of its own. Members come and go and the quorum changes during a vote: do present members' votes alone decide (`PanelDecides`)? And the backend's rows: does a row that names a winner name the arbitrator's ruling, whatever a second request or a late call does (`RowTellsRuling`)? The agent-escrow contract without the backend: can it pay what it owes, and nobody more than his part (`PayoutsSafe`)? Payment channels: are they settled with what they record, and once (`ChannelsSound`)? |
| `dispute_winning_side` | `MCDisputeWinningSide.cfg` | Finding 2. |
| `dispute_expiry` | `MCDisputeExpiry.cfg` | Finding 3. |
| `system_promise` | `MCEscrowDisputes`, `MCEscrowDisputesPromise.cfg` | Do both contracts together implement `EscrowPromise` (`PromiseKept`), and can a dispute past its deadlines be settled whatever was paused, archived or reconfigured (`SettlementOpen`)? |
| `system_outcomes` | `MCEscrowDisputesOutcomes.cfg` | Do the two contracts agree on what is disputed (`ContractsAgree`), does a confirmed payout survive an expired dispute (`ConfirmationStands`), does the escrow's final status say where the money went (`StatusTellsOutcome`)? |
| `background_jobs` | `MCJobs`, `MCJobs.cfg` | The jobs, and the contracts that live by the clock, each in behaviours of its own. Mint queue with two replicas, late heartbeats and one failure anywhere: `MintedOncePerOutcome`, `ThreeAttempts`, `ReleaseOnlyOwn`, and `RowsSettle` (liveness). Fees: is a quote never older than the cache's time (`QuotesRecent`), does the latest change take over in the end (`LatestTakesOver`, liveness)? Claimable balances: are both rows true and final (`BalancesRecorded`), does an effect that is still to come settle its payment (`EffectsSettle`, liveness)? Confirmations: `ConfirmedOnce`, `ConfirmationsEnd` (liveness). Schedules: `ScheduleKept`. Vaults: `SavingsSafe`. |
| `lock_renewal` | `LockRenewal.cfg` | Finding 4. |
| `served_requests` | `MCRequests`, `MCRequests.cfg` | What happens while requests are served, again each in behaviours of its own. Two payments of one wallet, lost requests and answers, timeouts, a lagging node, a foreign transaction: `PaidOnce`, `ResultIsTrue`, `QueueKept`, and `CallsSettle` (liveness). Repeated requests: `AnswersKept`. Two tabs: `OneSuccessor`, `EndsRightly`. Agent escrows and their rows: `RowTellsOutcome`. |

**Several modules in one run.** `MCJobs`, `MCRequests` and `MCSettlements` extend
modules that share no variable (or, for disputes, one module and what is built on
it). The product of their behaviours would multiply the state graphs and show
nothing, so `followed` names the module a behaviour is about and the others stand
still. Each module's actions are guarded by `followed` and nothing else; where
a module needs a bound that is not a constant of its own, it is an operator
`Small...` of the MC module, with its reason. A property over all modules is
checked in all behaviours; it can fail only in those of its own.

**What the joint properties consist of.** `ResultIsTrue` is `ResolvedIsPaid` and
`FailureIsFinal`; `QueueKept` is the types, `SerialUnlessTimedOut` and
`PendingCounted`; `AnswersKept` is the types, `SpentKeyNotHandled` and
`SuccessIsOwnPayment`; `OneSuccessor` includes the types of `RefreshTokens`;
`EndsRightly` is `EndedForGood` and `NoFalseAccusation`; `BalancesRecorded` is
the types, `TablesAgree`, `OutcomeTold` and `SettledStays`; `ConfirmedOnce` is the types,
`ConfirmedAsHappened` and `FirstStatusStays`; `DisputesFunded` includes
`DisputeTypeOK`; `PayoutsSafe` is `AgentFundsCovered` (with `AgentTypeOK`) and
`PartsOfTheWhole`, which is `NobodyPaidTwice` and `PartsNotDearer`;
`ChannelsSound` is the types, `ChannelBalanced`, `ClosedAsSettled` and
`SettledOnce`; `ScheduleKept` is `PaidPerInterval`,
`NoBurst`, `EndsAsAuthorized` and `MissesExact`; `SavingsSafe` is
`SavingsCovered`, `InterestCountedOnce` and `DepositorsWarned`.

### Bounds, and why they are enough

*Contracts.* Three accounts fill the three roles of an escrow; roles are symmetric
otherwise. Two escrows (or disputes) are what it takes for one to be paid with
another's money; the proofs of section 6 remove this bound for `Escrow`.
Durations are shrunk to one or two seconds, keeping their order (hold < expiry;
a strict and a non-strict comparison at each end), and the clock stops at
`MaxTime`, past the last deadline. Amounts are chosen so that the truncating fee
bites (39 and 60 of 100 at 2.5 % and 1 %), so that partial releases drain an
escrow exactly, and so that a deposit makes it larger once (`MaxPaidIn`). The
filing fee takes a positive and a negative value, both accepted by the code.
Three officials make panels of one to three with the quorum at 60.01 % and 30 %.
`MaxBatch` is the code's 20 reduced to 1 or 2: a batch repeats one element.
`CaseIds` is the single id a foreign dispute contract returns.

*Agent escrows.* Two escrows of 40 at 50 %, confirmed in parts of 15 and 25, whose
fees round differently from the whole's; two agents, for reassignment. The
insurance share may be all of a fee (`MaxShareBps` 10000 where the code has
1000), because a tenth of these fees would round to nothing. Behind the backend
(`SmallPayouts`): one escrow, one agent, two requests at a time, one stray call,
since what the contract's settings do is already explored without the backend.

*Channels.* One channel of two stroops, payments of one and a half and of two,
two requests at once, three signed transactions (the closing one and two
settlements, so that a second close meets what is left of a first) and one other
transaction of the wallet, before, between or after them. A second channel acts on
the first only through the account's sequence number, as that transaction does; two
channels of fewer transactions give the same answer. The proof removes the bounds.

*Vaults* (`SmallVaults`). Two vaults of one saver, 8 units each, a rate at which 8
earn something in a second, two seconds, an emergency delay of one second, one
funding of the reserve: enough for a withdrawal in halves, a reserve that does
not cover the interest, a penalty, and two emergencies that overlap. `Penalty`
is the code's 2500.

*Schedules.* One schedule, since schedules share nothing. An interval of two
seconds, grace periods of one and three (below and above the interval), a limit
of two misses, none or two payments, seven seconds: three windows with all mixes
of on time, late and missed. The proofs remove the bounds.

*Disputes beside rows* (`SmallRecords`). One dispute, two requests, one stray
call, evidence limit 1, time for one appeal window. `SmallPanel` keeps apart from
a vote what a vote does not read: evidence, and more than one change of office at
a time.

*Requests.* Two requests, each with either body, after or beside a queued one,
and one failing store. *Tokens.* Two tabs, three tokens (one rotation after
another, or a fork), one trouble. *Fees.* One pair, one administrator who changes
a fee, one quote, three minutes, a cache of two. *Balances.* One balance, one
listener, three effects, one stream error and one failure. *Confirmations.* Two
payments and two workers with batches of one, so that the second payment waits
for the first; one error.

*Mint queue.* Two replicas and two rows: the one oldest row that both want, and
one behind it that must not starve, which is also below the minimum amount
(`Dust`). One slot, since slots only make collisions rarer. A time to live of two
intervals lets a lock expire during any step. One failure: the properties speak
of one lost outcome at a time (one is enough for a second mint, and for a second
`loyalty_points` row), and the three attempts need no failure (an ordinary failed
mint is not counted as one). The failure is the first replica's (`FirstFails`): the
replicas are alike, so the other half of the graph is its mirror image.

*Payments.* Two calls on one wallet are the least that can collide; wallets do not
share state. One retry of a submission, two attempts with fresh sequence
numbers, lag one, one foreign transaction: each loop is gone through and left by
its bound. With the code's three attempts the run gives the same answer on three
times the states.

`CHECK_DEADLOCK FALSE` is set in all runs because bounded instances end: the
clock stops, ids run out, every call has settled. That there is always a way on,
where the code must offer one, is stated by `ExitsOpen`, `CancelWindow`,
`SettlementOpen`, `RowsSettle`, `LatestTakesOver`, `EffectsSettle`,
`ConfirmationsEnd` and `CallsSettle`.

## 5. Fairness

The contracts promise no progress: somebody has to call. What they owe the
parties is that the call would succeed, so those properties are invariants over
`ENABLED` and need no fairness.

`FairLoyaltySpec`: each replica's job goes on (`cron` fires again and again, the
process is restarted, every awaited call returns or fails), and time passes, so
that the key of a dead replica expires. Weak fairness of the whole of
`Work(r)` suffices; nothing is assumed of heartbeats, of crashes or of which
outcome a call has. Payments need not complete.

`FairFeeSpec`: the activation job, which cron starts every minute, takes its next
step. Nothing is assumed of administrators, quotes or time.

`ClaimableBalances`: a listener with an error reconnects and its stream goes on
(`Listens`), and an `await` of a handler ends (`Handles`). Nothing is assumed of
the ledger, of who takes a balance, or of the job.

`FairConfirmSpec`: on each worker the job goes on (`Confirms`), for the same
reason as above. Lookups may end in errors as often as `MaxErrors` allows.

`MCJobs` and `MCRequests` repeat these assumptions for the behaviours in which
the module is followed.

`FairPaymentSpec`: a callback whose promise has settled runs, and a timer fires.
Nothing is assumed of Horizon, the ledger or the function of a task, which may
hang for ever; that is what the timer is for. It is assumed for every task
that the timer of a running task is not postponed for ever, and for no other
step.

## 6. The proofs

`EscrowProofs` proves for `EscrowSpec`, for any finite or infinite set of
accounts, any number of escrows and any admissible constants:

| theorem | says |
| --- | --- |
| `EscrowTypeCorrect` | `[]EscrowTypeOK`; among other things no balance and no amount is ever negative |
| `EscrowSolvent` | `[]Solvent` |
| `EscrowFlowsBalance` | `[]FlowsBalance` |
| `EscrowFeeBounded` | `[]FeeNeverAboveAgreed` |
| `EscrowPendingFunded` | `[]PendingIsFunded` |
| `EscrowPayoutsInTime` | `PayoutWindows`, an action property |

They follow from one inductive invariant, proved in `EscrowInvariant`:

    EscrowInv == EscrowTypeOK /\ (\A e : Sound(e)) /\ Unused /\ Solvent

`Sound(e)` is what has to be true of each escrow by itself: its flows balance,
a pending one holds something, its fees are below the agreed rate, and its
current rate is not above the agreed one. None of the five invariants is
inductive alone. The fee bound needs the last conjunct, since a partial
release charges the current rate; `FlowsBalance` at creation needs `Unused`
(ids above the counter have never been touched); the types need `Solvent`,
because a refund leaves the balance a natural number only if the balance covers
the escrow; and `Solvent` needs the types. Each action is a lemma
of its own: it touches at most one escrow (a batch touches fresh ones), so the
lemma shows `Sound` for that escrow and leaves the others alone (`CellStep`, `BlockStep`, `QuietStep`), and the change
of the sum follows from the lemmas of `SumsProofs`.

`SumsProofs` proves about `Total`, for a function on natural numbers, that it is
a natural number, that equal functions have equal sums, that changing the function at one place
changes the sum by the difference, and that filling a block of fresh places (a
batch) adds the block's own sum. `Total` is a recursive function, so its defining
equation is not an axiom: a table of partial sums is shown to exist (`SumExists`)
and to be unique (`SumUnique`), by induction over sets of naturals
(`SetInduction`, derived from the well-foundedness of `<`).

`JobsProofs` proves all four safety properties of the mint queue for any
number of replicas, slots, rows and failures: `LoyaltyTypeCorrect`,
`LoyaltyMintedOnce`, `LoyaltyThreeAttempts` and `LoyaltyReleaseOnlyOwn` (an
action property). The inductive invariant has two independent halves:

    RowsInv == RowsTyped /\ (\A j : RowOK(j)) /\ (\A r : WorkOK(r) /\ Alone(r))
    LockInv == LockTypeOK /\ (\A r : HoldOK(r))

`RowOK` says what a row's status tells of its history: a pending row has no mint
whose outcome is open, no `loyalty_points` row but those whose INSERT was answered
with an error (`echoes`), and a retry count of exactly two per attempt. Every mint
was taken for failed or is the one that was credited, and an echoed INSERT is both,
whence at most one row more than the echoes, and never more rows than mints.
`WorkOK` says the same for a replica in the middle of the job (between a mint and
its record there is exactly one open outcome), and `Alone` that no two replicas
work on one row. That `RowsInv` is inductive without `LockInv` is the
precise form of the code's remark that the locks are "belt and suspenders": the
row lock and the status alone prevent a second mint. `HoldOK` relates the call
of `withLock` to the place in the job, which is what makes the released key the
one that was taken. Each statement of the job is a lemma; `RowStep` and
`IdleStep` are the two ways in which a step can touch the rows.

`SettlementsProofs` proves `PayoutsSafe` (`PayoutsAlwaysSafe`), from
`AgentFundsAlwaysCovered` and `AgentPartsOfTheWhole`, for any agents, escrows, amounts and rates. The invariant
`AgentInv` is the balance equation with the types, and `SoundPayout` of each
escrow: what was released, refunded and charged add up, the fees are at most the
fee of what was released so far, and an insured escrow was settled in the agent's
favour. That rounding down part by part is never dearer rests on
`BpsOfParts`, a lemma about truncating division; the rest follows the pattern of
`EscrowProofs` (`CellStep`: what a step on one escrow must satisfy).

`JobsProofs` also proves `ScheduleKept` (`ScheduleAlwaysKept`), its action
property included, for any intervals, grace periods, limits and any number of
schedules. That a schedule is paid at most once per interval is not inductive. The
invariant `OnTime` adds that the next due date of an active schedule leaves room
for one payment more: `next >= created + (done + 1) * interval`. Executing keeps
it because `NextAnchoredDue` is at least an interval on (`AnchoredLater`), resuming
because it is one interval from now. `MissedWindows` and `WindowsOver` show the
closed form equal to the set of windows whose deadline is over.

It proves `SavingsSafe` (`SavingsAlwaysSafe`) for any savers,
vaults, rates, locks and amounts. The three parts have invariants of their own:
the balance equation with `TotalLocked`; for `InterestCountedOnce` a bound up to
the vault's last accrual, `credited * RateUnit <= deposit * MaxRate * (last -
opened)`; for `DepositorsWarned` that a vault open during an emergency was
opened before it was declared.

`SettlementsProofs` also proves `ChannelsSound` (`ChannelsAlwaysSound`) for any
channels, requests and amounts. `SettledOnce` speaks of the ledger and the rows, and
is not inductive: `ChannelInv` adds that one request holds a row (`LockExclusive`),
that what the holder read of the row is still so (`HolderSound`), and that every
transaction on its way or on the ledger is `Followed`: by the hash in a closed
row, by the one request that awaits its answer, or by nobody because an answer
was lost. The row lock is what makes `HolderSound` last until the COMMIT, and what
leaves one request that can await a settlement of the channel.

`EscrowPayoutsInTime` is of a step, so it needs no stronger invariant: `Timely`
says of one escrow that a step which pays its agent is before the expiry and one
which refunds a confirmed escrow after it, and one lemma per entry point shows it
of the escrow paid and of all others.

**The dispute contract.** `DisputeProofs` proves the four safety properties that
its passing runs check, for any users, officials, disputes, amounts, panels and periods:
`DisputesAreFunded`, `RulingsAreCarriedOut`, `AppealWindowIsKept`,
`PanelHasDecided`. The invariant is

    DisputeInv == DisputesFunded /\ (\A d : Lawful(disputes[d], outcome[d])) /\ Unused

`Lawful` says what a record's status tells of the rest of it: an open dispute has no
ruling and no appeal date, one that is appealing or under appeal has both, and a
settled one that was ever ruled on carries the status, and paid the party, of the
ruling it still records; `RulingCarriedOut` follows from it at once. Every entry point but the administration's stores one record, and
`RecordStep` re-establishes the invariant for a lawful record that moves the
balance by what it changed. For the two action properties `DecideFacts`
collects what each of the settling entry points has tested.

**What stays possible.** `CancelWindow`, `ExitsOpen` and `SettlementOpen` say that an entry
point can be called: they are about `ENABLED`, which the prover cannot expand. What
can go wrong in them is proved all the same, in two steps. `ExitsAreGuarded` shows
that `CancelEscrow`, `ReleaseEscrow` and `ExpireEscrow` are each a guard on the
current state (`CancelGuard`, `ReleaseGuard`, `ExpireGuard`: status, time and the
cover of the transfer) and an equation for the next value of every variable;
`CancelIsOpen` and `ExitsAreOpen` show from `EscrowInv` that the guards hold whenever the two
invariants demand an exit. Cover is the part that is not obvious: it needs
that one escrow's amount is at most the sum of all (`TotalMember`), and a release
that there is something left after the fee, which is so for rates below 100 percent.
`ExitsAreOpen` therefore assumes `MaxFeeBps < 10000`; the code's is 1000. For the two
contracts together `SettlementsAreGuarded` and `SettlementsAreOpen` do the same, with
`SystemInv`: a running dispute's stake is covered and its escrow is in court.

**The two contracts together.** `EscrowDisputesProofs` proves for `SystemSpec`
`TheContractsAgree`, `ConfirmedAgentsArePaid`, `StatusesTellOutcomes`,
`BothContractsSolvent` and the refinement `ThePromiseIsKept`. Its invariant adds
to those of the two contracts

    SystemInv == EscrowInv /\ DisputeInv /\ Named /\ Backed /\ Linked

`Backed(d)` ties a dispute over an escrow to it: while it runs, the escrow is in
court, is linked to it and has the same parties, agent, confirmation and amount.
`Linked(e)` is the converse, and says after the settlement that the escrow's status
and winner are the court's. Neither direction is inductive alone: that the court
settles the right escrow uses `Linked`, that no second dispute is opened over it uses
`Backed`. `Named` says that the parties passed to `open_escrow_dispute` are accounts. The joint steps are shown to be an
escrow step and a dispute step at once, so that the lemmas of the two modules
apply; all other steps are quiet for the other contract (`Calm`, `CourtCalm`).

The refinement is proved step by step. `View` expresses the mapped state by the
record and the history: what is kept for an escrow is `Due(e)`, its amount while
it is pending or in court and nothing otherwise, and what was paid out is what was
paid in less that. The sum over disputes in the mapping collapses because at most
one dispute over an escrow runs (`SystemInv`). Every step then changes one escrow's
view as `EscrowPromise` allows, or none. `PromiseSpec` is a safety specification;
that the money does leave in the end is not part of it.

Each contract also keeps its own specification beside the other.
`EscrowKeepsItsSpecification` and `CourtKeepsItsSpecification` show that `SystemSpec` implements
`EscrowSpec` and `DisputeSpec`: the joint steps, in which one contract calls the other,
do nothing to either that its specification by itself does not allow an unknown caller.
What the single contracts promise then holds of the two
together (`EscrowPromisesHoldTogether`, `CourtPromisesHoldTogether`), among it the action
properties, which the passing runs check of the single contracts only. The hypotheses
are about what stands for the unknown contract in the single
specifications: the dispute ids it may return (`CaseIds`) include the court's, and
the disputes it may open (`Backings`) those over an escrow. For the
escrow contract it comes down to `DecisionCloses`: a settlement does nothing to it, or
what `close_disputed_escrow` does with a winner that is an account.

The agent-escrow contract keeps the promise, too (`TheAgentPromiseIsKept`, in
`SettlementsProofs`: `AgentSpec` implements `EscrowPromise` under the mapping `AgentPromise`).
An escrow's phase and what is kept for it follow from its record; what has left it is
what the ledger has for agents, fees and sender, insurance aside, which comes out
of the fees. `AgentInv` is not enough for that: that a closed escrow is empty and
an open one is not needs `RestsWhole` (a pending escrow was not released in
full, a completed one was). With it a step is known by what it does to the records (`RecordsMove`:
one is born or advanced, or none changes). No run checks
this refinement; it is only proved.

**The backend beside the contracts.** `BackendIsAClient` (`PayoutsSpec =>
AgentSpec`) and `RecordsAreAClient` (`RecordsSpec => DisputeSpec`, where every
account may submit evidence) say that the requests, lost answers and late calls of
the backend do to the contracts only what any caller may; so what is proved of the
contracts holds beside the backend as well. `RowsTellOutcomes` needs of every call on
its way, given up or not, that it was made for the escrow its row names, and of the
contract that a final status stays (`OutcomesStay`). `RowsTellRulings` rests on
`RulingLasts`: the contract never takes a dispute with a ruling back to Open, and only
the super-arbitrator, who settles it in the same step, replaces the ruling. A
request that has ruled therefore still holds the standing ruling when it gets to
its row, however late.

**Requests** (`RequestsProofs`).

* *Payments.* `PaymentsPaidOnce`, `ResultsAreTrue`, and `QueueIsKept` for the queue below
  them. A transaction is `Dead` when its sequence number is not above the
  account's: it cannot apply any more, and stays so. By where a send is, the
  invariant says that only its current transaction may still apply (`OnlyCurrent`),
  or none (`NothingLeft`), and that what has applied besides has failed. So a new
  transaction is signed only where the old one is dead or has failed, although the
  send may act on a sequence number that Horizon answered long ago.
* *Tokens.* `TokensInOneLine`, `FamiliesEndRightly`. `Known` are the tokens that have left
  the database. `OneLine`: at most one known token is valid; the successor that a
  request has inserted is known to nobody else until the request has claimed the
  token it replaces, which is a conditional UPDATE that one request wins.
  `Undisturbed` is the part for browsers whose tabs take turns: one
  refresh at a time, and what the jar has is valid unless the session was ended.
* *Idempotent requests.* `AnswersAreKept`, for `MaxSlips <= 1`: of all calls of Redis and of
  the database at most one fails. The hypothesis is needed. With two failures both
  copies of an answer can be lost, and TLC shows the second payment; the run has
  the bound 1 for the same reason. Retries, kept and dropped keys, concurrent
  requests and requests lost on their way are not limited. `SuccessBacked` says that an answer
  of success, wherever it is, stands for a payment of its own key and body;
  `AnswersHeld` that a key that was answered has a copy in one store, in both as long
  as nothing has failed.

**Jobs** (`JobsProofs`, beside the mint queue and the contracts above).

* *Confirmations.* `ToldOnce`: a row, and a lookup that a worker holds, is `Truthful`
  about what the ledger did, or about a payment a node did not know in time; and a row
  leaves `confirming` once because the UPDATE has that condition.
* *Claimable balances.* `BalancesToldTruly`: the two rows are always in one of five pairs of
  states, because every write of them is one statement. An
  effect on the feed names a balance that was taken, which stays so
  (`RowsRight`); hence a replayed or late effect still writes what is true.
* *Fees.* `QuotesAreRecent`: what the cache has under a key was in force when it was read,
  and has been off for at most the minutes the key has used up (`CacheRecent`); what
  a process has read and not yet written was in force within this minute (`TaskRecent`).
  This is a premise of the model, not a result: no process takes a minute from its read
  to its write (`MinutePasses`), and one that stalls for longer would keep an old
  row in the cache for as much longer. Rows only ever grow
  (`Grows`): a row keeps its pair and date, and one that is turned off is so from now.

Assumptions: `EscrowConstants` in `Escrow` (the limits are ordered as in the
code: fees at most 10000 basis points, the hold period shorter than the expiry,
positive minimum), `DisputeConstants`, `AgentEscrowConstants`, `RecurringConstants`,
`SavingsConstants`, `ChannelConstants`, `FeeConstants`, `BalanceConstants`,
`ConfirmationConstants` and those of the other backend modules, and `MaxTimeAssumption` (amounts and
durations are natural numbers, fee and interest rates at most 10000 basis points,
intervals positive, as the code's checks require; the penalty of savings-vault is any
natural number, since `initialize` checks none; the values that stand for
"nothing", such as `Nobody`, `"other"` and `"none"`, are not accounts, balances or
pairs). TLC evaluates all of them in
the runs. The inputs (`Offers`, `Claims`, `Amounts`, ...) are arbitrary sets there, so
the theorems do not depend on the values a run tries.

Every safety property of a passing run is stated by a theorem, except those over
`ENABLED`. Only model-checked, because out of the prover's reach: liveness
(`RowsSettle`, `LatestTakesOver`, `EffectsSettle`, `ConfirmationsEnd`, `CallsSettle`)
and the `ENABLED` itself in `CancelWindow`, `ExitsOpen` and `SettlementOpen`, of which the guards
are proved (above).

## 7. Where the code and its documentation disagree

1. `batch_create_escrow` makes no KYC check (`escrow/src/lib.rs`, from line
   1323), although a configured KYC contract is documented as enabling "KYC
   checks on escrow creation" (line 1434). `escrow_kyc`.
2. `cast_vote` compares each side with the quorum, the recipient's first, and
   never the two sides with one another. When the quorum is lowered between two
   votes, the recipient may be paid with fewer votes than the sender has; "the
   winning side" (lines 1207-1208) is then the losing one.
   `dispute_winning_side`.
3. `claim_expired` pays the sender of a free-form dispute whoever funded it; the
   crate's README (lines 17-18) says the amount is refunded to the dispute's
   `funds_owner`. `dispute_expiry`.
4. The heartbeat of `withLock` clears its own interval after the first renewal
   (`distributedLock.js:116`), so a lock is renewed once instead of "for as long
   as `fn` is running" (lines 79-80), and expires unnoticed. `lock_renewal`.
   `MintedOncePerOutcome` still holds, in runs where the lock expires at any
   point, because the row lock and the status protect the rows.

Seen while modelling, without a run of their own: tasks of one wallet do overlap
after a timeout, although `txQueue.js` calls them serial (`SerialUnlessTimedOut`
states what is true); the recovery by `bumpSequence` in `stellar.js` is after a
loop that never ends normally and cannot be reached (line 753); every failed
payment falls back to a claimable balance, not only one without a trustline;
`expire_escrow` leaves `updated_at`, so a retention period may start before the
end; the indexer keeps only gaps above its last ledger, of which there are none
(`contractEventIndexer.js:237`).

Seen in the parts modelled later, also without a run:

* *Mint queue.* The catch that handles a failed mint also handles the writes after it
  (`loyaltyMintJob.js`, from line 165), and a write may commit although its answer is
  lost. After an INSERT of that kind (lines 134-146) the row is pending again, and the
  next attempt mints again and inserts a second `loyalty_points` row: nothing makes
  `transaction_id` unique, and the id is new each time. `MintedOncePerOutcome` counts
  these rows as `echoes` and excuses no other.
* *Requests.* An answer of 5xx is not kept, and a lost answer to a payment that
  succeeded after the marker expired is not known to the next attempt if no
  store has it: the retry may pay again, although `OfflineBanner.jsx` (lines 122-126)
  says that the backend "will see the same Idempotency-Key and return the cached
  response". Two requests with one key that read the marker together are both
  handled, one after the other. An error that Horizon answers, its own timeout
  included, becomes a 400 (`paymentController.js:799`) and is kept, although the
  payment may have applied. An entry of the offline queue that was left `syncing` is
  sent again by another tab or after a reload, and can be cancelled while it is being
  sent (`offlineDB.js`, lines 184-189: every status is returned). A payment queued offline carries no step-up token, so
  that its replay is refused where one is required.
* *Tokens.* The `SELECT` of the refresh handler lacks a comma, and
  `sessionController.js` does not parse; the model takes the statement as it is
  meant. A response lost for longer than the grace of 20 seconds ends in an
  accusation of reuse (`NoFalseAccusation` says only then), and without Web Locks a
  late response may put an older cookie back.
* *Fees.* `UNIQUE (fee_type, asset_code, is_active)` allows one inactive row per
  pair, so a fee can be changed once and no more.
* *Claimable balances.* A balance that the sender takes back before the expiry job
  ran is recorded as claimed and completed; an effect that is processed before
  the rows are inserted is lost; the saved cursor may pass an effect whose handler
  is still at work; without a cursor a stream starts at `now`. The sender's own claim
  is told from the recipient's by `effect.claimant` (`ledgerListener.js:130`), and the
  model takes for granted that the effect has this field; if it does not, a payment
  that was taken back after its expiry is recorded as completed.
* *Confirmations.* A payment that a lagging node does not know when its time is over is
  marked failed for good (`unknown` in `ConfirmedAsHappened`).
* *Agent escrows, backend.* `create` calls functions that `paymentController.js`
  does not export, and `cancel` writes `cancelled_at`, which no migration adds;
  the model does what the tests mock. The row holds the configured fee while the
  contract is given `DEFAULT_FEE_BPS`. `partialRelease` changes only the row. After a
  reassignment the backend's `confirm` is refused for ever. A create whose answer is
  lost leaves an escrow without a row, and a row may stay pending after its
  escrow is settled.
* *Disputes, backend.* A row becomes resolved when the contract has merely opened the
  appeal window; nothing calls `finalize_resolution`, reads an appeal's outcome, or
  sets `expired`. The limit on evidence can be passed by two requests at once;
  evidence stays in the database when the call to the contract fails. The
  ticket's update of an open may come after that of a resolve and leave the ticket
  in dispute. Only the sender can open a dispute through the platform.
* *Schedules.* `execute_payment` transfers the contract's token, whatever asset the
  schedule names. Pausing and resuming drops misses that were due. With a grace
  period of an interval or more, a late execution skips windows without counting
  them. The comment at line 424 says misses are "incremented by 1"; the code
  counts every window.
* *Payment channels.* A second request to close "will see status = 'closed' and return a
  404 error rather than submitting a duplicate on-chain transaction"
  (`paymentChannel.js`, lines 164-165). That is so while the first one ends well; if its
  answer is lost or its UPDATE fails, the row stays open and the next close
  pays the recipient again (`SettledOnce` says only then). The file speaks of a
  "shared escrow account" that both parties fund (line 5); the funds stay in the
  sender's own account and may be gone at the settlement. A channel without
  payments can be closed only by the transaction signed at its opening, which is
  refused for a day and, as soon as the wallet has sent anything else, for ever. A
  close signs with the user's default wallet, which need not be the channel's. A
  payment that ends in half a stroop takes less from the sender's balance than it
  adds to the recipient's.
* *Savings.* Nothing records a yield above zero, so that `claim_yield` always
  panics and distributed yield stays in the contract, as penalties do. A penalty rate
  above 10000 basis points is accepted; an early withdrawal whose penalty is above the
  sum panics. A new
  interest rate applies to the time since the last accrual. A vault
  with no balance and interest owed can be closed only by an emergency. An
  announced emergency that is 48 hours old cannot be taken back, so deposits stay
  closed for ever; `deactivate_emergency` has no such check although it is
  documented with one. Vault ids are counted for all users together.

## 8. What is not modelled, and why

* **Crates and files that do not build at this commit.** A merge kept two versions
  of some lines. Where the rest determines the program, it is modelled as it is
  meant: escrow (a brace is missing before line 296), agent-escrow,
  recurring-payments (attributes repeated at lines 38-39 and 145-148), savings-vault, the
  refresh handler. Where it does not: multisig-approval (statements repeated in the middle of functions),
  `scheduledPaymentsJob.js` (two bodies of one function, each with its own
  payment, lines 155 and 167), and `paymentController.js` as a whole (two openings of
  one call, lines 512 and 513), of which the parts other modules rest on are
  modelled.
* **Multisig approval** is worth a module once it compiles: a new quorum is
  checked against the signers when it is proposed and not when it is applied, so
  that removing a signer in between leaves one that nobody can reach; and the
  documented limit on a signer's weight is compared with a count of approvers.
* **Event indexer**: it parses a column of type JSONB, which is an object
  already, is scheduled without a contract id, and writes columns the migration
  does not have. **Channel account pool**: used by nothing but its tests.
  **Fee distributor, loyalty token, KYC attestation**: bookkeeping that no modelled
  property depends on.
* **In the modelled contracts**: upgrade proposals, storage rent, events, views,
  and the per-user index of the last 1000 disputes, on which no settlement
  depends; pausing and `update_admin` in agent-escrow and savings-vault;
  `claim_yield`, which always panics; `update_amount`, `update_recipient` and the
  lists per sender in recurring-payments.
* **In the modelled backend parts**: previews and reminders of fee changes;
  suspension of accounts and the life of a refresh token in days; the payment
  streams of the ledger listener, which only notify; expiry of kept answers after 24
  hours; `batch` and path payments, trustlines and
  offers; validation of Horizon's answers against a schema; metrics other than
  `pendingTasksTotal`; the lock without Redis, where it does nothing; enqueueing
  into the mint queue and redemption of points.
* **Partial releases round the fee down each time**, so that many small ones pay
  less than one large one. The code's comments accept this; the bound that is
  stated (`FeeNeverAboveAgreed`) is the user's.
* **Fraud rules, referral rewards, webhooks, exchange**: called around a payment
  by the controller that does not parse. Worth a module then: velocity and daily limits
  are counted before a payment is recorded, so that payments in flight together
  all pass, and a referral reward that is interrupted before its mint stays pending.
* **The rest of the web clients, analytics, notifications, anchors, KYC and support handlers**: no
  state that another part relies on beyond a row.

## 9. Running

    tlasany M.tla                                  # parse
    tlc -workers 2 -config MCEscrowFunds.cfg MCEscrow
    tlc -workers 2 -config MCJobs.cfg MCJobs
    tlapm EscrowProofs.tla                         # proofs

Passing runs take up to about four minutes; the proofs several minutes.
A run listed with "violation" in `PROJECT.json` ends with the counterexample its
finding describes.
