---------------------------- MODULE SavingsVault ----------------------------
(***************************************************************************)
(* The savings-vault contract (contracts/savings-vault/src/lib.rs): users  *)
(* lock deposits in vaults of their own, interest is paid from a reserve   *)
(* that a distributor fills, leaving early costs a penalty that stays in   *)
(* the contract, and an emergency lets the admin close a user's vaults.    *)
(*                                                                         *)
(* An entry point is one action and a panic is an action that is not       *)
(* enabled.  Vault ids are counted for all users together.  claim_yield is *)
(* not modelled: nothing ever writes a YieldAccrued above zero, so it      *)
(* always panics.                                                          *)
(***************************************************************************)
EXTENDS LedgerClock, Sums

CONSTANTS
    Savers,        \* users
    MaxVaults,     \* bound: vaults ever opened
    SavedSums,     \* input: amounts deposited
    TakenSums,     \* input: amounts withdrawn
    Locks,         \* input: seconds from a deposit to its unlock_time
    Rates,         \* input: interest rates the admin sets
    MaxRate,       \* MAX_INTEREST_BPS
    FundingSums,   \* input: amounts put into the reserve, or distributed
    MaxFunds,      \* bound: what the contract holds
    DefaultMinLock, DefaultMaxLock, \* the bounds set by initialize
    MinLocks,      \* input: min_secs of update_lock_bounds
    Penalty,       \* penalty_bps
    RateUnit,      \* 10000 * SECONDS_PER_YEAR
    EmergencyDelay \* 48 hours

ASSUME SavingsConstants ==
    /\ MaxVaults \in Nat \ {0}
    /\ SavedSums \subseteq Nat \ {0} /\ TakenSums \subseteq Nat \ {0}
    /\ FundingSums \subseteq Nat \ {0} /\ MaxFunds \in Nat
    /\ Locks \subseteq Nat /\ Rates \subseteq Nat /\ MaxRate \in Nat
    /\ {DefaultMinLock, DefaultMaxLock} \cup MinLocks \subseteq Nat
    /\ Penalty \in Nat
    /\ RateUnit \in Nat \ {0} /\ EmergencyDelay \in Nat

VaultIds == 1..MaxVaults

VARIABLES
    vaults,      \* the vault kept under every id, and its owner
    opened,      \* vaults opened so far
    rate,        \* InterestRateBps
    reserve,     \* InterestReserve
    totalLocked, \* TotalLocked
    bounds,      \* MinLockSecs and MaxLockSecs
    emergency,   \* announced, activated: whether, and when
    vaultFunds,  \* the contract's token balance
    story        \* history: deposit, time of opening, interest credited

vaultVars ==
    <<vaults, opened, rate, reserve, totalLocked, bounds, emergency, vaultFunds, story>>
savingsVars == <<now, vaultVars>>

NoVault == [owner |-> "none", balance |-> 0, unlock |-> 0, since |-> 0, accrued |-> 0]
Calm == [on |-> FALSE, at |-> 0]

SavingsInit ==
    /\ ClockInit
    /\ vaults = [v \in VaultIds |-> NoVault]
    /\ opened = 0
    /\ rate = 0
    /\ reserve = 0
    /\ totalLocked = 0
    /\ bounds = [min |-> DefaultMinLock, max |-> DefaultMaxLock]
    /\ emergency = [announced |-> Calm, activated |-> Calm]
    /\ vaultFunds = 0
    /\ story = [v \in VaultIds |-> [deposit |-> 0, since |-> 0, credited |-> 0]]

IsOpen(v) == vaults[v] # NoVault
Smaller(a, b) == IF a < b THEN a ELSE b

\* What the settings calls leave alone.
SameVaults == UNCHANGED <<vaults, opened, totalLocked, story>>
SameSettings == UNCHANGED <<rate, bounds, emergency>>

-----------------------------------------------------------------------------
\* assert_accepting_deposits
AcceptingDeposits == ~emergency.announced.on /\ ~emergency.activated.on

OpenVault(u, sum, lock) ==
    LET v == opened + 1 IN
    /\ AcceptingDeposits
    /\ lock > 0 /\ lock >= bounds.min /\ lock <= bounds.max
    /\ opened < MaxVaults /\ vaultFunds + sum <= MaxFunds
    /\ opened' = v
    /\ vaults' = [vaults EXCEPT ![v] =
          [owner |-> u, balance |-> sum, unlock |-> now + lock, since |-> now,
           accrued |-> 0]]
    /\ totalLocked' = totalLocked + sum
    /\ vaultFunds' = vaultFunds + sum
    /\ story' = [story EXCEPT ![v] = [deposit |-> sum, since |-> now, credited |-> 0]]
    /\ SameSettings /\ UNCHANGED <<now, reserve>>

\* accrue_interest_internal: what a vault has earned since the last time, by
\* the rate of today.
Earned(v) == (vaults[v].balance * rate * (now - vaults[v].since)) \div RateUnit

\* ... credited; the time is moved on even when it rounds to nothing.
Accrued(v) == [vaults[v] EXCEPT !.accrued = @ + Earned(v), !.since = now]

NoteYield(v) == story' = [story EXCEPT ![v].credited = @ + Earned(v)]

AccrueInterest(v) ==
    /\ IsOpen(v)
    /\ rate > 0
    /\ vaults' = [vaults EXCEPT ![v] = Accrued(v)]
    /\ NoteYield(v)
    /\ SameSettings /\ UNCHANGED <<now, opened, reserve, totalLocked, vaultFunds>>

\* Mutant of SettleInterest: the reserve is not charged.
SettleFromFunds(v, sum, net) ==
    LET due == (Accrued(v).accrued * sum) \div vaults[v].balance
        paid == Smaller(due, reserve)
        left == [Accrued(v) EXCEPT !.balance = @ - sum, !.accrued = @ - paid]
    IN  /\ net + paid <= vaultFunds
        /\ vaultFunds' = vaultFunds - net - paid
        /\ UNCHANGED reserve
        /\ vaults' = [vaults EXCEPT ![v] =
              IF left.balance = 0 /\ left.accrued = 0 THEN NoVault ELSE left]

\* settle_interest_payment and the transfer of the principal: the part of the
\* interest that goes with this part of the principal, as far as the reserve
\* goes; what it lacks stays owed.  An empty vault is deleted.
SettleInterest(v, sum, net) ==
    LET due == (Accrued(v).accrued * sum) \div vaults[v].balance
        paid == Smaller(due, reserve)
        left == [Accrued(v) EXCEPT !.balance = @ - sum, !.accrued = @ - paid]
    IN  /\ net + paid <= vaultFunds
        /\ vaultFunds' = vaultFunds - net - paid
        /\ reserve' = reserve - paid
        /\ vaults' = [vaults EXCEPT ![v] =
              IF left.balance = 0 /\ left.accrued = 0 THEN NoVault ELSE left]

\* A penalty is not paid out, and is booked nowhere.  initialize takes any rate;
\* a penalty above the sum makes the transfer negative, and the call fails.
WithdrawFrom(v, sum) ==
    LET fine == IF now < vaults[v].unlock THEN (sum * Penalty) \div 10000 ELSE 0 IN
    /\ IsOpen(v) /\ sum <= vaults[v].balance /\ fine <= sum
    /\ SettleInterest(v, sum, sum - fine)
    /\ totalLocked' = totalLocked - sum
    /\ NoteYield(v)
    /\ SameSettings /\ UNCHANGED <<now, opened>>

SetInterestRate(bps) ==
    /\ bps <= MaxRate
    /\ rate' = bps
    /\ SameVaults /\ UNCHANGED <<now, reserve, bounds, emergency, vaultFunds>>

FundReserve(sum) ==
    /\ vaultFunds + sum <= MaxFunds
    /\ reserve' = reserve + sum
    /\ vaultFunds' = vaultFunds + sum
    /\ SameVaults /\ SameSettings /\ UNCHANGED now

\* distribute_yield: kept by the contract, or passed on to the admin when
\* nothing is locked.
DistributeYield(sum) ==
    /\ totalLocked # 0
    /\ vaultFunds + sum <= MaxFunds
    /\ vaultFunds' = vaultFunds + sum
    /\ SameVaults /\ SameSettings /\ UNCHANGED <<now, reserve>>

SetBounds(min, max) ==
    /\ min < max
    /\ bounds' = [min |-> min, max |-> max]
    /\ SameVaults /\ UNCHANGED <<now, rate, reserve, emergency, vaultFunds>>

-----------------------------------------------------------------------------
\* Two emergencies beside each other: announced, which can be taken back only
\* before its delay is over, and activated, which can always be.
Declares(kind, state) ==
    /\ emergency' = [emergency EXCEPT ![kind] = state]
    /\ SameVaults /\ UNCHANGED <<now, rate, reserve, bounds, vaultFunds>>

Over(kind) == emergency[kind].on /\ now >= emergency[kind].at + EmergencyDelay

Announce(kind) ==
    /\ ~emergency[kind].on
    /\ Declares(kind, [on |-> TRUE, at |-> now])

TakeBack(kind) ==
    /\ emergency[kind].on
    /\ kind = "announced" => ~Over(kind)
    /\ Declares(kind, Calm)

\* close_all_vaults, by emergency_withdraw or emergency_return_funds: all the
\* principal, and the interest as far as the reserve goes; the rest is lost.
CloseAll(u) ==
    LET mine == {v \in VaultIds : IsOpen(v) /\ vaults[v].owner = u}
        principal == Total([v \in VaultIds |->
                              IF v \in mine THEN vaults[v].balance ELSE 0], MaxVaults)
        due == Total([v \in VaultIds |->
                        IF v \in mine THEN Accrued(v).accrued ELSE 0], MaxVaults)
        paid == Smaller(due, reserve)
    IN  /\ Over("announced") \/ Over("activated")
        /\ mine # {} /\ (principal > 0 \/ due > 0)
        /\ principal + paid <= vaultFunds
        /\ vaults' = [v \in VaultIds |-> IF v \in mine THEN NoVault ELSE vaults[v]]
        /\ story' = [v \in VaultIds |->
              IF v \in mine THEN [story[v] EXCEPT !.credited = @ + Earned(v)] ELSE story[v]]
        /\ reserve' = reserve - paid
        /\ totalLocked' = totalLocked - principal
        /\ vaultFunds' = vaultFunds - principal - paid
        /\ SameSettings /\ UNCHANGED <<now, opened>>

SavingsNext ==
    \/ \E u \in Savers :
          \/ \E sum \in SavedSums, lock \in Locks : OpenVault(u, sum, lock)
          \/ CloseAll(u)
    \/ \E v \in VaultIds :
          \/ \E sum \in TakenSums : WithdrawFrom(v, sum)
          \/ AccrueInterest(v)
    \/ \E bps \in Rates : SetInterestRate(bps)
    \/ \E sum \in FundingSums : FundReserve(sum) \/ DistributeYield(sum)
    \/ \E min \in MinLocks : SetBounds(min, DefaultMaxLock)
    \/ \E kind \in {"announced", "activated"} : Announce(kind) \/ TakeBack(kind)
    \/ Tick /\ UNCHANGED vaultVars

SavingsSpec == SavingsInit /\ [][SavingsNext]_savingsVars

-----------------------------------------------------------------------------
Principals == [v \in VaultIds |-> vaults[v].balance]

\* The contract can always pay every saver's principal and the whole reserve:
\* no interest, penalty or emergency is paid out of somebody else's deposit;
\* and TotalLocked, which decides who gets a distribution, is that principal.
SavingsCovered ==
    /\ totalLocked = Total(Principals, MaxVaults)
    /\ vaultFunds >= totalLocked + reserve

\* However often interest is accrued and the rate is changed, and whatever is
\* withdrawn in between, a vault is credited no more than its whole deposit
\* earns at the highest rate: no second counts twice.
InterestCountedOnce ==
    \A v \in VaultIds :
        story[v].credited * RateUnit <=
            story[v].deposit * MaxRate * (now - story[v].since)

\* When the admin may close vaults, every vault there is was open for the 48
\* hours of the warning: two emergencies, switched on and off in any order,
\* leave no gap in which a deposit is taken and soon closed.
DepositorsWarned ==
    Over("announced") \/ Over("activated") =>
        \A v \in VaultIds : IsOpen(v) => story[v].since + EmergencyDelay <= now

\* What a saver is promised: the money is there, it earns what it should, and
\* it is not sent back without warning.
SavingsSafe == SavingsCovered /\ InterestCountedOnce /\ DepositorsWarned
=============================================================================
