------------------------- MODULE RecurringPayments -------------------------
(***************************************************************************)
(* The recurring-payments contract (contracts/recurring-payments/src/lib.  *)
(* rs): a sender allows a payment every interval, anyone may execute it    *)
(* when it is due, and windows that nobody executed in time are counted    *)
(* until the schedule is cancelled.                                        *)
(*                                                                         *)
(* The contract holds no money: an execution whose transfers fail changes  *)
(* nothing, so a payment is a count and the time it was made at.  Amount,  *)
(* recipient and asset are left out: no guard reads them.                  *)
(***************************************************************************)
EXTENDS LedgerClock

CONSTANTS
    MaxSchedules,  \* bound: schedule ids are 1..MaxSchedules
    Intervals,     \* input: seconds between payments
    Graces,        \* input: grace_period_secs
    MissLimits,    \* input: max_missed_executions
    Executions     \* input: max_executions, 0 for no limit

ASSUME RecurringConstants ==
    /\ MaxSchedules \in Nat \ {0}
    /\ Intervals \subseteq Nat \ {0}
    /\ Graces \subseteq Nat \ {0} /\ MissLimits \subseteq Nat \ {0}
    /\ Executions \subseteq Nat

Schedules == 1..MaxSchedules

VARIABLES
    schedules,  \* the schedule kept under every id
    missed,     \* MissedExecutions: the count kept a second time
    authorized, \* Counter
    record      \* history: when each was created, and last paid

scheduleVars == <<schedules, missed, authorized, record>>
recurringVars == <<now, scheduleVars>>

NoSchedule == [interval |-> 1, grace |-> 1, missLimit |-> 1, limit |-> 0,
               next |-> 0, done |-> 0, misses |-> 0, status |-> "none"]
NoRecord == [created |-> 0, paid |-> 0]

Statuses == {"none", "active", "paused", "cancelled", "completed"}
Schedule ==
    [interval : Nat \ {0}, grace : Nat \ {0}, missLimit : Nat \ {0}, limit : Nat,
     next : Nat, done : Nat, misses : Nat, status : Statuses]

RecurringInit ==
    /\ ClockInit
    /\ schedules = [s \in Schedules |-> NoSchedule]
    /\ missed = [s \in Schedules |-> 0]
    /\ authorized = 0
    /\ record = [s \in Schedules |-> NoRecord]

Store(s, schedule) == schedules' = [schedules EXCEPT ![s] = schedule]

-----------------------------------------------------------------------------
CreateRecurring(interval, grace, missLimit, limit) ==
    /\ authorized < MaxSchedules
    /\ authorized' = authorized + 1
    /\ Store(authorized + 1,
             [interval |-> interval, grace |-> grace, missLimit |-> missLimit,
              limit |-> limit, next |-> now + interval, done |-> 0,
              misses |-> 0, status |-> "active"])
    /\ record' = [record EXCEPT ![authorized + 1] = [created |-> now, paid |-> now]]
    /\ UNCHANGED <<now, missed>>

\* Mutant of NextAnchoredDue: the next slot, even when it has passed.
NextDueAlways(schedule) == schedule.next + schedule.interval

\* next_anchored_due: the first slot of the schedule's grid after now, and at
\* least one interval on.
NextAnchoredDue(schedule) ==
    LET next == schedule.next + schedule.interval
        behind == now - next
    IN  IF behind < 0 THEN next
        ELSE next + (behind \div schedule.interval + 1) * schedule.interval

\* The windows whose grace period is over, the first of which is known to be.
NewlyMissed(schedule) ==
    (now - (schedule.next + schedule.grace) - 1) \div schedule.interval + 1

\* execute_payment, from next_payment_at until the grace period is over.
Execute(s) ==
    LET schedule == schedules[s]
        last == schedule.limit > 0 /\ schedule.done + 1 >= schedule.limit
    IN  /\ schedule.status = "active"
        /\ now >= schedule.next /\ now <= schedule.next + schedule.grace
        /\ schedule.limit > 0 => schedule.done < schedule.limit
        /\ Store(s, [schedule EXCEPT !.misses = 0, !.done = @ + 1,
                       !.next = NextAnchoredDue(schedule),
                       !.status = IF last THEN "completed" ELSE "active"])
        /\ missed' = [missed EXCEPT ![s] = 0]
        /\ record' = [record EXCEPT ![s].paid = now]
        /\ UNCHANGED <<now, authorized>>

\* ... and later: nothing is paid, the windows that were missed are counted.
CountMisses(s) ==
    LET schedule == schedules[s]
        total == schedule.misses + NewlyMissed(schedule)
    IN  /\ schedule.status = "active"
        /\ now > schedule.next + schedule.grace
        /\ Store(s, [schedule EXCEPT !.misses = total,
                       !.next = @ + NewlyMissed(schedule) * schedule.interval,
                       !.status = IF total >= schedule.missLimit THEN "cancelled"
                                  ELSE "active"])
        /\ missed' = [missed EXCEPT ![s] = total]
        /\ UNCHANGED <<now, authorized, record>>

CancelRecurring(s) ==
    /\ schedules[s].status \in {"active", "paused"}
    /\ Store(s, [schedules[s] EXCEPT !.status = "cancelled"])
    /\ UNCHANGED <<now, missed, authorized, record>>

Pause(s) ==
    /\ schedules[s].status = "active"
    /\ Store(s, [schedules[s] EXCEPT !.status = "paused"])
    /\ UNCHANGED <<now, missed, authorized, record>>

\* One interval from now, off the grid the schedule had.
Resume(s) ==
    /\ schedules[s].status = "paused"
    /\ Store(s, [schedules[s] EXCEPT !.status = "active",
                   !.next = now + schedules[s].interval])
    /\ UNCHANGED <<now, missed, authorized, record>>

RecurringNext ==
    \/ \E interval \in Intervals, grace \in Graces, missLimit \in MissLimits,
          limit \in Executions : CreateRecurring(interval, grace, missLimit, limit)
    \/ \E s \in Schedules :
          \/ Execute(s)
          \/ CountMisses(s)
          \/ CancelRecurring(s)
          \/ Pause(s)
          \/ Resume(s)
    \/ Tick /\ UNCHANGED scheduleVars

RecurringSpec == RecurringInit /\ [][RecurringNext]_recurringVars

-----------------------------------------------------------------------------
\* Pausing and resuming, late executions and missed windows in any order never
\* get more payments out of the sender than there were intervals since the
\* schedule was created.
PaidPerInterval ==
    \A s \in Schedules :
        schedules[s].done * schedules[s].interval <= now - record[s].created

\* What was just paid is not due: "one call never unlocks a burst of
\* back-to-back payments", although the grace period may outlast the interval.
NoBurst ==
    \A s \in Schedules :
        schedules[s].status = "active" => schedules[s].next > record[s].paid

\* A schedule ends when and only when it should: completed after exactly its
\* number of payments, never still running at the limit of misses; and the two
\* copies of the count of misses agree.
EndsAsAuthorized ==
    \A s \in Schedules :
        LET schedule == schedules[s] IN
        /\ schedule.limit > 0 => schedule.done <= schedule.limit
        /\ schedule.status = "completed" <=>
              schedule.limit > 0 /\ schedule.done = schedule.limit
        /\ schedule.status \in {"active", "paused"} =>
              schedule.misses < schedule.missLimit
        /\ missed[s] = schedule.misses

\* The closed form counts what a loop over the windows would: every window
\* whose deadline has passed, and no other, is skipped.
CountedExactly(s) ==
    LET old == schedules[s]
        Deadline(k) == old.next + k * old.interval + old.grace
        over == {k \in 0..now : Deadline(k) < now}
    IN  schedules'[s].misses > old.misses =>
           \E k \in over :
              /\ \A j \in over : j <= k
              /\ k + 1 \notin over
              /\ schedules'[s].misses = old.misses + k + 1
              /\ schedules'[s].next = old.next + (k + 1) * old.interval

MissesExact == [][\A s \in Schedules : CountedExactly(s)]_recurringVars

\* The sender pays on the schedule that was authorised, and no longer.
ScheduleKept == [](PaidPerInterval /\ NoBurst /\ EndsAsAuthorized) /\ MissesExact
=============================================================================
