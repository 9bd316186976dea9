-------------------------- MODULE DistributedLock --------------------------
(***************************************************************************)
(* The Redis lock of backend/src/utils/distributedLock.js: withLock takes  *)
(* a key with SET NX EX, runs a heartbeat while the caller's function is   *)
(* running, and deletes the key at the end if it is still its own.         *)
(*                                                                         *)
(* Time is counted in heartbeat intervals (a third of the time to live).   *)
(* The lock value, random in each call, is the replica: a replica is       *)
(* inside at most one withLock, and its next SET NX on a key needs the key *)
(* gone, so an old value of its own can never be taken for the new one.    *)
(***************************************************************************)
EXTENDS Integers

CONSTANTS
    Replicas,     \* the backend processes, each running the scheduler
    Slots,        \* the lock keys, 1..Concurrency of the job that takes them
    Unowned,      \* the value of a key that does not exist
    TtlBeats,     \* the time to live, in heartbeat intervals
    PromptTimers, \* whether a heartbeat fires before the next interval ends
    MaxFaults     \* bound: how many failures of Redis, of the database, ...

ASSUME LockConstants ==
    /\ Unowned \notin Replicas
    /\ Slots \subseteq Nat \ {0}
    /\ TtlBeats \in Nat \ {0}
    /\ PromptTimers \in BOOLEAN
    /\ MaxFaults \in Nat

VARIABLES
    keys,   \* Redis: each lock key's value and time left
    holds,  \* each replica's call of withLock: key, heartbeat, isLockLost
    faults  \* failures so far

lockVars == <<keys, holds, faults>>

NoKey  == [owner |-> Unowned, left |-> 0]
NotIn  == [slot |-> 0, beat |-> "off", lost |-> FALSE]

Owns(r, s) == keys[s].owner = r

Fail == faults < MaxFaults /\ faults' = faults + 1

LockInit ==
    /\ keys = [s \in Slots |-> NoKey]
    /\ holds = [r \in Replicas |-> NotIn]
    /\ faults = 0

-----------------------------------------------------------------------------
\* acquireLock succeeds; withLock starts the heartbeat and calls fn.
Acquire(r, s) ==
    /\ Owns(Unowned, s)
    /\ keys' = [keys EXCEPT ![s] = [owner |-> r, left |-> TtlBeats]]
    /\ holds' = [holds EXCEPT ![r] =
                    [slot |-> s, beat |-> "armed", lost |-> FALSE]]
    /\ UNCHANGED faults

\* acquireLock returns false: the key exists, or Redis does not answer.
AcquireRefused(r, s) ==
    /\ \/ ~Owns(Unowned, s) /\ UNCHANGED faults
       \/ Fail
    /\ UNCHANGED <<keys, holds>>

\* The interval's callback: renewLock, the loss it may report, and the
\* clearInterval at its end, which the code calls whatever the answer was.
Heartbeat(r) ==
    LET s == holds[r].slot IN
    /\ holds[r].beat = "due"
    /\ \/ /\ Owns(r, s)
          /\ keys' = [keys EXCEPT ![s].left = TtlBeats]
          /\ holds' = [holds EXCEPT ![r].beat = "off"]
          /\ UNCHANGED faults
       \/ /\ \/ ~Owns(r, s) /\ UNCHANGED faults
             \/ Fail
          /\ holds' = [holds EXCEPT ![r].beat = "off", ![r].lost = TRUE]
          /\ UNCHANGED keys

\* Mutant of Release: DEL without comparing the value.
ReleaseUnchecked(r) ==
    /\ holds' = [holds EXCEPT ![r] = NotIn]
    /\ keys' = [keys EXCEPT ![holds[r].slot] = NoKey]
    /\ UNCHANGED faults

\* The finally of withLock: the heartbeat is cleared, then the script deletes
\* the key if its value is this call's; an error of Redis is only logged.
Release(r) ==
    LET s == holds[r].slot IN
    /\ holds' = [holds EXCEPT ![r] = NotIn]
    /\ \/ /\ keys' = IF Owns(r, s) THEN [keys EXCEPT ![s] = NoKey] ELSE keys
          /\ UNCHANGED faults
       \/ UNCHANGED keys /\ Fail

\* One heartbeat interval passes: keys age, and armed heartbeats fall due.
Elapse ==
    /\ PromptTimers => \A r \in Replicas : holds[r].beat # "due"
    /\ \E s \in Slots : ~Owns(Unowned, s)
    /\ keys' = [s \in Slots |->
                  IF keys[s].left <= 1 THEN NoKey
                  ELSE [keys[s] EXCEPT !.left = @ - 1]]
    /\ holds' = [r \in Replicas |->
                  IF holds[r].beat = "armed"
                  THEN [holds[r] EXCEPT !.beat = "due"] ELSE holds[r]]
    /\ UNCHANGED faults

-----------------------------------------------------------------------------
LockTypeOK ==
    /\ keys \in [Slots -> [owner : Replicas \cup {Unowned}, left : 0..TtlBeats]]
    /\ \A s \in Slots : keys[s].left = 0 <=> Owns(Unowned, s)
    /\ holds \in [Replicas -> [slot : Slots \cup {0},
                               beat : {"off", "armed", "due"},
                               lost : BOOLEAN]]
    /\ faults \in 0..MaxFaults

\* A key disappears before its time is over only when the replica whose value
\* it holds leaves withLock: the check-and-delete script never removes a lock
\* that a second replica took after the first one's had expired.
ReleaseOnlyOwn ==
    [][\A s \in Slots : \A r \in Replicas :
          (Owns(r, s) /\ keys[s].left > 1 /\ ~Owns(r, s)')
             => (holds[r].slot = s /\ holds'[r].slot = 0)]_lockVars

\* While the function runs, its replica owns the key or has been told that it
\* lost it: "re-extends the lock's TTL at TTL/3 intervals for as long as fn is
\* running", and a failed renewal is flagged.
HolderOwnsOrKnows ==
    \A r \in Replicas :
        holds[r].slot # 0 => Owns(r, holds[r].slot) \/ holds[r].lost

=============================================================================
