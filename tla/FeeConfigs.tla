----------------------------- MODULE FeeConfigs -----------------------------
(***************************************************************************)
(* Fee configurations: services/feeConfigService.js writes fee_configs and *)
(* the cache in front of it, jobs/activateScheduledFeeConfigs.js turns     *)
(* scheduled rows on, and every quote reads through getActiveConfig.       *)
(*                                                                         *)
(* A transaction is one step: it holds the active row's lock, and two that *)
(* meet end in a violation of the unique constraint for the second, which  *)
(* is among the failures.  The reads and cache writes around it are steps  *)
(* of their own.  Time is counted in minutes of the activation job.        *)
(***************************************************************************)
EXTENDS Integers, FiniteSets

CONSTANTS
    Pairs,       \* the (fee_type, asset_code) pairs in use
    Admins,      \* administrators changing fees
    Quotes,      \* requests for a quote, one at a time each
    MaxRows,     \* bound: rows of fee_configs
    MaxMinutes,  \* bound: the clock stops here
    CacheMinutes, \* CACHE_TTL
    MaxHitches   \* bound: failures of Redis or of the database

ASSUME FeeConstants ==
    /\ MaxRows \in Nat /\ MaxMinutes \in Nat /\ MaxHitches \in Nat
    /\ CacheMinutes \in Nat \ {0}
    /\ "none" \notin Pairs

Rows == 1..MaxRows
Job == "job"

VARIABLES
    configs,  \* fee_configs: pair, effective_from, is_active of each row
    minute,   \* the clock
    cached,   \* Redis: the row kept for each pair, and the time it has left
    tasks,    \* what every administrator, quote and the job is doing
    offSince, \* when each row was last turned off
    hitches   \* failures so far

feeVars == <<configs, minute, cached, tasks, offSince, hitches>>

NoRow == 0
Blank == [pair |-> "none", from |-> 0, active |-> FALSE]
Used(i) == configs[i] # Blank
Resting == [at |-> "rest", pair |-> "none", found |-> [p \in Pairs |-> NoRow]]

\* One active row per pair, as the migration seeds them.
FeeInit ==
    /\ configs \in [Rows -> [pair : Pairs, from : {1}, active : {TRUE}] \cup {Blank}]
    /\ \A i \in Rows : Used(i) <=> i <= Cardinality(Pairs)
    /\ \A p \in Pairs : \E i \in Rows : configs[i].pair = p
    /\ minute = 1
    /\ cached = [p \in Pairs |-> [row |-> NoRow, left |-> 0]]
    /\ tasks = [t \in Admins \cup Quotes \cup {Job} |-> Resting]
    /\ offSince = [i \in Rows |-> 0]
    /\ hitches = 0

Doing(t, at) == tasks[t].at = at
Hitch == hitches < MaxHitches /\ hitches' = hitches + 1

\* The active row of a pair that is in force, if there is one.
InForce(p) ==
    {i \in Rows : configs[i].pair = p /\ configs[i].active /\ configs[i].from <= minute}
Read == [p \in Pairs |-> IF InForce(p) = {} THEN NoRow ELSE CHOOSE i \in InForce(p) : TRUE]

\* fee_configs_type_asset_unique, checked at COMMIT: at most one active and
\* one inactive row for each pair.
Allowed(table) ==
    \A i, j \in Rows :
        (i # j /\ table[i].pair # "none" /\ table[i].pair = table[j].pair)
            => table[i].active # table[j].active

Commit(table) ==
    /\ configs' = table
    /\ offSince' = [i \in Rows |-> IF configs[i].active /\ ~table[i].active
                                   THEN minute ELSE offSince[i]]

\* The rows after the UPDATEs that turn off a pair's active row and one more.
TurnOff(p, also) ==
    [i \in Rows |-> IF configs[i].pair = p \/ i = also
                    THEN [configs[i] EXCEPT !.active = FALSE] ELSE configs[i]]

-----------------------------------------------------------------------------
\* createConfig: active from now, or scheduled.  A violation of the constraint
\* rolls back and is answered with an error.
CreateConfig(a, p, from) ==
    \E i \in Rows :
        LET table == [(IF from <= minute THEN TurnOff(p, NoRow) ELSE configs)
                        EXCEPT ![i] = [pair |-> p, from |-> from,
                                       active |-> from <= minute]]
        IN /\ Doing(a, "rest")
           /\ ~Used(i) /\ \A j \in Rows : j < i => Used(j)
           /\ Allowed(table)
           /\ Commit(table)
           /\ tasks' = [tasks EXCEPT ![a].at = "read"]
           /\ UNCHANGED <<minute, cached, hitches>>

\* patchConfig: the row and its new pair's active row are turned off, and the
\* row that replaces them is active even when its time is yet to come.
PatchConfig(a, old, p, from) ==
    \E i \in Rows :
        LET table == [TurnOff(p, old) EXCEPT ![i] =
                        [pair |-> p, from |-> from, active |-> TRUE]]
        IN /\ Doing(a, "rest")
           /\ Used(old)
           /\ ~Used(i) /\ \A j \in Rows : j < i => Used(j)
           /\ Allowed(table)
           /\ Commit(table)
           /\ tasks' = [tasks EXCEPT ![a].at = "read"]
           /\ UNCHANGED <<minute, cached, hitches>>

\* refreshCache reads the rows in force; a failure here leaves the cache as it
\* is and is reported, although the change is committed.
RefreshRead(t) ==
    /\ Doing(t, "read")
    /\ \/ /\ tasks' = [tasks EXCEPT ![t].at = "write", ![t].found = Read]
          /\ UNCHANGED hitches
       \/ Hitch /\ tasks' = [tasks EXCEPT ![t] = Resting]
    /\ UNCHANGED <<configs, minute, cached, offSince>>

\* ... and then sets the keys of the rows it read and deletes the others; a
\* key whose command fails keeps what it had.
RefreshWrite(t) ==
    /\ Doing(t, "write")
    /\ \E kept \in SUBSET Pairs :
          /\ cached' = [p \in Pairs |->
                IF p \in kept THEN cached[p]
                ELSE [row |-> tasks[t].found[p],
                      left |-> IF tasks[t].found[p] = NoRow THEN 0 ELSE CacheMinutes]]
          /\ IF kept = {} THEN UNCHANGED hitches ELSE Hitch
    /\ tasks' = [tasks EXCEPT ![t] = Resting]
    /\ UNCHANGED <<configs, minute, offSince>>

-----------------------------------------------------------------------------
Due(p) == {i \in Rows : configs[i].pair = p /\ configs[i].from <= minute}

\* Mutant of FindDue: the row scheduled first.
FindDueFirst ==
    /\ Doing(Job, "rest")
    /\ \E pick \in [Pairs -> Rows \cup {NoRow}] :
          /\ \A p \in Pairs :
                IF \E i \in Due(p) : ~configs[i].active
                THEN pick[p] \in Due(p) /\ \A j \in Due(p) : configs[j].from >= configs[pick[p]].from
                ELSE pick[p] = NoRow
          /\ \E p \in Pairs : pick[p] # NoRow
          /\ tasks' = [tasks EXCEPT ![Job].at = "activate", ![Job].found = pick]
    /\ UNCHANGED <<configs, minute, cached, offSince, hitches>>

\* activateScheduledFeeConfigs, the reads: for each pair with an inactive row
\* whose time has come, the row with the latest effective_from.
FindDue ==
    /\ Doing(Job, "rest")
    /\ \E pick \in [Pairs -> Rows \cup {NoRow}] :
          /\ \A p \in Pairs :
                IF \E i \in Due(p) : ~configs[i].active
                THEN pick[p] \in Due(p) /\ \A j \in Due(p) : configs[j].from <= configs[pick[p]].from
                ELSE pick[p] = NoRow
          /\ \E p \in Pairs : pick[p] # NoRow
          /\ tasks' = [tasks EXCEPT ![Job].at = "activate", ![Job].found = pick]
    /\ UNCHANGED <<configs, minute, cached, offSince, hitches>>

\* ... and the transaction, on rows that may have changed since.
Activate ==
    LET pick == tasks[Job].found
        table == [i \in Rows |->
                    IF configs[i].pair \in Pairs /\ pick[configs[i].pair] # NoRow
                    THEN [configs[i] EXCEPT !.active = FALSE] ELSE configs[i]]
        after == [i \in Rows |->
                    IF \E p \in Pairs : pick[p] = i
                    THEN [table[i] EXCEPT !.active = TRUE] ELSE table[i]]
    IN /\ Doing(Job, "activate")
       /\ \/ /\ Allowed(after)
             /\ Commit(after)
             /\ tasks' = [tasks EXCEPT ![Job].at = "read"]
             /\ UNCHANGED hitches
          \/ /\ \/ ~Allowed(after) /\ UNCHANGED hitches
                \/ Hitch
             /\ tasks' = [tasks EXCEPT ![Job] = Resting]
             /\ UNCHANGED <<configs, offSince>>
       /\ UNCHANGED <<minute, cached>>

-----------------------------------------------------------------------------
\* Mutant of AskCache: a hit renews the key.
AskCacheSliding(q, p) ==
    /\ Doing(q, "rest")
    /\ IF cached[p].row # NoRow
       THEN /\ tasks' = [tasks EXCEPT ![q] =
                  [at |-> "quoted", pair |-> p, found |-> [Resting.found EXCEPT ![p] = cached[p].row]]]
            /\ cached' = [cached EXCEPT ![p].left = CacheMinutes]
       ELSE tasks' = [tasks EXCEPT ![q] = [Resting EXCEPT !.at = "query", !.pair = p]] /\ UNCHANGED cached
    /\ UNCHANGED <<configs, minute, offSince, hitches>>

\* getActiveConfig: what the cache has, if it has anything and answers.
AskCache(q, p) ==
    /\ Doing(q, "rest")
    /\ \/ /\ cached[p].row # NoRow
          /\ tasks' = [tasks EXCEPT ![q] =
                [at |-> "quoted", pair |-> p, found |-> [Resting.found EXCEPT ![p] = cached[p].row]]]
          /\ UNCHANGED hitches
       \/ /\ IF cached[p].row = NoRow THEN UNCHANGED hitches ELSE Hitch
          /\ tasks' = [tasks EXCEPT ![q] = [Resting EXCEPT !.at = "query", !.pair = p]]
    /\ UNCHANGED <<configs, minute, cached, offSince>>

\* ... or the database's row; without one, the caller's default applies.
QueryConfig(q) ==
    LET p == tasks[q].pair IN
    /\ Doing(q, "query")
    /\ tasks' = [tasks EXCEPT ![q].at = IF Read[p] = NoRow THEN "quoted" ELSE "fill",
                              ![q].found = [Resting.found EXCEPT ![p] = Read[p]]]
    /\ UNCHANGED <<configs, minute, cached, offSince, hitches>>

FillCache(q) ==
    LET p == tasks[q].pair IN
    /\ Doing(q, "fill")
    /\ \/ /\ cached' = [cached EXCEPT ![p] = [row |-> tasks[q].found[p], left |-> CacheMinutes]]
          /\ UNCHANGED hitches
       \/ Hitch /\ UNCHANGED cached
    /\ tasks' = [tasks EXCEPT ![q].at = "quoted"]
    /\ UNCHANGED <<configs, minute, offSince>>

Quoted(q) ==
    /\ Doing(q, "quoted")
    /\ tasks' = [tasks EXCEPT ![q] = Resting]
    /\ UNCHANGED <<configs, minute, cached, offSince, hitches>>

\* A minute passes.  No read is followed by its write a minute later.
MinutePasses ==
    /\ minute < MaxMinutes
    /\ \A t \in DOMAIN tasks : tasks[t].at \in {"rest", "query"}
    /\ minute' = minute + 1
    /\ cached' = [p \in Pairs |->
          IF cached[p].left <= 1 THEN [row |-> NoRow, left |-> 0]
          ELSE [cached[p] EXCEPT !.left = @ - 1]]
    /\ UNCHANGED <<configs, tasks, offSince, hitches>>

JobStep == FindDue \/ Activate \/ RefreshRead(Job) \/ RefreshWrite(Job)

FeeNext ==
    \/ \E a \in Admins :
          \/ \E p \in Pairs, from \in 0..MaxMinutes :
                CreateConfig(a, p, from) \/ \E old \in Rows : PatchConfig(a, old, p, from)
          \/ RefreshRead(a) \/ RefreshWrite(a)
    \/ JobStep
    \/ \E q \in Quotes :
          \/ \E p \in Pairs : AskCache(q, p)
          \/ QueryConfig(q) \/ FillCache(q) \/ Quoted(q)
    \/ MinutePasses

FeeSpec == FeeInit /\ [][FeeNext]_feeVars
FairFeeSpec == FeeSpec /\ WF_feeVars(JobStep)
-----------------------------------------------------------------------------
\* A fee is quoted from a configuration that is or was in force, and was so no
\* longer ago than a cached row may live: refills from rows read before an
\* administrator's change do not keep an old fee alive.
QuotesRecent ==
    \A q \in Quotes, p \in Pairs :
        LET i == tasks[q].found[p] IN
        (Doing(q, "quoted") /\ i # NoRow) =>
            /\ configs[i].from <= minute
            /\ configs[i].active \/ minute - offSince[i] < CacheMinutes

\* The row with the latest effective_from that has come is the active one in
\* the end, whatever the administrators and the job did to each other's rows.
LatestIsActive(p) ==
    Cardinality(Due(p)) > 1 =>
        \E i \in Due(p) : configs[i].active /\ \A j \in Due(p) : configs[j].from <= configs[i].from
LatestTakesOver == <>[](\A p \in Pairs : LatestIsActive(p))
=============================================================================
