---------------------------- MODULE MCSettlements ----------------------------
(***************************************************************************)
(* What money is settled by, in small instances: disputes that a panel     *)
(* decides, disputes that the backend serves, which needs the single       *)
(* arbitrator, the agent-escrow contract without the backend, and payment  *)
(* channels.  A behaviour follows one of the four.                         *)
(***************************************************************************)
EXTENDS DisputeRecords, AgentEscrow, PaymentChannels

CONSTANTS a1, a2, o1, o2, o3

\* The bench as initialize leaves it.
Bench == [arbitrator |-> o2, nominee |-> Nobody, super |-> o3, distributor |-> o1]

OneClaim == {[sender |-> a1, recipient |-> a2, amount |-> 5]}

VARIABLE followed  \* what a behaviour is about

settlementVars == <<followed, recordVars, contractVars, channelVars>>

Init ==
    /\ RecordsInit /\ AgentInit /\ ChannelsInit
    /\ followed \in {"panel", "records", "contract", "channels"}

\* Bounds of "panel": no evidence, which a vote never reads, and one of the
\* offices that a vote does not concern is changed at a time.
SmallPanel ==
    /\ disputes'[1].evidence = {}
    /\ Cardinality({field \in {"arbitrator", "nominee", "super", "distributor"} :
                       bench'[field] # Bench[field]}) <= 1

\* Bounds of "records": the bench stays as it is, the sender asks, every
\* dispute has a ticket, and one call at a time is given up.
SmallRecords ==
    /\ bench' = bench
    /\ \A c \in Callers : calls'[c].call.by # a2
    /\ rows'[1].status # "none" => rows'[1].ticket # "none"
    /\ Cardinality(strays') <= 1

Next ==
    \/ /\ followed = "panel" /\ DisputeStep /\ SmallPanel
       /\ UNCHANGED <<followed, now, servedVars, contractVars, channelVars>>
    \/ /\ followed = "records" /\ RecordsNext /\ SmallRecords
       /\ UNCHANGED <<followed, contractVars, channelVars>>
    \/ /\ followed = "contract" /\ (Direct \/ Submitted)
       /\ UNCHANGED <<followed, recordVars, channelVars>>
    \/ /\ followed = "channels" /\ ChannelsNext
       /\ UNCHANGED <<followed, recordVars, contractVars>>

Spec == Init /\ [][Next]_settlementVars
=============================================================================
