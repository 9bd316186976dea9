---------------------------- MODULE AgentPayouts ----------------------------
(***************************************************************************)
(* The backend's side of the agent escrows: agentEscrowController.js keeps *)
(* a row per escrow in agent_escrows, and services/agentEscrow.js calls    *)
(* the contract.  The row and the contract are changed one after the       *)
(* other, with the wait for the ledger between them, and nothing compares  *)
(* them afterwards.                                                        *)
(*                                                                         *)
(* A row has the number of its contract_escrow_id.  Where create needs     *)
(* functions that paymentController.js does not export, and cancel a       *)
(* column the migrations do not add, the model does what the tests mock.   *)
(***************************************************************************)
EXTENDS AgentEscrow, FiniteSets

CONSTANTS
    Callers,    \* requests served at the same time
    BackendBps  \* DEFAULT_FEE_BPS

ASSUME AgentPayoutConstants == BackendBps \in PayoutFees

VARIABLES
    payoutRows, \* agent_escrows: status, released_amount, agent; is it 48 h old?
    calls,      \* what each request is doing, and the call it makes
    strays      \* calls still on their way when their request had given up

backendVars == <<payoutRows, calls, strays>>
payoutVars == <<contractVars, backendVars>>

NoRow == [status |-> "none", released |-> 0, agent |-> NoAgent, old |-> FALSE]
NoCall == [op |-> "none", id |-> 0, agent |-> NoAgent, sum |-> 0]
AtRest == [at |-> "idle", call |-> NoCall]

PayoutsInit ==
    /\ AgentInit
    /\ payoutRows = [e \in PayoutIds |-> NoRow]
    /\ calls = [c \in Callers |-> AtRest]
    /\ strays = {}

Doing(c, at) == calls[c].at = at
Turn(c, at) == calls' = [calls EXCEPT ![c].at = at]
Rest(c) == calls' = [calls EXCEPT ![c] = AtRest]
Serves(c, call) == calls' = [calls EXCEPT ![c] = [at |-> "read", call |-> call]]

-----------------------------------------------------------------------------
\* create: the agent is approved in the database, whatever the contract thinks.
AskCreate(c, agent, sum) ==
    /\ Doing(c, "idle")
    /\ Serves(c, [NoCall EXCEPT !.op = "create", !.agent = agent, !.sum = sum])
    /\ UNCHANGED <<contractVars, payoutRows, strays>>

\* confirm: the row is pending, and its agent's wallet is the caller's.
AskConfirm(c, e) ==
    /\ Doing(c, "idle")
    /\ payoutRows[e].status = "pending"
    /\ Serves(c, [NoCall EXCEPT !.op = "confirm", !.id = e, !.agent = payoutRows[e].agent])
    /\ UNCHANGED <<contractVars, payoutRows, strays>>

\* cancel, from the sender: 48 hours after the row was created.
AskCancel(c, e) ==
    /\ Doing(c, "idle")
    /\ payoutRows[e].status = "pending" /\ payoutRows[e].old
    /\ Serves(c, [NoCall EXCEPT !.op = "cancel", !.id = e])
    /\ UNCHANGED <<contractVars, payoutRows, strays>>

\* sendTransaction: the signed call is on its way.
SendCall(c) ==
    /\ Doing(c, "read")
    /\ Turn(c, "wait")
    /\ UNCHANGED <<contractVars, payoutRows, strays>>

Executes(call) ==
    \/ call.op = "create" /\ CreatePayout(call.agent, call.sum, BackendBps)
    \/ call.op = "confirm" /\ ConfirmPayout(call.agent, call.id)
    \/ call.op = "cancel" /\ CancelPayout(call.id)

\* The call is in a ledger; create learns its id from the return value.
LandCall(c) ==
    /\ Doing(c, "wait")
    /\ Executes(calls[c].call)
    /\ calls' = [calls EXCEPT ![c].at = "landed",
                    ![c].call.id = IF calls[c].call.op = "create" THEN created' ELSE @]
    /\ UNCHANGED <<payoutRows, strays>>

\* The simulation, the submission or the transaction fails: an error, and
\* nothing is written.
CallFails(c) ==
    /\ calls[c].at \in {"read", "wait"}
    /\ Rest(c)
    /\ UNCHANGED <<contractVars, payoutRows, strays>>

\* The confirmation timeout (30 s), a lost answer of the RPC node, a crash: an
\* error as well, while the call may still be applied.
GiveUp(c) ==
    /\ Doing(c, "wait")
    /\ strays' = strays \cup {calls[c].call}
    /\ Rest(c)
    /\ UNCHANGED <<contractVars, payoutRows>>

\* The same when it has been applied, or the query that follows fails.
LoseOutcome(c) ==
    /\ Doing(c, "landed")
    /\ Rest(c)
    /\ UNCHANGED <<contractVars, payoutRows, strays>>

SetStatus(e, status) == payoutRows' = [payoutRows EXCEPT ![e].status = status]

\* Mutant of SaveOutcome: sendTransaction's PENDING is taken for success.
SaveOutcomeEarly(c) ==
    LET call == calls[c].call IN
    /\ calls[c].at \in {"wait", "landed"}
    /\ call.id # 0
    /\ CASE call.op = "create" ->
              payoutRows' = [payoutRows EXCEPT ![call.id] =
                 [NoRow EXCEPT !.status = "pending", !.agent = call.agent]]
         [] call.op = "confirm" -> SetStatus(call.id, "completed")
         [] call.op = "cancel" -> SetStatus(call.id, "cancelled")
    /\ Rest(c)
    /\ UNCHANGED <<contractVars, strays>>

\* After SUCCESS the row is inserted, or updated by its id, whatever it is now.
SaveOutcome(c) ==
    LET call == calls[c].call IN
    /\ Doing(c, "landed")
    /\ CASE call.op = "create" ->
              payoutRows' = [payoutRows EXCEPT ![call.id] =
                 [NoRow EXCEPT !.status = "pending", !.agent = call.agent]]
         [] call.op = "confirm" -> SetStatus(call.id, "completed")
         [] call.op = "cancel" -> SetStatus(call.id, "cancelled")
    /\ Rest(c)
    /\ UNCHANGED <<contractVars, strays>>

LandStray(call) ==
    /\ call \in strays
    /\ Executes(call)
    /\ strays' = strays \ {call}
    /\ UNCHANGED <<payoutRows, calls>>

\* setTimeout(30): the network forgets it.
ForgetStray(call) ==
    /\ call \in strays
    /\ strays' = strays \ {call}
    /\ UNCHANGED <<contractVars, payoutRows, calls>>

\* partialRelease: one transaction that locks the row; the contract is not
\* called.
RecordPartial(e, sum) ==
    /\ payoutRows[e].status = "pending"
    /\ sum > 0 /\ payoutRows[e].released + sum <= payouts[e].amount
    /\ payoutRows' = [payoutRows EXCEPT ![e].released = @ + sum]
    /\ UNCHANGED <<contractVars, calls, strays>>

AgeRow(e) ==
    /\ payoutRows[e].status = "pending" /\ ~payoutRows[e].old
    /\ payoutRows' = [payoutRows EXCEPT ![e].old = TRUE]
    /\ UNCHANGED <<contractVars, calls, strays>>

PayoutsNext ==
    \/ Direct /\ UNCHANGED backendVars
    \/ \E c \in Callers :
          \/ \E a \in PayoutAgents, sum \in PayoutSums : AskCreate(c, a, sum)
          \/ \E e \in PayoutIds : AskConfirm(c, e) \/ AskCancel(c, e)
          \/ SendCall(c)
          \/ LandCall(c)
          \/ CallFails(c)
          \/ GiveUp(c)
          \/ LoseOutcome(c)
          \/ SaveOutcome(c)
    \/ \E call \in strays : LandStray(call) \/ ForgetStray(call)
    \/ \E e \in PayoutIds :
          \/ \E sum \in PartSums : RecordPartial(e, sum)
          \/ AgeRow(e)

PayoutsSpec == PayoutsInit /\ [][PayoutsNext]_payoutVars

-----------------------------------------------------------------------------
\* A row that says how its escrow ended is right, although the UPDATE does not
\* look at the row again, a confirmation and a cancellation may both have read
\* it as pending, and calls that were given up may land in between.
RowTellsOutcome ==
    \A e \in PayoutIds :
        /\ payoutRows[e].status = "completed" => payouts[e].status = "Completed"
        /\ payoutRows[e].status = "cancelled" => payouts[e].status = "Cancelled"
=============================================================================
