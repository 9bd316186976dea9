--------------------------- MODULE DisputeRecords ---------------------------
(***************************************************************************)
(* The backend's side of the disputes: disputeResolutionController.js      *)
(* keeps a row per dispute and services/disputeResolution.js calls the     *)
(* contract.  As with the agent escrows, the row and the contract change   *)
(* one after the other, and only open, submit_evidence and resolve are     *)
(* served: appeals, votes, payments and expiry happen behind its back.     *)
(*                                                                         *)
(* A row has the number of its contract_dispute_id.                        *)
(***************************************************************************)
EXTENDS DisputeResolution

CONSTANTS
    Callers,        \* requests served at the same time
    EvidenceLimit   \* evidence rows a dispute may have when one more is asked for

ASSUME RecordConstants == EvidenceLimit \in Nat \ {0}

VARIABLES
    rows,    \* disputes: status, the linked ticket's status, evidence rows
    calls,   \* what each request is doing, and the call it makes
    strays   \* calls still on their way when their request had given up

servedVars == <<rows, calls, strays>>
recordVars == <<vars, servedVars>>

NoRow == [status |-> "none", ticket |-> "none", evidence |-> 0]
NoCall == [op |-> "none", id |-> 0, by |-> Nobody, ruling |-> "none"]
AtRest == [at |-> "idle", call |-> NoCall]

RecordsInit ==
    /\ DisputeInit
    /\ rows = [d \in DisputeIds |-> NoRow]
    /\ calls = [c \in Callers |-> AtRest]
    /\ strays = {}

Doing(c, at) == calls[c].at = at
Turn(c, at) == calls' = [calls EXCEPT ![c].at = at]
Rest(c) == calls' = [calls EXCEPT ![c] = AtRest]
Serves(c, at, call) == calls' = [calls EXCEPT ![c] = [at |-> at, call |-> call]]

-----------------------------------------------------------------------------
(* What a request reads and writes before the contract is called.          *)

\* open: the caller is the sender and the opener.
AskOpen(c, a) ==
    /\ Doing(c, "idle")
    /\ Serves(c, "send", [NoCall EXCEPT !.op = "open", !.by = a])
    /\ UNCHANGED <<vars, rows, strays>>

\* submitEvidenceHandler: the row is open, the caller is the sender or the
\* recipient, and there are fewer rows than the limit.
AskEvidence(c, a, d) ==
    /\ Doing(c, "idle")
    /\ rows[d].status = "open"
    /\ a \in {disputes[d].sender, disputes[d].recipient}
    /\ rows[d].evidence < EvidenceLimit
    /\ Serves(c, "insert", [NoCall EXCEPT !.op = "evidence", !.id = d, !.by = a])
    /\ UNCHANGED <<vars, rows, strays>>

\* The evidence is in the database before it is in the contract.
InsertEvidence(c) ==
    /\ Doing(c, "insert")
    /\ rows' = [rows EXCEPT ![calls[c].call.id].evidence = @ + 1]
    /\ Turn(c, "send")
    /\ UNCHANGED <<vars, strays>>

\* resolve, by an administrator; the arbitrator's key is the platform's.
AskResolve(c, d, ruling) ==
    /\ Doing(c, "idle")
    /\ rows[d].status = "open"
    /\ Serves(c, "send", [NoCall EXCEPT !.op = "resolve", !.id = d, !.ruling = ruling])
    /\ UNCHANGED <<vars, rows, strays>>

-----------------------------------------------------------------------------
(* The call, as sendAndConfirm waits for it.                               *)

SendCall(c) == Doing(c, "send") /\ Turn(c, "wait") /\ UNCHANGED <<vars, rows, strays>>

Executes(call) ==
    \/ /\ call.op = "open"
       /\ \E p \in Claims : p.sender = call.by /\ OpenDispute(call.by, p)
    \/ call.op = "evidence" /\ SubmitEvidence(call.by, call.id)
    \/ call.op = "resolve" /\ ResolveDispute(Arbitrator, call.id, call.ruling)

\* The call is in a ledger; open learns its id from the return value.
LandCall(c) ==
    /\ Doing(c, "wait")
    /\ Executes(calls[c].call)
    /\ calls' = [calls EXCEPT ![c].at = "landed",
                    ![c].call.id = IF calls[c].call.op = "open" THEN opened' ELSE @]
    /\ UNCHANGED <<now, rows, strays>>

\* The simulation, the submission or the transaction fails.  What was inserted
\* before the call stays.
CallFails(c) ==
    /\ calls[c].at \in {"insert", "send", "wait"}
    /\ Rest(c)
    /\ UNCHANGED <<vars, rows, strays>>

\* A timeout, a lost answer or a crash, while the call may still be applied.
GiveUp(c) ==
    /\ Doing(c, "wait")
    /\ strays' = strays \cup {calls[c].call}
    /\ Rest(c)
    /\ UNCHANGED <<vars, rows>>

\* The same once it has been applied, or between the two writes that follow.
LoseOutcome(c) ==
    /\ calls[c].at \in {"landed", "recorded"}
    /\ Rest(c)
    /\ UNCHANGED <<vars, rows, strays>>

LandStray(call) ==
    /\ call \in strays
    /\ Executes(call)
    /\ strays' = strays \ {call}
    /\ UNCHANGED <<now, rows, calls>>

\* setTimeout(30): the network forgets it.
ForgetStray(call) ==
    /\ call \in strays
    /\ strays' = strays \ {call}
    /\ UNCHANGED <<vars, rows, calls>>

-----------------------------------------------------------------------------
(* What is written afterwards.                                             *)

\* Evidence has been written already; a resolved row has the ruling's side.
Written(row, call, ticket) ==
    CASE call.op = "open" -> [NoRow EXCEPT !.status = "open", !.ticket = ticket]
      [] call.op = "evidence" -> row
      [] call.op = "resolve" -> [row EXCEPT !.status = call.ruling]

\* Mutant: sendTransaction's PENDING is taken for success.
RecordEarly(c, ticket) ==
    LET call == calls[c].call IN
    /\ calls[c].at \in {"wait", "landed"} /\ call.id # 0
    /\ rows' = [rows EXCEPT ![call.id] = Written(@, call, ticket)]
    /\ Turn(c, "recorded")
    /\ UNCHANGED <<vars, strays>>

\* open inserts the row, with a support ticket or none; resolve updates it by
\* its id, although the contract has only begun the appeal window.
Record(c, ticket) ==
    LET call == calls[c].call IN
    /\ Doing(c, "landed")
    /\ rows' = [rows EXCEPT ![call.id] = Written(@, call, ticket)]
    /\ Turn(c, "recorded")
    /\ UNCHANGED <<vars, strays>>

\* The ticket of the row follows: in_dispute, or closed.
WriteTicket(c) ==
    LET call == calls[c].call IN
    /\ Doing(c, "recorded")
    /\ rows' = IF rows[call.id].ticket = "none" \/ call.op = "evidence" THEN rows
               ELSE [rows EXCEPT ![call.id].ticket =
                        IF call.op = "open" THEN "in_dispute" ELSE "closed"]
    /\ Rest(c)
    /\ UNCHANGED <<vars, strays>>

-----------------------------------------------------------------------------
Ask(c) ==
    \/ \E a \in Accounts : AskOpen(c, a)
    \/ \E a \in Accounts, d \in DisputeIds : AskEvidence(c, a, d)
    \/ \E d \in DisputeIds, ruling \in {"Recipient", "Sender"} : AskResolve(c, d, ruling)

RecordsNext ==
    \/ DisputeNext /\ UNCHANGED servedVars
    \/ \E c \in Callers :
          \/ Ask(c)
          \/ InsertEvidence(c)
          \/ SendCall(c)
          \/ LandCall(c)
          \/ CallFails(c)
          \/ GiveUp(c)
          \/ LoseOutcome(c)
          \/ \E ticket \in {"none", "open"} : Record(c, ticket)
          \/ WriteTicket(c)
    \/ \E call \in strays : LandStray(call) \/ ForgetStray(call)

RecordsSpec == RecordsInit /\ [][RecordsNext]_recordVars

-----------------------------------------------------------------------------
(* Properties.                                                             *)

RowResolved(d) == rows[d].status \in {"Recipient", "Sender"}

\* A row that names a winner names the arbitrator's ruling, whatever two
\* administrators asked for at once and whatever landed after its request had
\* given up; the dispute has left Open by that ruling, not by a vote or the
\* deadline; and if nobody appeals it is what the contract pays.  (An appeal
\* decided otherwise leaves the row wrong: nothing corrects it.)
RowTellsRuling ==
    /\ [][\A d \in DisputeIds :
            RowResolved(d)' /\ disputes'[d].status \in {"Appealing", "UnderAppeal"}
            => PendingRuling(d)' = rows'[d].status]_recordVars
    /\ [][\A d \in DisputeIds :
            RowResolved(d)' => disputes'[d].appealBy > 0]_recordVars
    /\ [][\A d \in DisputeIds :
            /\ RowResolved(d)
            /\ disputes[d].status = "Appealing"
            /\ disputes'[d].status \in Settlements
            => disputes'[d].status = SettledAs(rows[d].status)]_recordVars
=============================================================================
