------------------------ MODULE DisputeRecordsProofs ------------------------
(***************************************************************************)
(* Proofs about the backend's rows of the disputes, for any number of      *)
(* disputes, requests served at once and calls still on their way, and for *)
(* whatever the contract does behind the backend's back.                   *)
(*                                                                         *)
(* A ruling is a fact that does not wear out (RulingLasts): the contract   *)
(* never takes a dispute with a ruling back to Open, and only the          *)
(* super-arbitrator, who settles the dispute in the same step, replaces    *)
(* the ruling.  A request that has ruled therefore still holds a true      *)
(* ruling when it gets to its row, however late, and a second request      *)
(* cannot have ruled since: the contract would have refused it.            *)
(***************************************************************************)
EXTENDS DisputeRecords, DisputeProofs

-----------------------------------------------------------------------------
(* The contract.                                                           *)

UnderRuling == {"Appealing", "UnderAppeal"}

\* A dispute with record r has left Open by a ruling of the arbitrator, and as
\* long as it is not settled the ruling is this one.
Ruled(r, ruling) == r.appealBy > 0 /\ (r.status \in UnderRuling => RulingOf(r) = ruling)

\* A record q with a ruling may become r.
Lasts(q, r) ==
    q.appealBy > 0 =>
        /\ r.appealBy > 0
        /\ r.status \in UnderRuling => q.status \in UnderRuling
        /\ r.status \in UnderRuling \/ q.status = "Appealing" => RulingOf(r) = RulingOf(q)

-----------------------------------------------------------------------------
(* The invariant of the records.                                           *)

Row == [status : {"none", "open", "Recipient", "Sender"},
        ticket : {"none", "open", "in_dispute", "closed"}, evidence : Nat]

\* A call as a request makes it.
Call == [op : {"none", "open", "evidence", "resolve"}, id : Nat, by : Someone,
         ruling : {"none", "Recipient", "Sender"}]

\* ... about a dispute that has a row.
Makeable(call) ==
    /\ call.op # "none"
    /\ call.op \in {"evidence", "resolve"} => call.id \in DisputeIds
    /\ call.op = "resolve" => call.ruling \in {"Recipient", "Sender"}

Request == [at : {"idle", "insert", "send", "wait", "landed", "recorded"}, call : Call]

\* What request r holds, with the contract's records in table: one that has
\* landed knows its dispute, and one that has ruled holds the dispute's ruling.
Holds(table, r) ==
    /\ r.at # "idle" => Makeable(r.call)
    /\ r.at = "insert" => r.call.op = "evidence"
    /\ r.at \in {"landed", "recorded"} =>
          /\ r.call.id \in DisputeIds
          /\ r.call.op = "resolve" => Ruled(table[r.call.id], r.call.ruling)

RowsRuled == \A d \in DisputeIds : RowResolved(d) => Ruled(disputes[d], rows[d].status)

RecordsInv ==
    /\ DisputeInv
    /\ rows \in [DisputeIds -> Row]
    /\ calls \in [Callers -> Request]
    /\ strays \subseteq Call
    /\ \A call \in strays : Makeable(call)
    /\ \A c \in Callers : Holds(disputes, calls[c])
    /\ RowsRuled

-----------------------------------------------------------------------------
(* A ruling lasts, whichever entry point is called.                        *)

AllLast == \A d \in DisputeIds : Lasts(disputes[d], disputes'[d])

LEMMA OneRecordLasts ==
    ASSUME DisputeInv, NEW d \in DisputeIds, NEW r, disputes' = [disputes EXCEPT ![d] = r],
           Lasts(disputes[d], r)
    PROVE  AllLast
<1>1. disputes \in [DisputeIds -> DisputeRecord]
  BY DEF DisputeInv, DisputesFunded, DisputeTypeOK
<1>2. \A c \in DisputeIds : disputes'[c] = IF c = d THEN r ELSE disputes[c]
  BY <1>1
<1> QED
  BY <1>2 DEF AllLast, Lasts

\* An open dispute has no ruling yet.
LEMMA OpenHasNone ==
    ASSUME DisputeInv, NEW d \in DisputeIds, disputes[d].status \in {"None", "Open"}, NEW r
    PROVE  Lasts(disputes[d], r)
<1>1. disputes[d].appealBy = 0
  BY InvFacts DEF Lawful
<1> QED
  BY <1>1 DEF Lasts

\* Nor does an id that is given to a new one.
LEMMA RegisterLasts ==
    ASSUME DisputeInv, NEW opener, NEW agent, NEW confirmed, NEW escrow, NEW p,
           Register(opener, agent, confirmed, escrow, p)
    PROVE  AllLast
<1>1. /\ opened + 1 \in DisputeIds /\ disputes[opened + 1] = NoDispute
      /\ \A c \in DisputeIds : c # opened + 1 => disputes'[c] = disputes[c]
  BY RegisterFrame
<1>2. disputes[opened + 1].status = "None"
  BY <1>1 DEF NoDispute
<1>3. Lasts(disputes[opened + 1], disputes'[opened + 1])
  BY <1>1, <1>2, OpenHasNone
<1> QED
  BY <1>1, <1>3 DEF AllLast, Lasts

\* A step that only moves a record with a ruling on, to status s.
LEMMA StatusLasts ==
    ASSUME DisputeInv, NEW d \in DisputeIds, disputes[d].status \in UnderRuling, NEW s,
           disputes'[d] = WithStatus(disputes[d], s),
           \A c \in DisputeIds : c # d => disputes'[c] = disputes[c]
    PROVE  AllLast
<1>1. disputes[d] \in DisputeRecord
  BY InvFacts
<1>2. /\ disputes'[d].appealBy = disputes[d].appealBy
      /\ RulingOf(disputes'[d]) = RulingOf(disputes[d])
  BY <1>1 DEF WithStatus, DisputeRecord, RulingOf
<1> QED
  BY <1>2 DEF AllLast, Lasts

LEMMA ArgueLasts ==
    ASSUME DisputeInv, NEW d \in DisputeIds, Argue(d)
    PROVE  AllLast
<1>1. disputes \in [DisputeIds -> DisputeRecord]
  BY DEF DisputeInv, DisputesFunded, DisputeTypeOK
<1>2. CASE disputes[d].status = "Open"
  <2>1. \E r : disputes' = [disputes EXCEPT ![d] = r]
    BY <1>2 DEF Argue, SubmitEvidence, Appeal, ResolveDispute
  <2> QED
    BY <1>2, <2>1, OpenHasNone, OneRecordLasts
<1>3. ASSUME NEW a \in Accounts, Appeal(a, d) PROVE AllLast
  <2>1. /\ disputes[d].status = "Appealing"
        /\ disputes' = [disputes EXCEPT ![d] = WithStatus(disputes[d], "UnderAppeal")]
    BY <1>3 DEF Appeal, WithStatus
  <2>2. /\ disputes'[d] = WithStatus(disputes[d], "UnderAppeal")
        /\ \A c \in DisputeIds : c # d => disputes'[c] = disputes[c]
    BY <1>1, <2>1
  <2> QED
    BY <2>1, <2>2, StatusLasts DEF UnderRuling
<1> QED
  BY <1>2, <1>3 DEF Argue, SubmitEvidence, ResolveDispute, IsOpen

LEMMA DecideLasts ==
    ASSUME DisputeInv, NEW d \in DisputeIds, Decide(d)
    PROVE  AllLast
<1>1. DisputeTypeOK /\ disputes[d] \in DisputeRecord
  BY InvFacts
<1>2. \A c \in DisputeIds : c # d => disputes'[c] = disputes[c]
  BY DecideFacts
<1>3. CASE disputes[d].status = "Open"
  BY <1>2, <1>3, OpenHasNone DEF AllLast, Lasts
<1>4. CASE FinalizeResolution(d)
  <2>1. /\ disputes[d].status = "Appealing"
        /\ disputes'[d] = WithStatus(disputes[d], SettledAs(PendingRuling(d)))
    BY <1>1, <1>4, PayFrame DEF FinalizeResolution, Award, WithStatus
  <2> QED
    BY <1>2, <2>1, StatusLasts DEF UnderRuling
<1>5. ASSUME NEW j \in Officials, NEW ruling \in Rulings, ResolveAppeal(j, d, ruling)
      PROVE  AllLast
  <2>1. PICK q : q = RecordRuling(disputes[d], ruling)
    OBVIOUS
  <2>2. q \in DisputeRecord /\ q.appealBy = disputes[d].appealBy
    BY <1>1, <2>1, RulingFields
  <2>3. /\ disputes[d].status = "UnderAppeal"
        /\ disputes'[d] = WithStatus(q, SettledAs(ruling))
    BY <1>1, <1>5, <2>1, PayFrame DEF ResolveAppeal, Award, WithStatus
  <2>4. /\ disputes'[d].status = SettledAs(ruling)
        /\ disputes'[d].appealBy = disputes[d].appealBy
    BY <2>2, <2>3 DEF WithStatus, DisputeRecord
  <2>5. SettledAs(ruling) \notin UnderRuling
    BY DEF SettledAs, UnderRuling, Rulings
  <2>6. Lasts(disputes[d], disputes'[d])
    BY <2>3, <2>4, <2>5 DEF Lasts
  <2> QED
    BY <1>2, <2>6 DEF AllLast, Lasts
<1> QED
  BY <1>3, <1>4, <1>5 DEF Decide, ClaimExpired, CastVote, IsOpen

LEMMA RulingLasts ==
    ASSUME DisputeInv, [DisputeNext]_vars PROVE AllLast
<1>1. CASE UNCHANGED disputes
  BY <1>1 DEF AllLast, Lasts
<1>2. ASSUME NEW opener, NEW agent, NEW confirmed, NEW escrow, NEW p,
             Register(opener, agent, confirmed, escrow, p)
      PROVE  AllLast
  BY <1>2, RegisterLasts
<1>3. CASE OpenFreeForm
  BY <1>2, <1>3 DEF OpenFreeForm, OpenDispute
<1>4. CASE OpenBacked
  BY <1>2, <1>4 DEF OpenBacked, OpenEscrowDispute
<1>5. CASE Manage
  BY <1>1, <1>5, ManageFacts
<1> QED
  BY <1>1, <1>3, <1>4, <1>5, ArgueLasts, DecideLasts
     DEF DisputeNext, DisputeStep, vars, disputeVars

\* What is recorded of a ruling stays true as long as rulings last.
LEMMA RulingStays ==
    ASSUME AllLast, NEW d \in DisputeIds, NEW ruling, Ruled(disputes[d], ruling)
    PROVE  Ruled(disputes'[d], ruling)
BY DEF AllLast, Lasts, Ruled

-----------------------------------------------------------------------------
(* The contract's part of a step of the records.                           *)

LEMMA Execution ==
    ASSUME DisputeInv, NEW call \in Call, Makeable(call), Executes(call), UNCHANGED now
    PROVE  /\ DisputeInv' /\ AllLast
           /\ call.op = "open" => opened' \in DisputeIds
           /\ call.op = "resolve" => Ruled(disputes'[call.id], call.ruling)
<1>1. ASSUME call.op = "open", NEW p \in Claims, OpenDispute(call.by, p)
      PROVE  DisputeInv' /\ AllLast /\ opened' \in DisputeIds
  BY <1>1, OpenDisputeStep, RegisterLasts, RegisterFrame DEF OpenDispute
<1>2. ASSUME call.op = "evidence", SubmitEvidence(call.by, call.id)
      PROVE  DisputeInv' /\ AllLast
  <2>1. call.id \in DisputeIds /\ disputes[call.id] \in DisputeRecord
    BY <1>2, InvFacts DEF Makeable
  <2>2. call.by \in Accounts
    BY <1>2, <2>1 DEF SubmitEvidence, Parties, DisputeRecord, Someone
  <2>3. disputes[call.id].status = "Open"
    BY <1>2 DEF SubmitEvidence, IsOpen
  <2>4. \E r : disputes' = [disputes EXCEPT ![call.id] = r]
    BY <1>2 DEF SubmitEvidence
  <2> QED
    BY <1>2, <2>1, <2>2, <2>3, <2>4, SubmitEvidenceStep, OpenHasNone, OneRecordLasts
<1>3. ASSUME call.op = "resolve", ResolveDispute(Arbitrator, call.id, call.ruling)
      PROVE  DisputeInv' /\ AllLast /\ Ruled(disputes'[call.id], call.ruling)
  <2>1. /\ call.id \in DisputeIds /\ call.ruling \in Rulings
        /\ disputes[call.id] \in DisputeRecord /\ DisputeTypeOK
    BY <1>3, InvFacts DEF Makeable, Rulings
  <2>2. PICK q : q = RecordRuling(disputes[call.id], call.ruling)
    OBVIOUS
  <2>3. q \in DisputeRecord /\ RulingOf(q) = call.ruling
    BY <2>1, <2>2, RulingFields
  <2>4. PICK r : r = [q EXCEPT !.status = "Appealing", !.appealBy = now + AppealSecs]
    OBVIOUS
  <2>5. disputes[call.id].status = "Open" /\ disputes' = [disputes EXCEPT ![call.id] = r]
    BY <1>3, <2>2, <2>4 DEF ResolveDispute, IsOpen
  <2>6. r.appealBy = now + AppealSecs /\ RulingOf(r) = RulingOf(q)
    BY <2>3, <2>4 DEF DisputeRecord, RulingOf
  <2>7. now + AppealSecs > 0
    BY <2>1, ConstantFacts DEF DisputeTypeOK, ClockTypeOK
  <2>8. disputes'[call.id] = r
    BY <2>1, <2>5 DEF DisputeTypeOK
  <2>9. Ruled(disputes'[call.id], call.ruling)
    BY <2>3, <2>6, <2>7, <2>8 DEF Ruled
  <2> QED
    BY <1>3, <2>1, <2>5, <2>9, ResolveDisputeStep, OpenHasNone, OneRecordLasts
<1> QED
  BY <1>1, <1>2, <1>3 DEF Executes

-----------------------------------------------------------------------------
(* The invariant.                                                          *)

\* A step after which rulings have lasted, every row that is new names a
\* ruling, and every request that has moved holds what it should.
LEMMA RecordsStep ==
    ASSUME RecordsInv, DisputeInv', AllLast,
           rows' \in [DisputeIds -> Row], calls' \in [Callers -> Request],
           strays' \subseteq Call, \A call \in strays' : Makeable(call),
           \A d \in DisputeIds :
              \/ rows'[d].status = rows[d].status
              \/ rows'[d].status \notin {"Recipient", "Sender"}
              \/ Ruled(disputes'[d], rows'[d].status),
           \A c \in Callers : calls'[c] = calls[c] \/ Holds(disputes', calls'[c])
    PROVE  RecordsInv'
<1>1. \A c \in Callers : Holds(disputes', calls'[c])
  BY RulingStays DEF RecordsInv, Holds
<1>2. \A d \in DisputeIds :
         rows'[d].status \in {"Recipient", "Sender"} => Ruled(disputes'[d], rows'[d].status)
  BY RulingStays DEF RecordsInv, RowsRuled, RowResolved
<1>3. RowsRuled'
  BY <1>2 DEF RowsRuled, RowResolved
<1>4. (\A c \in Callers : Holds(disputes, calls[c]))'
  BY <1>1 DEF Holds
<1>5. (\A call \in strays : Makeable(call))'
  OBVIOUS
<1> QED
  BY <1>3, <1>4, <1>5 DEF RecordsInv

LEMMA RecordFacts ==
    ASSUME RecordsInv
    PROVE  /\ DisputeInv /\ rows \in [DisputeIds -> Row] /\ calls \in [Callers -> Request]
           /\ strays \subseteq Call /\ \A call \in strays : Makeable(call)
           /\ \A c \in Callers : Holds(disputes, calls[c]) /\ calls[c] \in Request
                                 /\ calls[c].call \in Call
BY DEF RecordsInv, Request

LEMMA ContractStays ==
    ASSUME DisputeInv, UNCHANGED vars PROVE DisputeInv' /\ AllLast /\ disputes' = disputes
<1>1. DisputeInv'
  BY NextStep
<1>2. disputes' = disputes
  BY DEF vars, disputeVars
<1> QED
  BY <1>1, <1>2 DEF AllLast, Lasts

LEMMA AtRestHolds ==
    AtRest \in Request /\ \A table : Holds(table, AtRest)
BY DEF AtRest, NoCall, Request, Call, Holds, Someone

\* How a request moves.
LEMMA Turned ==
    ASSUME RecordsInv, NEW c \in Callers,
           NEW at \in {"idle", "insert", "send", "wait", "landed", "recorded"}, Turn(c, at)
    PROVE  /\ calls' \in [Callers -> Request]
           /\ calls'[c].at = at /\ calls'[c].call = calls[c].call
           /\ \A e \in Callers : e # c => calls'[e] = calls[e]
<1>1. calls \in [Callers -> Request] /\ calls[c] \in Request
  BY RecordFacts
<1>2. PICK r : r = [calls[c] EXCEPT !.at = at]
  OBVIOUS
<1>3. r \in Request /\ r.at = at /\ r.call = calls[c].call
  BY <1>1, <1>2 DEF Request
<1>4. calls' = [calls EXCEPT ![c] = r]
  BY <1>2, Zenon DEF Turn
<1> QED
  BY <1>1, <1>3, <1>4

LEMMA Set ==
    ASSUME RecordsInv, NEW c \in Callers, NEW r \in Request, calls' = [calls EXCEPT ![c] = r]
    PROVE  /\ calls' \in [Callers -> Request] /\ calls'[c] = r
           /\ \A e \in Callers : e # c => calls'[e] = calls[e]
BY RecordFacts

\* A step of one request, which leaves the contract alone.
LEMMA RequestStep ==
    ASSUME RecordsInv, UNCHANGED vars, NEW c \in Callers,
           calls' \in [Callers -> Request], \A e \in Callers : e # c => calls'[e] = calls[e],
           Holds(disputes, calls'[c]),
           strays' \subseteq Call, \A call \in strays' : Makeable(call),
           rows' \in [DisputeIds -> Row],
           \A d \in DisputeIds :
              \/ rows'[d].status = rows[d].status
              \/ rows'[d].status \notin {"Recipient", "Sender"}
              \/ Ruled(disputes[d], rows'[d].status)
    PROVE  RecordsInv'
<1>1. DisputeInv' /\ AllLast /\ disputes' = disputes
  BY RecordFacts, ContractStays
<1>2. \A e \in Callers : calls'[e] = calls[e] \/ Holds(disputes', calls'[e])
  BY <1>1
<1>3. \A d \in DisputeIds :
         \/ rows'[d].status = rows[d].status
         \/ rows'[d].status \notin {"Recipient", "Sender"}
         \/ Ruled(disputes'[d], rows'[d].status)
  BY <1>1
<1> QED
  BY <1>1, <1>2, <1>3, RecordsStep

\* A request begins, with the call it is going to make.
LEMMA ServesStep ==
    ASSUME RecordsInv, UNCHANGED <<vars, rows, strays>>, NEW c \in Callers, NEW call \in Call,
           NEW at \in {"insert", "send"}, Serves(c, at, call), Makeable(call),
           at = "insert" => call.op = "evidence"
    PROVE  RecordsInv'
<1>1. PICK r : r = [at |-> at, call |-> call]
  OBVIOUS
<1>2. r \in Request /\ Holds(disputes, r)
  BY <1>1 DEF Request, Holds
<1>3. calls' = [calls EXCEPT ![c] = r]
  BY <1>1 DEF Serves
<1> QED
  BY <1>2, <1>3, Set, RecordFacts, RequestStep

LEMMA AskStep ==
    ASSUME RecordsInv, NEW c \in Callers, Ask(c) PROVE RecordsInv'
<1>1. ASSUME NEW a \in Accounts, AskOpen(c, a) PROVE RecordsInv'
  <2>1. PICK call : call = [NoCall EXCEPT !.op = "open", !.by = a]
    OBVIOUS
  <2>2. call \in Call /\ Makeable(call)
    BY <2>1 DEF NoCall, Call, Makeable, Someone
  <2> QED
    BY <1>1, <2>1, <2>2, ServesStep DEF AskOpen
<1>2. ASSUME NEW a \in Accounts, NEW d \in DisputeIds, AskEvidence(c, a, d) PROVE RecordsInv'
  <2>1. PICK call : call = [NoCall EXCEPT !.op = "evidence", !.id = d, !.by = a]
    OBVIOUS
  <2>2. d \in Nat
    BY ConstantFacts DEF DisputeIds
  <2>3. call \in Call /\ Makeable(call) /\ call.op = "evidence"
    BY <2>1, <2>2 DEF NoCall, Call, Makeable, Someone
  <2> QED
    BY <1>2, <2>1, <2>3, ServesStep DEF AskEvidence
<1>3. ASSUME NEW d \in DisputeIds, NEW ruling \in {"Recipient", "Sender"}, AskResolve(c, d, ruling)
      PROVE  RecordsInv'
  <2>1. PICK call : call = [NoCall EXCEPT !.op = "resolve", !.id = d, !.ruling = ruling]
    OBVIOUS
  <2>2. d \in Nat
    BY ConstantFacts DEF DisputeIds
  <2>3. call \in Call /\ Makeable(call)
    BY <2>1, <2>2 DEF NoCall, Call, Makeable, Someone
  <2> QED
    BY <1>3, <2>1, <2>3, ServesStep DEF AskResolve
<1> QED
  BY <1>1, <1>2, <1>3 DEF Ask

\* The steps up to the call, and the ends of a request.
LEMMA WaitingStep ==
    ASSUME RecordsInv, NEW c \in Callers,
           SendCall(c) \/ CallFails(c) \/ GiveUp(c) \/ LoseOutcome(c)
    PROVE  RecordsInv'
<1>1. /\ Holds(disputes, calls[c]) /\ calls[c] \in Request /\ calls[c].call \in Call
      /\ strays \subseteq Call /\ \A call \in strays : Makeable(call)
      /\ rows \in [DisputeIds -> Row]
  BY RecordFacts
<1>2. CASE SendCall(c)
  <2>1. /\ calls' \in [Callers -> Request]
        /\ calls'[c].at = "wait" /\ calls'[c].call = calls[c].call
        /\ \A e \in Callers : e # c => calls'[e] = calls[e]
    BY <1>2, Turned DEF SendCall
  <2>2. Holds(disputes, calls'[c])
    BY <1>1, <1>2, <2>1 DEF SendCall, Doing, Holds
  <2> QED
    BY <1>1, <1>2, <2>1, <2>2, RequestStep DEF SendCall
<1>3. CASE CallFails(c) \/ GiveUp(c) \/ LoseOutcome(c)
  <2>1. /\ calls' = [calls EXCEPT ![c] = AtRest]
        /\ UNCHANGED vars /\ UNCHANGED rows
    BY <1>3 DEF CallFails, GiveUp, LoseOutcome, Rest
  <2>2. /\ calls' \in [Callers -> Request] /\ calls'[c] = AtRest
        /\ \A e \in Callers : e # c => calls'[e] = calls[e]
    BY <2>1, Set, AtRestHolds
  <2>3. strays' \subseteq Call /\ \A call \in strays' : Makeable(call)
    BY <1>1, <1>3 DEF CallFails, GiveUp, LoseOutcome, Doing, Holds
  <2> QED
    BY <1>1, <2>1, <2>2, <2>3, AtRestHolds, RequestStep
<1> QED
  BY <1>2, <1>3

\* The call lands, for its request or as a stray.
LEMMA LandStep ==
    ASSUME RecordsInv, \/ \E c \in Callers : LandCall(c)
                       \/ \E call \in strays : LandStray(call)
    PROVE  RecordsInv'
<1>1. /\ DisputeInv /\ rows \in [DisputeIds -> Row] /\ calls \in [Callers -> Request]
      /\ strays \subseteq Call /\ \A call \in strays : Makeable(call)
  BY RecordFacts
<1>2. ASSUME NEW call \in strays, LandStray(call) PROVE RecordsInv'
  <2>1. DisputeInv' /\ AllLast
    BY <1>1, <1>2, Execution DEF LandStray
  <2>2. UNCHANGED rows /\ UNCHANGED calls /\ strays' = strays \ {call}
    BY <1>2 DEF LandStray
  <2> QED
    BY <1>1, <2>1, <2>2, RecordsStep
<1>3. ASSUME NEW c \in Callers, LandCall(c) PROVE RecordsInv'
  <2>1. /\ Holds(disputes, calls[c]) /\ calls[c] \in Request /\ calls[c].call \in Call
        /\ calls[c].at = "wait"
    BY <1>3, RecordFacts DEF LandCall, Doing
  <2>2. PICK call : call = calls[c].call
    OBVIOUS
  <2>3. call \in Call /\ Makeable(call)
    BY <2>1, <2>2 DEF Holds
  <2>4. /\ DisputeInv' /\ AllLast
        /\ call.op = "open" => opened' \in DisputeIds
        /\ call.op = "resolve" => Ruled(disputes'[call.id], call.ruling)
    BY <1>1, <1>3, <2>2, <2>3, Execution DEF LandCall
  <2>5. PICK id : id = IF call.op = "open" THEN opened' ELSE call.id
    OBVIOUS
  <2>6. id \in DisputeIds
    BY <2>3, <2>4, <2>5 DEF Makeable, Call
  <2>7. PICK landed : landed = [call EXCEPT !.id = id]
    OBVIOUS
  <2>8. /\ landed \in Call /\ landed.id = id /\ landed.op = call.op
        /\ landed.ruling = call.ruling
    BY <2>3, <2>6, <2>7, ConstantFacts DEF Call, DisputeIds
  <2>9. PICK r : r = [at |-> "landed", call |-> landed]
    OBVIOUS
  <2>10. r \in Request /\ Holds(disputes', r)
    <3>1. Makeable(landed)
      BY <2>3, <2>6, <2>8 DEF Makeable
    <3>2. landed.op = "resolve" => landed.id = call.id
      BY <2>5, <2>8
    <3> QED
      BY <2>4, <2>6, <2>8, <2>9, <3>1, <3>2 DEF Request, Holds
  <2>11. calls' = [calls EXCEPT ![c] = r]
    <3>1. PICK turned : turned = [calls[c] EXCEPT !.at = "landed"]
      OBVIOUS
    <3>2. calls' = [[calls EXCEPT ![c] = turned] EXCEPT ![c].call.id =
                       IF calls[c].call.op = "open" THEN opened' ELSE @]
      BY <1>3, <3>1, Zenon DEF LandCall
    <3>3. turned.at = "landed" /\ turned.call = call /\ turned \in Request
      BY <2>1, <2>2, <3>1 DEF Request
    <3>4. [turned EXCEPT !.call = landed] = r
      BY <2>9, <3>3 DEF Request
    <3> QED
      BY <1>1, <2>2, <2>5, <2>7, <3>2, <3>3, <3>4
  <2>12. /\ calls' \in [Callers -> Request] /\ calls'[c] = r
         /\ \A e \in Callers : e # c => calls'[e] = calls[e]
    BY <2>10, <2>11, Set
  <2>13. UNCHANGED rows /\ UNCHANGED strays
    BY <1>3 DEF LandCall
  <2> QED
    BY <1>1, <2>4, <2>10, <2>12, <2>13, RecordsStep
<1> QED
  BY <1>2, <1>3

\* The row is written, and then its ticket.
LEMMA WriteStep ==
    ASSUME RecordsInv, NEW c \in Callers,
           InsertEvidence(c) \/ WriteTicket(c) \/ \E ticket \in {"none", "open"} : Record(c, ticket)
    PROVE  RecordsInv'
<1>1. /\ Holds(disputes, calls[c]) /\ calls[c] \in Request /\ calls[c].call \in Call
      /\ strays \subseteq Call /\ \A call \in strays : Makeable(call)
      /\ rows \in [DisputeIds -> Row]
  BY RecordFacts
<1>2. PICK call : call = calls[c].call
  OBVIOUS
<1>3. CASE InsertEvidence(c)
  <2>1. call.id \in DisputeIds /\ calls[c].at = "insert"
    BY <1>1, <1>2, <1>3 DEF InsertEvidence, Doing, Holds, Makeable
  <2>2. PICK row : row = [rows[call.id] EXCEPT !.evidence = @ + 1]
    OBVIOUS
  <2>3. row \in Row /\ row.status = rows[call.id].status
    BY <1>1, <2>1, <2>2 DEF Row
  <2>4. rows' = [rows EXCEPT ![call.id] = row]
    BY <1>2, <1>3, <2>2 DEF InsertEvidence
  <2>5. /\ rows' \in [DisputeIds -> Row]
        /\ \A d \in DisputeIds : rows'[d].status = rows[d].status
    BY <1>1, <2>1, <2>3, <2>4
  <2>6. /\ calls' \in [Callers -> Request]
        /\ calls'[c].at = "send" /\ calls'[c].call = calls[c].call
        /\ \A e \in Callers : e # c => calls'[e] = calls[e]
    BY <1>3, Turned DEF InsertEvidence
  <2>7. Holds(disputes, calls'[c])
    BY <1>1, <2>1, <2>6 DEF Holds
  <2>8. UNCHANGED vars /\ UNCHANGED strays
    BY <1>3 DEF InsertEvidence
  <2> QED
    BY <1>1, <2>5, <2>6, <2>7, <2>8, RequestStep
<1>4. ASSUME NEW ticket \in {"none", "open"}, Record(c, ticket) PROVE RecordsInv'
  <2>1. /\ call.id \in DisputeIds /\ calls[c].at = "landed" /\ Makeable(call)
        /\ call.op = "resolve" => Ruled(disputes[call.id], call.ruling)
        /\ call \in Call
    BY <1>1, <1>2, <1>4 DEF Record, Doing, Holds
  <2>2. PICK row : row = Written(rows[call.id], call, ticket)
    OBVIOUS
  <2>3. /\ row \in Row
        /\ \/ row.status = rows[call.id].status
           \/ row.status \notin {"Recipient", "Sender"}
           \/ Ruled(disputes[call.id], row.status)
    <3>1. rows[call.id] \in Row
      BY <1>1, <2>1
    <3>2. CASE call.op = "open"
      <4>1. row = [NoRow EXCEPT !.status = "open", !.ticket = ticket]
        BY <2>2, <3>2 DEF Written
      <4> QED
        BY <4>1 DEF NoRow, Row
    <3>3. CASE call.op = "evidence"
      BY <2>2, <3>1, <3>3 DEF Written
    <3>4. CASE call.op = "resolve"
      <4>1. row = [rows[call.id] EXCEPT !.status = call.ruling]
        BY <2>2, <3>4 DEF Written
      <4>2. call.ruling \in {"Recipient", "Sender"}
        BY <2>1, <3>4 DEF Makeable
      <4> QED
        BY <2>1, <3>1, <3>4, <4>1, <4>2 DEF Row
    <3> QED
      BY <2>1, <3>2, <3>3, <3>4 DEF Call, Makeable
  <2>4. rows' = [rows EXCEPT ![call.id] = row]
    BY <1>2, <1>4, <2>2 DEF Record
  <2>5. /\ rows' \in [DisputeIds -> Row]
        /\ \A d \in DisputeIds : \/ rows'[d].status = rows[d].status
                                 \/ rows'[d].status \notin {"Recipient", "Sender"}
                                 \/ Ruled(disputes[d], rows'[d].status)
    BY <1>1, <2>1, <2>3, <2>4
  <2>6. /\ calls' \in [Callers -> Request]
        /\ calls'[c].at = "recorded" /\ calls'[c].call = calls[c].call
        /\ \A e \in Callers : e # c => calls'[e] = calls[e]
    BY <1>4, Turned DEF Record
  <2>7. Holds(disputes, calls'[c])
    BY <1>1, <2>1, <2>6 DEF Holds
  <2>8. UNCHANGED vars /\ UNCHANGED strays
    BY <1>4 DEF Record
  <2> QED
    BY <1>1, <2>5, <2>6, <2>7, <2>8, RequestStep
<1>5. CASE WriteTicket(c)
  <2>1. call.id \in DisputeIds
    BY <1>1, <1>2, <1>5 DEF WriteTicket, Doing, Holds
  <2>2. PICK row : row = [rows[call.id] EXCEPT !.ticket =
                             IF call.op = "open" THEN "in_dispute" ELSE "closed"]
    OBVIOUS
  <2>3. row \in Row /\ row.status = rows[call.id].status
    BY <1>1, <2>1, <2>2 DEF Row
  <2>4. rows' = rows \/ rows' = [rows EXCEPT ![call.id] = row]
    BY <1>2, <1>5, <2>2 DEF WriteTicket
  <2>5. /\ rows' \in [DisputeIds -> Row]
        /\ \A d \in DisputeIds : rows'[d].status = rows[d].status
    BY <1>1, <2>1, <2>3, <2>4
  <2>6. /\ calls' \in [Callers -> Request] /\ calls'[c] = AtRest
        /\ \A e \in Callers : e # c => calls'[e] = calls[e]
    BY <1>5, Set, AtRestHolds DEF WriteTicket, Rest
  <2>7. UNCHANGED vars /\ UNCHANGED strays
    BY <1>5 DEF WriteTicket
  <2> QED
    BY <1>1, <2>5, <2>6, <2>7, AtRestHolds, RequestStep
<1> QED
  BY <1>3, <1>4, <1>5

LEMMA RecordsStart == RecordsInit => RecordsInv
<1> SUFFICES ASSUME RecordsInit PROVE RecordsInv
  OBVIOUS
<1>1. DisputeInv
  BY InitInv DEF RecordsInit
<1>2. rows \in [DisputeIds -> Row] /\ RowsRuled
  BY DEF RecordsInit, NoRow, Row, RowsRuled, RowResolved
<1>3. calls \in [Callers -> Request] /\ \A c \in Callers : Holds(disputes, calls[c])
  BY AtRestHolds DEF RecordsInit
<1> QED
  BY <1>1, <1>2, <1>3 DEF RecordsInit, RecordsInv

\* ... and every step, of the records and of the contract.
LEMMA RecordsKept ==
    ASSUME RecordsInv, [RecordsNext]_recordVars PROVE RecordsInv' /\ AllLast
<1>1. /\ DisputeInv /\ rows \in [DisputeIds -> Row] /\ calls \in [Callers -> Request]
      /\ strays \subseteq Call /\ \A call \in strays : Makeable(call)
  BY RecordFacts
<1>2. CASE [DisputeNext]_vars /\ UNCHANGED servedVars
  <2>1. DisputeInv' /\ AllLast
    BY <1>1, <1>2, NextStep, RulingLasts
  <2>2. UNCHANGED rows /\ UNCHANGED calls /\ UNCHANGED strays
    BY <1>2 DEF servedVars
  <2> QED
    BY <1>1, <2>1, <2>2, RecordsStep
<1>3. ASSUME NEW c \in Callers,
             \/ Ask(c) \/ InsertEvidence(c) \/ SendCall(c) \/ CallFails(c) \/ GiveUp(c)
             \/ LoseOutcome(c) \/ WriteTicket(c)
             \/ \E ticket \in {"none", "open"} : Record(c, ticket)
      PROVE  RecordsInv' /\ AllLast
  <2>1. UNCHANGED vars
    <3>1. Ask(c) => UNCHANGED vars
      BY Zenon DEF Ask, AskOpen, AskEvidence, AskResolve
    <3>2. ~Ask(c) => UNCHANGED vars
      BY <1>3, Zenon
         DEF InsertEvidence, SendCall, CallFails, GiveUp, LoseOutcome, WriteTicket, Record
    <3> QED
      BY <3>1, <3>2, Zenon
  <2>2. AllLast
    BY <1>1, <2>1, ContractStays
  <2>3. RecordsInv'
    BY <1>3, AskStep, WaitingStep, WriteStep, Zenon
  <2> QED
    BY <2>2, <2>3
<1>4. ASSUME NEW call \in strays, ForgetStray(call) PROVE RecordsInv' /\ AllLast
  <2>1. /\ UNCHANGED vars /\ UNCHANGED rows /\ UNCHANGED calls /\ strays' \subseteq strays
    BY <1>4 DEF ForgetStray
  <2>2. DisputeInv' /\ AllLast
    BY <1>1, <2>1, ContractStays
  <2> QED
    BY <1>1, <2>1, <2>2, RecordsStep
<1>5. ASSUME NEW call \in Call, Makeable(call), Executes(call), UNCHANGED now PROVE AllLast
  BY <1>1, <1>5, Execution
<1>6. ASSUME NEW c \in Callers, LandCall(c) PROVE RecordsInv' /\ AllLast
  <2>1. calls[c].call \in Call /\ Makeable(calls[c].call)
    BY <1>6, RecordFacts DEF LandCall, Doing, Holds
  <2> QED
    BY <1>5, <1>6, <2>1, LandStep DEF LandCall
<1>7. ASSUME NEW call \in strays, LandStray(call) PROVE RecordsInv' /\ AllLast
  BY <1>1, <1>5, <1>7, LandStep DEF LandStray
<1> QED
  BY <1>2, <1>3, <1>4, <1>6, <1>7 DEF RecordsNext, recordVars

LEMMA RecordsInvariant == RecordsSpec => []RecordsInv
<1>1. RecordsInv /\ [RecordsNext]_recordVars => RecordsInv'
  BY RecordsKept
<1> QED
  BY <1>1, RecordsStart, PTL DEF RecordsSpec

-----------------------------------------------------------------------------
(* What the rows tell.                                                     *)

\* A row that names a winner names the arbitrator's standing ruling, whatever
\* two administrators asked for at once, whatever landed after its request had
\* given up and whatever was appealed, voted or claimed meanwhile; and the
\* contract pays that side if nobody appeals.
THEOREM RowsTellRulings == RecordsSpec => RowTellsRuling
<1> DEFINE Names ==
               \A d \in DisputeIds :
                  RowResolved(d)' /\ disputes'[d].status \in {"Appealing", "UnderAppeal"}
                  => PendingRuling(d)' = rows'[d].status
           Began == \A d \in DisputeIds : RowResolved(d)' => disputes'[d].appealBy > 0
           Pays ==
               \A d \in DisputeIds :
                  /\ RowResolved(d)
                  /\ disputes[d].status = "Appealing"
                  /\ disputes'[d].status \in Settlements
                  => disputes'[d].status = SettledAs(rows[d].status)
<1>1. ASSUME RecordsInv, [RecordsNext]_recordVars PROVE Names /\ Began /\ Pays
  <2>1. RecordsInv' /\ AllLast
    BY <1>1, RecordsKept
  <2>2. \A d \in DisputeIds : RowResolved(d)' => Ruled(disputes'[d], rows'[d].status)
    BY <2>1 DEF RecordsInv, RowsRuled
  <2>3. \A d \in DisputeIds : PendingRuling(d)' = RulingOf(disputes'[d])
    BY DEF PendingRuling, RulingOf
  <2>4. Names /\ Began
    BY <2>2, <2>3 DEF Ruled, UnderRuling
  <2>5. Pays
    <3>1. SUFFICES ASSUME NEW d \in DisputeIds, RowResolved(d),
                          disputes[d].status = "Appealing", disputes'[d].status \in Settlements
                   PROVE  disputes'[d].status = SettledAs(rows[d].status)
      OBVIOUS
    <3>2. disputes[d].appealBy > 0 /\ RulingOf(disputes[d]) = rows[d].status
      BY <1>1, <3>1 DEF RecordsInv, RowsRuled, Ruled, UnderRuling
    <3>3. disputes'[d].appealBy > 0 /\ RulingOf(disputes'[d]) = rows[d].status
      BY <2>1, <3>1, <3>2 DEF AllLast, Lasts
    <3>4. Lawful(disputes'[d], outcome'[d])
      BY <2>1 DEF RecordsInv, DisputeInv
    <3> QED
      BY <3>1, <3>3, <3>4 DEF Lawful
  <2> QED
    BY <2>4, <2>5
<1>2. RecordsInv /\ [RecordsNext]_recordVars => [Names /\ Began /\ Pays]_recordVars
  BY <1>1
<1> HIDE DEF Names, Began, Pays
<1>3. [][RecordsNext]_recordVars /\ []RecordsInv
      => [][Names]_recordVars /\ [][Began]_recordVars /\ [][Pays]_recordVars
  BY <1>2, PTL
<1>4. [][Names]_recordVars /\ [][Began]_recordVars /\ [][Pays]_recordVars => RowTellsRuling
  BY DEF RowTellsRuling, Names, Began, Pays
<1> QED
  BY <1>3, <1>4, RecordsInvariant, PTL DEF RecordsSpec

-----------------------------------------------------------------------------
(* The backend as a caller of the contract.                                *)

\* A call that lands is one that anybody might have made.
LEMMA ExecutionIsAStep ==
    ASSUME DisputeInv, Witnesses = Accounts, NEW call \in Call, Makeable(call),
           Executes(call), UNCHANGED now
    PROVE  DisputeNext
<1>1. ASSUME NEW p \in Claims, p.sender = call.by, OpenDispute(call.by, p)
      PROVE  DisputeStep
  <2>1. call.by \in Accounts
    BY <1>1, DisputeConstants DEF Claim
  <2> QED
    BY <1>1, <2>1 DEF OpenFreeForm, DisputeStep
<1>2. ASSUME call.op = "evidence", SubmitEvidence(call.by, call.id)
      PROVE  DisputeStep
  <2>1. call.id \in DisputeIds /\ disputes[call.id] \in DisputeRecord
    BY <1>2, InvFacts DEF Makeable
  <2>2. call.by \in Accounts
    BY <1>2, <2>1 DEF SubmitEvidence, Parties, DisputeRecord, Someone
  <2> QED
    BY <1>2, <2>1, <2>2 DEF Argue, DisputeStep
<1>3. ASSUME call.op = "resolve", ResolveDispute(Arbitrator, call.id, call.ruling)
      PROVE  DisputeStep
  <2>1. call.id \in DisputeIds /\ call.ruling \in Rulings
    BY <1>3 DEF Makeable, Rulings
  <2>2. Arbitrator \in Officials
    BY ConstantFacts
  <2> QED
    BY <1>3, <2>1, <2>2 DEF Argue, DisputeStep
<1> QED
  BY <1>1, <1>2, <1>3 DEF Executes, DisputeNext

\* To the dispute contract the backend is one more caller, whatever answers it
\* loses and whenever its calls land: all that is proved of the contract holds
\* beside it (disputeResolution.js makes each call with the signer the contract
\* asks for).
THEOREM RecordsAreAClient ==
    ASSUME Witnesses = Accounts PROVE RecordsSpec => DisputeSpec
<1>1. ASSUME RecordsInv, [RecordsNext]_recordVars PROVE [DisputeNext]_vars
  <2>1. ASSUME NEW c \in Callers, LandCall(c) PROVE DisputeNext
    <3>1. calls[c].call \in Call /\ Makeable(calls[c].call) /\ DisputeInv
      BY <1>1, <2>1, RecordFacts DEF LandCall, Doing, Holds
    <3> QED
      BY <2>1, <3>1, ExecutionIsAStep DEF LandCall
  <2>2. ASSUME NEW call \in strays, LandStray(call) PROVE DisputeNext
    <3>1. call \in Call /\ Makeable(call) /\ DisputeInv
      BY <1>1, <2>2, RecordFacts, SMTT(30)
    <3> QED
      BY <2>2, <3>1, ExecutionIsAStep DEF LandStray
  <2>3. ASSUME NEW c \in Callers,
               \/ Ask(c) \/ InsertEvidence(c) \/ SendCall(c) \/ CallFails(c)
               \/ GiveUp(c) \/ LoseOutcome(c) \/ WriteTicket(c)
               \/ \E ticket \in {"none", "open"} : Record(c, ticket)
        PROVE  UNCHANGED vars
    BY <2>3, ZenonT(30) DEF Ask, AskOpen, AskEvidence, AskResolve, InsertEvidence, SendCall, CallFails,
                GiveUp, LoseOutcome, WriteTicket, Record
  <2>4. ASSUME NEW call \in strays, ForgetStray(call) PROVE UNCHANGED vars
    BY <2>4 DEF ForgetStray
  <2>5. UNCHANGED recordVars => UNCHANGED vars
    BY DEF recordVars
  <2> QED
    BY <1>1, <2>1, <2>2, <2>3, <2>4, <2>5 DEF RecordsNext
<1>2. RecordsInit => DisputeInit
  BY DEF RecordsInit
<1> QED
  BY <1>1, <1>2, RecordsInvariant, PTL DEF RecordsSpec, DisputeSpec

=============================================================================
