------------------------ MODULE IdempotentRequests ------------------------
(***************************************************************************)
(* One payment form and the requests it sends: BatchPayment.jsx keeps an   *)
(* Idempotency-Key across attempts, middleware/idempotency.js answers a    *)
(* key it has seen from Redis or from idempotency_keys, requireStepUp.js   *)
(* wants a fresh step-up token, and sendBatch pays under the lock of the   *)
(* wallet.  Beside the form, OfflineBanner.jsx resends a payment that was  *)
(* queued offline under the key the queue gave it.                         *)
(*                                                                         *)
(* Every await of the middleware is a step of its request.  A body is a    *)
(* version of the form; a key is the number of the request it was made     *)
(* for.  Answers expire after 24 hours, beyond what is modelled.           *)
(***************************************************************************)
EXTENDS Integers, FiniteSets

CONSTANTS
    MaxRequests,    \* bound: HTTP requests sent
    QuickHandlers,  \* no handler outlives its wallet lock (10 s) or marker (30 s)
    MaxSlips        \* bound: failures of Redis or of the database

ASSUME RequestConstants ==
    /\ MaxRequests \in Nat
    /\ QuickHandlers \in BOOLEAN
    /\ MaxSlips \in Nat

Requests == 1..MaxRequests
Keys == 0..MaxRequests       \* 0 is the key of the queued payment
Bodies == {1, 2}

VARIABLES
    form,      \* the page: its key, and the request it awaits
    queued,    \* the payment is still in the offline queue, whatever its status
    requests,  \* every request: where it is, what it carries, its answer
    inflight,  \* Redis: the keys with an idem:inflight marker
    answers,   \* Redis: the answer kept for each key
    rows,      \* idempotency_keys: the answer kept for each key
    paidBy,    \* the requests whose payment is on the ledger
    slipped    \* failures so far

requestVars ==
    <<form, queued, requests, inflight, answers, rows, paidBy, slipped>>

NothingKept == [body |-> 0, status |-> "none"]
Unsent == [where |-> "unsent", key |-> 0, body |-> 1, token |-> FALSE,
           status |-> "none", replayed |-> FALSE, spent |-> FALSE]

RequestsInit ==
    /\ form = [key |-> 0, awaits |-> 0]
    /\ queued = TRUE
    /\ requests = [r \in Requests |-> Unsent]
    /\ inflight = {}
    /\ answers = [k \in Keys |-> NothingKept]
    /\ rows = [k \in Keys |-> NothingKept]
    /\ paidBy = {}
    /\ slipped = 0

Is(r, where) == requests[r].where = where
Moves(r, where) == requests' = [requests EXCEPT ![r].where = where]
Answers(r, where, status) ==
    requests' = [requests EXCEPT ![r].where = where, ![r].status = status]

\* A call of Redis or of the database fails; cache.js and the middleware's
\* catches turn that into "not found" or "not stored".
Slips == slipped < MaxSlips /\ slipped' = slipped + 1

\* Some request with this key was answered, and the answer was to be kept.
Spent(k) ==
    \E r \in Requests :
        /\ requests[r].key = k /\ ~requests[r].replayed
        /\ requests[r].where \in {"answer", "over"}
        /\ requests[r].status \in {"ok", "refused"}

-----------------------------------------------------------------------------
\* The client.

Send(r, k, b, token) ==
    /\ Is(r, "unsent")
    /\ \A q \in Requests : q < r => ~Is(q, "unsent")
    /\ requests' = [requests EXCEPT ![r] =
                      [Unsent EXCEPT !.where = "marker", !.key = k, !.body = b,
                          !.token = token, !.spent = Spent(k)]]

\* handleSubmit, once requestStepUp has a token: the form's key, or a new one.
SubmitForm(r, b) ==
    LET k == IF form.key = 0 THEN r ELSE form.key IN
    /\ form.awaits = 0
    /\ Send(r, k, b, TRUE)
    /\ form' = [key |-> k, awaits |-> r]
    /\ UNCHANGED <<queued, inflight, answers, rows, paidBy, slipped>>

\* sendQueued, after the PIN, with the stored key and without the step-up token
\* the PIN was exchanged for.  No code reads the status it marks the entry with:
\* another tab, or the page loaded again, sends an entry that is 'syncing' too.
SendQueued(r) ==
    /\ queued
    /\ Send(r, 0, 1, FALSE)
    /\ UNCHANGED <<form, queued, inflight, answers, rows, paidBy, slipped>>

\* The response arrives: reset() after a success, and resetUnlessLost drops
\* the key after any other response too.
ReceiveForm(r) ==
    /\ form.awaits = r
    /\ Is(r, "answer")
    /\ Moves(r, "over")
    /\ form' = [key |-> 0, awaits |-> 0]
    /\ UNCHANGED <<queued, inflight, answers, rows, paidBy, slipped>>

\* axios gives up after its timeout, or the connection is lost: the key stays.
LoseResponse(r) ==
    /\ form.awaits = r
    /\ form' = [form EXCEPT !.awaits = 0]
    /\ UNCHANGED <<queued, requests, inflight, answers, rows, paidBy, slipped>>

\* A queued payment that was sent is removed; any other response, or none,
\* leaves it in the queue.
ReceiveQueued(r) ==
    /\ requests[r].key = 0
    /\ Is(r, "answer")
    /\ Moves(r, "over")
    /\ queued' = (queued /\ requests[r].status # "ok")
    /\ UNCHANGED <<form, inflight, answers, rows, paidBy, slipped>>

\* handleCancel, handleDiscardAll, or the purge at login, in this tab or in
\* another, even while the payment is being sent.
DiscardQueued ==
    /\ queued
    /\ queued' = FALSE
    /\ UNCHANGED <<form, requests, inflight, answers, rows, paidBy, slipped>>

-----------------------------------------------------------------------------
\* The middleware.

Held(kept, r) == kept[requests[r].key]

\* What a store answers for the request's key: nothing, the response to be
\* replayed, or 409 because it was another body's.
Look(r, kept, next) ==
    IF Held(kept, r) = NothingKept THEN Moves(r, next)
    ELSE requests' = [requests EXCEPT ![r].where = "answer", ![r].replayed = TRUE,
                        ![r].status = IF Held(kept, r).body = requests[r].body
                                      THEN Held(kept, r).status ELSE "reused"]

CheckMarker(r) ==
    /\ Is(r, "marker")
    /\ \/ /\ requests[r].key \in inflight
          /\ requests' = [requests EXCEPT ![r].where = "answer",
                             ![r].status = "busy", ![r].replayed = TRUE]
          /\ UNCHANGED slipped
       \/ /\ requests[r].key \notin inflight
          /\ Moves(r, "redis")
          /\ UNCHANGED slipped
       \/ Moves(r, "redis") /\ Slips
    /\ UNCHANGED <<form, queued, inflight, answers, rows, paidBy>>

CheckRedis(r) ==
    /\ Is(r, "redis")
    /\ \/ Look(r, answers, "row") /\ UNCHANGED slipped
       \/ Moves(r, "row") /\ Slips
    /\ UNCHANGED <<form, queued, inflight, answers, rows, paidBy>>

\* Mutant of CheckRow: Redis alone is asked.
CheckRowNever(r) ==
    /\ Is(r, "row")
    /\ Moves(r, "mark")
    /\ UNCHANGED <<form, queued, inflight, answers, rows, paidBy, slipped>>

CheckRow(r) ==
    /\ Is(r, "row")
    /\ \/ Look(r, rows, "mark") /\ UNCHANGED slipped
       \/ Moves(r, "mark") /\ Slips
    /\ UNCHANGED <<form, queued, inflight, answers, rows, paidBy>>

\* requireStepUp: 403 without a token, which serves one request only.
StepUp(r) ==
    IF requests[r].token THEN Moves(r, "handler")
    ELSE Answers(r, "clear", "refused")

SetMarker(r) ==
    /\ Is(r, "mark")
    /\ \/ inflight' = inflight \cup {requests[r].key} /\ UNCHANGED slipped
       \/ UNCHANGED inflight /\ Slips
    /\ StepUp(r)
    /\ UNCHANGED <<form, queued, answers, rows, paidBy>>

-----------------------------------------------------------------------------
\* sendBatch: a check fails, or another request has the wallet's lock and the
\* answer is 429; or the lock is free, or was lost by one that works too long.
EnterHandler(r) ==
    /\ Is(r, "handler")
    /\ \/ Answers(r, "clear", "refused")
       \/ /\ QuickHandlers => \A q \in Requests : ~Is(q, "paying")
          /\ Moves(r, "paying")
    /\ UNCHANGED <<form, queued, inflight, answers, rows, paidBy, slipped>>

\* sendBatchPayment: paid; or Horizon answers with an error (400) or not at all
\* (500).  Among its errors is its own timeout, so that after either of them the
\* payment may have applied.
Pay(r) ==
    /\ Is(r, "paying")
    /\ \/ Answers(r, "clear", "ok") /\ paidBy' = paidBy \cup {r}
       \/ /\ \E status \in {"refused", "error"} : Answers(r, "clear", status)
          /\ paidBy' \in {paidBy, paidBy \cup {r}}
    /\ UNCHANGED <<form, queued, inflight, answers, rows, slipped>>

\* res.json: the marker goes first; a 5xx is not kept.
ClearMarker(r) ==
    /\ Is(r, "clear")
    /\ \/ inflight' = inflight \ {requests[r].key} /\ UNCHANGED slipped
       \/ UNCHANGED inflight /\ Slips
    /\ Moves(r, IF requests[r].status = "error" THEN "answer" ELSE "store")
    /\ UNCHANGED <<form, queued, answers, rows, paidBy>>

StoreAnswer(r) ==
    /\ Is(r, "store")
    /\ \/ /\ answers' = [answers EXCEPT ![requests[r].key] =
                    [body |-> requests[r].body, status |-> requests[r].status]]
          /\ UNCHANGED slipped
       \/ UNCHANGED answers /\ Slips
    /\ Moves(r, "record")
    /\ UNCHANGED <<form, queued, inflight, rows, paidBy>>

\* INSERT ... ON CONFLICT DO NOTHING, and the response leaves; its 'finish'
\* event deletes the marker again, whoever set it.
RecordAnswer(r) ==
    LET k == requests[r].key IN
    /\ Is(r, "record")
    /\ \/ /\ rows' = [rows EXCEPT ![k] =
                         IF @ # NothingKept THEN @
                         ELSE [body |-> requests[r].body,
                               status |-> requests[r].status]]
          /\ UNCHANGED slipped
       \/ UNCHANGED rows /\ Slips
    /\ Moves(r, "answer")
    /\ inflight' = inflight \ {k}
    /\ UNCHANGED <<form, queued, answers, paidBy>>

\* The marker's time to live is over.
ExpireMarker(k) ==
    /\ k \in inflight
    /\ QuickHandlers =>
          \A r \in Requests :
              requests[r].key = k => ~requests[r].where \in {"handler", "paying"}
    /\ inflight' = inflight \ {k}
    /\ UNCHANGED <<form, queued, requests, answers, rows, paidBy, slipped>>

\* The 24 hours of Redis do not pass, but Redis may lose what it has.
FlushRedis ==
    /\ Slips
    /\ inflight' = {}
    /\ answers' = [k \in Keys |-> NothingKept]
    /\ UNCHANGED <<form, queued, requests, rows, paidBy>>

Serve(r) ==
    \/ CheckMarker(r)
    \/ CheckRedis(r)
    \/ CheckRow(r)
    \/ SetMarker(r)
    \/ EnterHandler(r)
    \/ Pay(r)
    \/ ClearMarker(r)
    \/ StoreAnswer(r)
    \/ RecordAnswer(r)

RequestsNext ==
    \/ \E r \in Requests :
          \/ \E b \in Bodies : SubmitForm(r, b)
          \/ SendQueued(r)
          \/ ReceiveForm(r)
          \/ LoseResponse(r)
          \/ ReceiveQueued(r)
          \/ Serve(r)
    \/ DiscardQueued
    \/ \E k \in Keys : ExpireMarker(k)
    \/ FlushRedis

RequestsSpec == RequestsInit /\ [][RequestsNext]_requestVars

-----------------------------------------------------------------------------
RequestTypeOK ==
    /\ form \in [key : Keys, awaits : 0..MaxRequests]
    /\ queued \in BOOLEAN
    /\ requests \in [Requests ->
          [where : {"unsent", "marker", "redis", "row", "mark", "handler",
                    "paying", "clear", "store", "record", "answer", "over"},
           key : Keys, body : Bodies, token : BOOLEAN,
           status : {"none", "ok", "refused", "error", "busy", "reused"},
           replayed : BOOLEAN, spent : BOOLEAN]]
    /\ inflight \subseteq Keys
    /\ {answers, rows} \subseteq
          [Keys -> [body : {0, 1, 2}, status : {"none", "ok", "refused"}]]
    /\ paidBy \subseteq Requests
    /\ slipped \in 0..MaxSlips

\* A request sent when its key had been answered never gets to the handler,
\* although one store fails: "the backend will see the same Idempotency-Key and
\* return the cached response instead of processing a duplicate payment".
SpentKeyNotHandled ==
    \A r \in Requests :
        requests[r].spent =>
            ~requests[r].where \in {"mark", "handler", "paying"} /\ r \notin paidBy

\* "Success" is only ever told to the page about a payment of this key, and
\* of the amounts and recipients that this request carries.
SuccessIsOwnPayment ==
    \A r \in Requests :
        requests[r].status = "ok" =>
            \E p \in paidBy : /\ requests[p].key = requests[r].key
                             /\ requests[p].body = requests[r].body

\* What the keys are for: an answered key is not handled again, and a replayed
\* answer is the answer to this very request.  (And the state has its types.)
AnswersKept == RequestTypeOK /\ SpentKeyNotHandled /\ SuccessIsOwnPayment
=============================================================================
