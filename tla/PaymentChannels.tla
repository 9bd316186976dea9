-------------------------- MODULE PaymentChannels --------------------------
(***************************************************************************)
(* services/paymentChannel.js behind routes/channels.js: the channels that *)
(* one wallet opens, the payments recorded in them, and their settlement.  *)
(*                                                                         *)
(* transact and closeChannel each hold the channel's row from their SELECT *)
(* ... FOR UPDATE to the end of their database transaction; closeChannel   *)
(* submits the settlement in between.  A rollback takes back what the row  *)
(* says, and never what the ledger has done.                               *)
(*                                                                         *)
(* Amounts are in half stroops: the columns are numeric(20,7), whole       *)
(* stroops, and an amount of a request may be finer.  The ledger and       *)
(* Horizon are external.                                                   *)
(***************************************************************************)
EXTENDS Integers

CONSTANTS
    Channels,
    ChannelCallers,  \* requests served at once
    Fundings,        \* amounts a channel may be opened with
    ChannelSums,     \* amounts that may be paid in a channel
    MaxExtra,        \* bound: payments of a channel that end in half a stroop
    MaxSigned,       \* bound: transactions signed
    MaxForeign       \* bound: other transactions of the wallet

ASSUME ChannelConstants ==
    /\ \A f \in Fundings : f \in Nat \ {0} /\ f % 2 = 0
    /\ ChannelSums \subseteq Nat \ {0}
    /\ {MaxExtra, MaxSigned, MaxForeign} \subseteq Nat

VARIABLES
    channels,    \* payment_channels
    channelCalls,\* what each request is doing
    defaultKey,  \* is the channels' wallet the user's default one?
    signedTxs,   \* transactions signed so far
    walletSeq,   \* the sequence number of the wallet's account
    foreign,     \* other transactions of the account so far
    mature,      \* the channels whose closing transaction has come of age
    network,     \* transactions that Horizon passed on and no ledger settled
    settlements, \* transactions that a ledger has carried out
    unanswered   \* history: channels of which a submission's success is not recorded

channelVars == <<channels, channelCalls, defaultKey, signedTxs, walletSeq,
                 foreign, mature, network, settlements, unanswered>>

NoTransaction == [id |-> 0]
Idle == [at |-> "idle"]

\* numeric(20,7) rounds half away from zero.
Stored(x) == IF x % 2 = 0 THEN x ELSE x + 1

\* The stages at which a request is inside its database transaction.
Holding == {"locked", "signed", "sent", "answered"}
Holds(r, c) == channelCalls[r].at \in Holding /\ channelCalls[r].channel = c

ChannelsInit ==
    /\ channels = [c \in Channels |->
          [status |-> "none", funding |-> 0, sender |-> 0, recipient |-> 0,
           extra |-> 0, closing |-> NoTransaction, hash |-> NoTransaction]]
    /\ channelCalls = [r \in ChannelCallers |-> Idle]
    /\ defaultKey = TRUE
    /\ signedTxs = 0
    /\ walletSeq = 0
    /\ foreign = 0
    /\ mature = {}
    /\ network = {}
    /\ settlements = {}
    /\ unanswered = {}

OnLedger == <<walletSeq, foreign, mature, network, settlements>>
ChannelRows == <<channels, signedTxs>>

Go(r, call) == channelCalls' = [channelCalls EXCEPT ![r] = call]
Answered(r) == Go(r, Idle)

-----------------------------------------------------------------------------
\* openChannel: the closing transaction, which pays the sender, is signed for
\* the next sequence number and valid a day later, and the row is inserted.
OpenChannel(c, funding) ==
    /\ channels[c].status = "none"
    /\ defaultKey
    /\ signedTxs < MaxSigned
    /\ signedTxs' = signedTxs + 1
    /\ channels' = [channels EXCEPT ![c] =
          [status |-> "open", funding |-> funding, sender |-> funding,
           recipient |-> 0, extra |-> 0, hash |-> NoTransaction,
           closing |-> [id |-> signedTxs + 1, seq |-> walletSeq + 1,
                        channel |-> c, amount |-> 0]]]
    /\ UNCHANGED <<channelCalls, defaultKey, OnLedger, unanswered>>

\* The route reads the key of the default wallet before closeChannel starts.
AskTransact(r, c, sum) ==
    /\ channelCalls[r] = Idle
    /\ Go(r, [at |-> "asked", op |-> "transact", channel |-> c, amount |-> sum,
              fits |-> defaultKey, tx |-> NoTransaction])
    /\ UNCHANGED <<ChannelRows, defaultKey, OnLedger, unanswered>>

AskClose(r, c) ==
    /\ channelCalls[r] = Idle
    /\ Go(r, [at |-> "asked", op |-> "close", channel |-> c, amount |-> 0,
              fits |-> defaultKey, tx |-> NoTransaction])
    /\ UNCHANGED <<ChannelRows, defaultKey, OnLedger, unanswered>>

\* The request's row, as SELECT ... FOR UPDATE returns it, and the check of the
\* amount; close takes the amount to settle from it.
ReadRow(r) ==
    LET call == channelCalls[r]
        row == channels[call.channel]
    IN  /\ call.at = "asked"
        /\ \/ /\ row.status = "open"
              /\ call.op = "transact" => call.amount <= row.sender
              /\ Go(r, [call EXCEPT !.at = "locked",
                          !.amount = IF call.op = "close" THEN row.recipient ELSE @])
           \/ /\ row.status = "open" => call.op = "transact" /\ call.amount > row.sender
              /\ Answered(r)
        /\ UNCHANGED <<ChannelRows, defaultKey, OnLedger, unanswered>>

\* Mutant of LockRow: a SELECT without FOR UPDATE.
LockRowNot(r) == ReadRow(r)

\* SELECT ... FOR UPDATE waits for the row, and reads it when it is free.
LockRow(r) ==
    /\ channelCalls[r] # Idle
    /\ \A q \in ChannelCallers : ~Holds(q, channelCalls[r].channel)
    /\ ReadRow(r)

\* Each balance is rounded on its own.
Transferred(row, sum) ==
    [row EXCEPT !.sender = Stored(@ - sum),
                !.recipient = Stored(@ + sum),
                !.extra = @ + (sum % 2)]

\* The UPDATE and the COMMIT of transact.
RecordTransfer(r) ==
    LET call == channelCalls[r]
    IN  /\ call.at = "locked" /\ call.op = "transact"
        /\ call.amount % 2 = 1 => channels[call.channel].extra < MaxExtra
        /\ channels' = [channels EXCEPT ![call.channel] = Transferred(@, call.amount)]
        /\ Answered(r)
        /\ UNCHANGED <<signedTxs, defaultKey, OnLedger, unanswered>>

-----------------------------------------------------------------------------
\* With something to settle, close builds a payment of it on the account's
\* next sequence number; otherwise it takes the closing transaction of the row.
SignSettlement(r) ==
    LET call == channelCalls[r]
    IN  /\ call.at = "locked" /\ call.op = "close"
        /\ IF call.amount > 0
           THEN /\ signedTxs < MaxSigned
                /\ signedTxs' = signedTxs + 1
                /\ Go(r, [call EXCEPT !.at = "signed",
                            !.tx = [id |-> signedTxs + 1, seq |-> walletSeq + 1,
                                    channel |-> call.channel, amount |-> call.amount]])
           ELSE /\ Go(r, [call EXCEPT !.at = "signed", !.fits = TRUE,
                            !.tx = channels[call.channel].closing])
                /\ UNCHANGED signedTxs
        /\ UNCHANGED <<channels, defaultKey, OnLedger, unanswered>>

\* Horizon passes the transaction on, or does not: it is not valid, or the
\* request is lost.
SubmitSettlement(r) ==
    LET call == channelCalls[r]
    IN  /\ call.at = "signed"
        /\ Go(r, [call EXCEPT !.at = "sent"])
        /\ \/ UNCHANGED network
           \/ /\ call.fits
              /\ call.tx.seq = walletSeq + 1
              /\ call.tx.amount = 0 => call.channel \in mature
              /\ network' = network \cup {call.tx}
        /\ UNCHANGED <<ChannelRows, defaultKey, walletSeq, foreign, mature,
                       settlements, unanswered>>

\* The ledger takes up a transaction; its payment succeeds or fails (the
\* channel's funds are the wallet's own and may be gone), or its time is over.
LandSettlement(x) ==
    /\ x \in network
    /\ network' = network \ {x}
    /\ \/ /\ x.seq = walletSeq + 1
          /\ walletSeq' = x.seq
          /\ settlements' \in {settlements, settlements \cup {x}}
       \/ UNCHANGED <<walletSeq, settlements>>
    /\ UNCHANGED <<channels, channelCalls, defaultKey, signedTxs, foreign,
                   mature, unanswered>>

HearSuccess(r) ==
    /\ channelCalls[r].at = "sent"
    /\ channelCalls[r].tx \in settlements
    /\ Go(r, [channelCalls[r] EXCEPT !.at = "answered"])
    /\ UNCHANGED <<ChannelRows, defaultKey, OnLedger, unanswered>>

\* Horizon answers that the transaction failed: ROLLBACK.
HearFailure(r) ==
    /\ channelCalls[r].at = "sent"
    /\ channelCalls[r].tx \notin network \cup settlements
    /\ Answered(r)
    /\ UNCHANGED <<ChannelRows, defaultKey, OnLedger, unanswered>>

\* The row is marked closed, with the hash of the settlement: COMMIT.
RecordClosed(r) ==
    LET call == channelCalls[r]
    IN  /\ call.at = "answered"
        /\ channels' = [channels EXCEPT ![call.channel] =
              [@ EXCEPT !.status = "closed", !.hash = call.tx]]
        /\ Answered(r)
        /\ UNCHANGED <<signedTxs, defaultKey, OnLedger, unanswered>>

\* No answer comes (withFallback's two nodes, 504), the database fails, or the
\* process dies: the row is as before, and what was submitted goes on.
RollBack(r) ==
    LET call == channelCalls[r]
    IN  /\ call.at \in Holding
        /\ Answered(r)
        /\ unanswered' = IF call.at \in {"sent", "answered"}
                         THEN unanswered \cup {call.channel} ELSE unanswered
        /\ UNCHANGED <<ChannelRows, defaultKey, OnLedger>>

-----------------------------------------------------------------------------
\* The user makes another wallet the default one, or this one again.
SwitchDefault ==
    /\ defaultKey' = ~defaultKey
    /\ UNCHANGED <<ChannelRows, channelCalls, OnLedger, unanswered>>

\* CHANNEL_TIMEOUT_SECONDS after the opening.
ComeOfAge(c) ==
    /\ channels[c].status # "none"
    /\ c \notin mature
    /\ mature' = mature \cup {c}
    /\ UNCHANGED <<ChannelRows, channelCalls, defaultKey, walletSeq, foreign,
                   network, settlements, unanswered>>

SendForeign ==
    /\ foreign < MaxForeign
    /\ foreign' = foreign + 1
    /\ walletSeq' = walletSeq + 1
    /\ UNCHANGED <<ChannelRows, channelCalls, defaultKey, mature, network,
                   settlements, unanswered>>

ServeChannel(r) ==
    \/ LockRow(r)
    \/ RecordTransfer(r)
    \/ SignSettlement(r)
    \/ SubmitSettlement(r)
    \/ HearSuccess(r)
    \/ HearFailure(r)
    \/ RecordClosed(r)
    \/ RollBack(r)

ChannelsNext ==
    \/ \E c \in Channels :
          \/ \E funding \in Fundings : OpenChannel(c, funding)
          \/ ComeOfAge(c)
    \/ \E r \in ChannelCallers :
          \/ \E c \in Channels :
                \/ \E sum \in ChannelSums : AskTransact(r, c, sum)
                \/ AskClose(r, c)
          \/ ServeChannel(r)
    \/ \E x \in network : LandSettlement(x)
    \/ SwitchDefault
    \/ SendForeign

ChannelsSpec == ChannelsInit /\ [][ChannelsNext]_channelVars

-----------------------------------------------------------------------------
Transactions ==
    [id : Nat, seq : Nat, channel : Channels, amount : Nat]

ChannelRow ==
    [status : {"none", "open", "closed"}, funding : Nat, sender : Nat,
     recipient : Nat, extra : Nat, closing : Transactions \cup {NoTransaction},
     hash : Transactions \cup {NoTransaction}]

ChannelCall ==
    [at : Holding \cup {"asked"}, op : {"transact", "close"}, channel : Channels,
     amount : Nat, fits : BOOLEAN, tx : Transactions \cup {NoTransaction}]

ChannelsTypeOK ==
    /\ channels \in [Channels -> ChannelRow]
    /\ channelCalls \in [ChannelCallers -> {Idle} \cup ChannelCall]
    /\ defaultKey \in BOOLEAN
    /\ {signedTxs, walletSeq, foreign} \subseteq Nat
    /\ mature \subseteq Channels /\ unanswered \subseteq Channels
    /\ network \subseteq Transactions /\ settlements \subseteq Transactions

\* Whatever requests meet, a channel's two balances are what it was funded
\* with, and one stroop for every payment that ended in half a stroop, since
\* then both balances are rounded up.
ChannelBalanced ==
    \A c \in Channels :
        channels[c].sender + channels[c].recipient =
            channels[c].funding + 2 * channels[c].extra

\* A closed channel was settled with what it records for the recipient: no
\* payment came in between, nor after.
ClosedAsSettled ==
    \A c \in Channels : channels[c].status = "closed" =>
        LET settled == channels[c].hash
        IN  /\ settled \in settlements
            /\ settled.channel = c /\ settled.amount = channels[c].recipient

\* A channel is settled once, and its row knows, unless the success of a
\* submission got lost: the row is rolled back then, and stays open for the
\* next close.
SettledOnce ==
    \A c \in Channels \ unanswered :
        \A x, y \in settlements : x.channel = c /\ y.channel = c => x = y

\* Neither two payments, nor two closes, nor one of each spend the balance of
\* a channel twice: "only the first one wins".
ChannelsSound ==
    ChannelsTypeOK /\ ChannelBalanced /\ ClosedAsSettled /\ SettledOnce
=============================================================================
