------------------------- MODULE ClaimableBalances -------------------------
(***************************************************************************)
(* Payments to a recipient without an account: sendPayment leaves a        *)
(* claimable balance on the ledger, the controller inserts its two rows,   *)
(* jobs/checkClaimableBalanceExpiry.js expires them, and the effects       *)
(* stream of services/ledgerListener.js settles them when the balance is   *)
(* taken.                                                                  *)
(*                                                                         *)
(* The ledger is external: the recipient may claim before the expiry, the  *)
(* sender after it, and the asset's issuer may claw back at any time; its  *)
(* effects reach every listener in order.  A handler's await leaves room   *)
(* for later effects; the saved cursor is shared through Redis.            *)
(***************************************************************************)
EXTENDS Integers, Sequences

CONSTANTS
    Balances,   \* the claimable balances
    Listeners,  \* processes with an effects stream
    MaxEffects, \* bound: effects on the ledger
    MaxLosses,  \* bound: stream errors
    MaxSnags    \* bound: crashes, and failures of Redis or of the database

ASSUME BalanceConstants ==
    {MaxEffects, MaxLosses, MaxSnags} \subseteq Nat /\ "other" \notin Balances

VARIABLES
    coins,    \* the balance on the ledger
    due,      \* the balances whose expiry has passed
    tables,   \* claimable_balances.status and transactions.status
    feed,     \* the ledger's effects, oldest first: the balance that was
              \* taken, or an effect of another type
    streams,  \* each listener: stream open, and the effects delivered to it
    handling, \* handlers at work: listener, effect, at which await
    cursor,   \* ledger:cursor:effects:global; 0 when Redis has no key
    losses,   \* stream errors so far
    snags     \* failures so far

balanceVars ==
    <<coins, due, tables, feed, streams, handling, cursor, losses, snags>>

Other == "other"
NoRows == [balance |-> "none", tx |-> "none"]
Taken(b) == coins[b] \in {"claimed", "returned", "clawed"}

BalancesInit ==
    /\ coins = [b \in Balances |-> "none"]
    /\ due = {}
    /\ tables = [b \in Balances |-> NoRows]
    /\ feed = <<>>
    /\ streams = [l \in Listeners |-> [open |-> FALSE, seen |-> 0]]
    /\ handling = {}
    /\ cursor = 0
    /\ losses = 0
    /\ snags = 0

Emit(effect) == Len(feed) < MaxEffects /\ feed' = Append(feed, effect)
Snag == snags < MaxSnags /\ snags' = snags + 1
Streaming == <<streams, handling, cursor>>

-----------------------------------------------------------------------------
\* createClaimableBalance: the transaction is in a ledger.
CreateBalance(b) ==
    /\ coins[b] = "none"
    /\ coins' = [coins EXCEPT ![b] = "open"]
    /\ Emit(Other)
    /\ UNCHANGED <<due, tables, Streaming, losses, snags>>

\* The stream is of the whole network.
OtherEffect ==
    /\ Emit(Other)
    /\ UNCHANGED <<coins, due, tables, Streaming, losses, snags>>

\* One statement inserts both rows, once the balance's id has been looked up:
\* any time later, or never.
InsertRows(b) ==
    /\ coins[b] # "none"
    /\ tables[b] = NoRows
    /\ tables' = [tables EXCEPT ![b] = [balance |-> "active", tx |-> "pending_claim"]]
    /\ UNCHANGED <<coins, due, feed, Streaming, losses, snags>>

Expiry(b) ==
    /\ coins[b] # "none"
    /\ b \notin due
    /\ due' = due \cup {b}
    /\ UNCHANGED <<coins, tables, feed, Streaming, losses, snags>>

\* The predicates of the two claimants, or the issuer's clawback.
Take(b, how) ==
    /\ coins[b] = "open"
    /\ how = "claimed" => b \notin due
    /\ how = "returned" => b \in due
    /\ coins' = [coins EXCEPT ![b] = how]
    /\ Emit(b)
    /\ UNCHANGED <<due, tables, Streaming, losses, snags>>

-----------------------------------------------------------------------------
\* Mutant of ExpireRows: transactions is not updated along.
ExpireBalanceRows ==
    /\ \E b \in due : tables[b].balance = "active"
    /\ tables' = [b \in Balances |->
          IF b \in due /\ tables[b].balance = "active"
          THEN [tables[b] EXCEPT !.balance = "expired"] ELSE tables[b]]
    /\ UNCHANGED <<coins, due, feed, Streaming, losses, snags>>

\* checkClaimableBalanceExpiry: one statement for both tables.
ExpireRows ==
    /\ \E b \in due : tables[b].balance = "active"
    /\ tables' = [b \in Balances |->
          IF b \in due /\ tables[b].balance = "active"
          THEN [balance |-> "expired",
                tx |-> IF tables[b].tx = "pending_claim" THEN "expired" ELSE tables[b].tx]
          ELSE tables[b]]
    /\ UNCHANGED <<coins, due, feed, Streaming, losses, snags>>

-----------------------------------------------------------------------------
\* Mutant of OpenStream: the saved cursor is not asked for.
OpenStreamNow(l) ==
    /\ ~streams[l].open
    /\ streams' = [streams EXCEPT ![l] = [open |-> TRUE, seen |-> Len(feed)]]
    /\ UNCHANGED <<coins, due, tables, feed, handling, cursor, losses, snags>>

\* startGlobalEffectsStream: after the saved cursor, or from now on.
OpenStream(l) ==
    /\ ~streams[l].open
    /\ \/ /\ streams' = [streams EXCEPT ![l] =
                [open |-> TRUE, seen |-> IF cursor = 0 THEN Len(feed) ELSE cursor]]
          /\ UNCHANGED snags
       \/ Snag /\ streams' = [streams EXCEPT ![l] = [open |-> TRUE, seen |-> Len(feed)]]
    /\ UNCHANGED <<coins, due, tables, feed, handling, cursor, losses>>

\* onmessage: an effect of another type goes straight to the cursor.
Deliver(l) ==
    LET i == streams[l].seen + 1 IN
    /\ streams[l].open
    /\ i <= Len(feed)
    /\ streams' = [streams EXCEPT ![l].seen = i]
    /\ handling' = handling \cup
          {[by |-> l, effect |-> i,
            at |-> IF feed[i] = Other THEN "save" ELSE "reconcile"]}
    /\ UNCHANGED <<coins, due, tables, feed, cursor, losses, snags>>

\* What reconcileClaimableBalanceEffect writes for a row that is not settled.
Outcome(b) ==
    IF coins[b] = "clawed" \/ (tables[b].balance = "expired" /\ coins[b] = "returned")
    THEN [balance |-> "reclaimed", tx |-> "reclaimed"]
    ELSE [balance |-> "claimed", tx |-> "completed"]

\* The rows are settled if they are there and are not; an error ends the
\* handler, and the effect is not seen again unless the cursor is behind it.
Reconcile(h) ==
    LET b == feed[h.effect] IN
    /\ h \in handling /\ h.at = "reconcile"
    /\ \/ /\ tables' = [tables EXCEPT ![b] =
                IF @.balance \in {"active", "expired"} THEN Outcome(b) ELSE @]
          /\ handling' = (handling \ {h}) \cup {[h EXCEPT !.at = "save"]}
          /\ UNCHANGED snags
       \/ Snag /\ handling' = handling \ {h} /\ UNCHANGED tables
    /\ UNCHANGED <<coins, due, feed, streams, cursor, losses>>

\* cache.set is not awaited by anyone: cursors are stored in any order.
SaveCursor(h) ==
    /\ h \in handling /\ h.at = "save"
    /\ handling' = handling \ {h}
    /\ \/ cursor' = h.effect /\ UNCHANGED snags
       \/ Snag /\ UNCHANGED cursor
    /\ UNCHANGED <<coins, due, tables, feed, streams, losses>>

\* onerror: the stream is closed and opened again; its handlers go on.
LoseStream(l) ==
    /\ streams[l].open
    /\ losses < MaxLosses
    /\ losses' = losses + 1
    /\ streams' = [streams EXCEPT ![l].open = FALSE]
    /\ UNCHANGED <<coins, due, tables, feed, handling, cursor, snags>>

ListenerDies(l) ==
    /\ Snag
    /\ streams' = [streams EXCEPT ![l].open = FALSE]
    /\ handling' = {h \in handling : h.by # l}
    /\ UNCHANGED <<coins, due, tables, feed, cursor, losses>>

\* An hour without effects, or Redis loses the key.
CursorExpires ==
    /\ cursor # 0
    /\ Snag
    /\ cursor' = 0
    /\ UNCHANGED <<coins, due, tables, feed, streams, handling, losses>>

BalancesNext ==
    \/ \E b \in Balances :
          \/ CreateBalance(b) \/ InsertRows(b) \/ Expiry(b)
          \/ \E how \in {"claimed", "returned", "clawed"} : Take(b, how)
    \/ OtherEffect
    \/ ExpireRows
    \/ \E l \in Listeners :
          OpenStream(l) \/ Deliver(l) \/ LoseStream(l) \/ ListenerDies(l)
    \/ \E h \in handling : Reconcile(h) \/ SaveCursor(h)
    \/ CursorExpires

BalancesSpec == BalancesInit /\ [][BalancesNext]_balanceVars

\* A stream that is up delivers, one that is down is opened again, and awaits
\* are answered.
Listens(l) == OpenStream(l) \/ Deliver(l)
Handles == \E h \in handling : Reconcile(h) \/ SaveCursor(h)
FairBalancesSpec ==
    /\ BalancesSpec
    /\ \A l \in Listeners : WF_balanceVars(Listens(l))
    /\ WF_balanceVars(Handles)

-----------------------------------------------------------------------------
BalanceTypeOK ==
    /\ coins \in [Balances -> {"none", "open", "claimed", "returned", "clawed"}]
    /\ due \subseteq Balances
    /\ tables \in [Balances ->
          [balance : {"none", "active", "expired", "claimed", "reclaimed"},
           tx : {"none", "pending_claim", "expired", "completed", "reclaimed"}]]
    /\ \A b \in Balances : tables[b] # NoRows => coins[b] # "none"
    /\ feed \in Seq(Balances \cup {Other})
    /\ streams \in [Listeners -> [open : BOOLEAN, seen : 0..Len(feed)]]
    /\ \A h \in handling :
          /\ h.by \in Listeners /\ h.effect \in DOMAIN feed
          /\ h.at \in {"reconcile", "save"}
    /\ cursor \in 0..Len(feed)
    /\ losses \in 0..MaxLosses /\ snags \in 0..MaxSnags

\* The balance's row and the payment's row tell the same story, through every
\* interleaving of the expiry job with the listeners.
TablesAgree ==
    \A b \in Balances :
        <<tables[b].balance, tables[b].tx>> \in
            {<<"none", "none">>, <<"active", "pending_claim">>,
             <<"expired", "expired">>, <<"claimed", "completed">>,
             <<"reclaimed", "reclaimed">>}

\* Money that the recipient has is never shown as reclaimed, and a payment that
\* was shown as expired is completed only if the recipient claimed in time and
\* the effect came late.
OutcomeTold ==
    [][\A b \in Balances :
          /\ tables'[b].tx = "reclaimed" => coins[b] # "claimed"
          /\ (tables[b].tx = "expired" /\ tables'[b].tx = "completed")
                => coins[b] = "claimed"]_balanceVars

\* A settled payment stays what it is, whatever is replayed after the cursor
\* went back and by whichever listener.
SettledStays ==
    [][\A b \in Balances :
          tables[b].tx \in {"completed", "reclaimed"} =>
              tables'[b] = tables[b]]_balanceVars

\* What is recorded of a balance is one story, a true one, and the last one.
BalancesRecorded == [](BalanceTypeOK /\ TablesAgree) /\ OutcomeTold /\ SettledStays

\* The effect of taking b is still to come on every stream, and a stream can
\* find its place again.
Coming(b) ==
    /\ tables[b] # NoRows
    /\ cursor # 0 /\ snags = 0
    /\ \E i \in DOMAIN feed :
          /\ feed[i] = b
          /\ \A l \in Listeners : streams[l].open /\ streams[l].seen < i

\* Without failures every such effect settles its payment, stream errors and
\* overlapping handlers notwithstanding.
EffectsSettle ==
    \A b \in Balances :
        Coming(b) ~> (tables[b].tx \in {"completed", "reclaimed"} \/ snags > 0)
=============================================================================
