--------------------------- MODULE RefreshTokens ---------------------------
(***************************************************************************)
(* One login of one browser: the family of refresh tokens that             *)
(* authController.js rotates, the tabs that share its cookie and refresh   *)
(* through refreshSession in api.js, and what ends the family: logout, a   *)
(* password reset, a token seen again after its grace.                     *)
(*                                                                         *)
(* A token is its number in the order of insertion.  Every query is a step *)
(* of its request.  Grace is REFRESH_GRACE_MS; requests take less than     *)
(* half of it, so no grace ends while a request that rests on it runs.     *)
(* Tokens live for days, and accounts are not suspended here.              *)
(***************************************************************************)
EXTENDS Integers, FiniteSets

CONSTANTS
    Tabs,       \* tabs of the browser
    MaxTokens,  \* bound: rows of refresh_tokens
    MaxTroubles \* bound: lost responses, crashes and failed queries

ASSUME RefreshConstants == MaxTokens \in Nat \ {0} /\ MaxTroubles \in Nat

Tokens == 1..MaxTokens
NoToken == 0

VARIABLES
    family,    \* refresh_tokens: state and successor (replaced_by_enc) of each
    graceOver, \* tokens rotated longer ago than the grace
    denied,    \* Redis: tokens under blacklist:rt
    jar,       \* the refresh cookie of the browser
    webLocks,  \* does the browser have navigator.locks?
    refreshes, \* each tab's request: where it is, its token, the token it gives
    exit,      \* the logout request
    ended,     \* a logout or a reset has deleted the family
    accused,   \* the family was revoked for reuse
    troubles   \* troubles so far

tokenVars == <<family, graceOver, denied, jar, webLocks, refreshes, exit, ended,
               accused, troubles>>

Absent == [state |-> "absent", next |-> NoToken]
Quiet == [at |-> "idle", token |-> NoToken, gives |-> NoToken]

\* After login.
TokensInit ==
    /\ family = [t \in Tokens |-> IF t = 1 THEN [state |-> "valid", next |-> NoToken] ELSE Absent]
    /\ graceOver = {}
    /\ denied = {}
    /\ jar = 1
    /\ webLocks \in BOOLEAN
    /\ refreshes = [b \in Tabs |-> Quiet]
    /\ exit = Quiet
    /\ ended = FALSE
    /\ accused = FALSE
    /\ troubles = 0

Asking(b, at) == refreshes[b].at = at
Proceed(b, at) == refreshes' = [refreshes EXCEPT ![b].at = at]
Give(b, t) == refreshes' = [refreshes EXCEPT ![b].at = "answer", ![b].gives = t]
Trouble == troubles < MaxTroubles /\ troubles' = troubles + 1
Ending == <<exit, ended, accused>>

\* withinGrace.
InGrace(t) ==
    /\ family[t].state = "revoked" /\ family[t].next # NoToken
    /\ t \notin graceOver

-----------------------------------------------------------------------------
\* refreshSession: one tab at a time where the browser has Web Locks.
SendRefresh(b) ==
    /\ Asking(b, "idle")
    /\ jar # NoToken
    /\ webLocks => \A c \in Tabs : Asking(c, "idle")
    /\ refreshes' = [refreshes EXCEPT ![b] =
                       [at |-> "check", token |-> jar, gives |-> NoToken]]
    /\ UNCHANGED <<family, graceOver, denied, jar, webLocks, Ending, troubles>>

\* The blacklist; Redis may not answer, which counts as not found.
CheckDenied(b) ==
    /\ Asking(b, "check")
    /\ \/ /\ IF refreshes[b].token \in denied THEN Give(b, NoToken) ELSE Proceed(b, "read")
          /\ UNCHANGED troubles
       \/ Trouble /\ Proceed(b, "read")
    /\ UNCHANGED <<family, graceOver, denied, jar, webLocks, Ending>>

\* The lookup: no such row, and the cookie stays as it is; a rotated token
\* within its grace; one that is used again; or a valid one.
ReadToken(b) ==
    LET t == refreshes[b].token IN
    /\ Asking(b, "read")
    /\ CASE family[t].state = "valid" -> Proceed(b, "insert")
         [] InGrace(t) -> Give(b, family[t].next)
         [] family[t].state = "revoked" /\ ~InGrace(t) -> Proceed(b, "revoke")
         [] OTHER -> Proceed(b, "refused")
    /\ UNCHANGED <<family, graceOver, denied, jar, webLocks, Ending, troubles>>

\* The successor is inserted first ...
InsertSuccessor(b) ==
    /\ Asking(b, "insert")
    /\ \E t \in Tokens :
          /\ \A u \in Tokens : family[u] = Absent <=> u >= t
          /\ family' = [family EXCEPT ![t].state = "valid"]
          /\ refreshes' = [refreshes EXCEPT ![b].at = "claim", ![b].gives = t]
    /\ UNCHANGED <<graceOver, denied, jar, webLocks, Ending, troubles>>

\* Mutant of ClaimToken: the number of rows the UPDATE returned is ignored.
ClaimTokenBlindly(b) ==
    LET t == refreshes[b].token IN
    /\ Asking(b, "claim")
    /\ family' = IF family[t].state = "valid"
                 THEN [family EXCEPT ![t] = [state |-> "revoked", next |-> refreshes[b].gives]]
                 ELSE family
    /\ Proceed(b, "answer")
    /\ UNCHANGED <<graceOver, denied, jar, webLocks, Ending, troubles>>

\* ... and then the old token is claimed, by the one request that still finds
\* it valid.
ClaimToken(b) ==
    LET t == refreshes[b].token IN
    /\ Asking(b, "claim")
    /\ IF family[t].state = "valid"
       THEN /\ family' = [family EXCEPT ![t] =
                            [state |-> "revoked", next |-> refreshes[b].gives]]
            /\ Proceed(b, "answer")
       ELSE Proceed(b, "drop") /\ UNCHANGED family
    /\ UNCHANGED <<graceOver, denied, jar, webLocks, Ending, troubles>>

DropSuccessor(b) ==
    /\ Asking(b, "drop")
    /\ family' = [family EXCEPT ![refreshes[b].gives].state = "deleted"]
    /\ Proceed(b, "again")
    /\ UNCHANGED <<graceOver, denied, jar, webLocks, Ending, troubles>>

\* The winner's successor, if the winner is within its grace.
LookAgain(b) ==
    LET t == refreshes[b].token IN
    /\ Asking(b, "again")
    /\ IF InGrace(t) THEN Give(b, family[t].next) ELSE Proceed(b, "revoke")
    /\ UNCHANGED <<family, graceOver, denied, jar, webLocks, Ending, troubles>>

\* revokeFamilyForReuse; a family that was deleted has no rows to revoke.
RevokeFamily(b) ==
    /\ Asking(b, "revoke")
    /\ family' = [t \in Tokens |->
          IF family[t].state \in {"valid", "revoked"}
          THEN [state |-> "revoked", next |-> NoToken] ELSE family[t]]
    /\ accused' = (accused \/ \E t \in Tokens : family[t].state \in {"valid", "revoked"})
    /\ Give(b, NoToken)
    /\ UNCHANGED <<graceOver, denied, jar, webLocks, exit, ended, troubles>>

\* The response reaches the browser and sets or clears the cookie; "Invalid
\* refresh token" does neither.
ReceiveRefresh(b) ==
    /\ \/ Asking(b, "answer") /\ jar' = refreshes[b].gives
       \/ Asking(b, "refused") /\ UNCHANGED jar
    /\ refreshes' = [refreshes EXCEPT ![b] = Quiet]
    /\ UNCHANGED <<family, graceOver, denied, webLocks, Ending, troubles>>

\* The response is lost, the query fails, or the process dies.
RefreshFails(b) ==
    /\ ~Asking(b, "idle")
    /\ Trouble
    /\ refreshes' = [refreshes EXCEPT ![b] = Quiet]
    /\ UNCHANGED <<family, graceOver, denied, jar, webLocks, Ending>>

GraceEnds(t) ==
    /\ family[t].state = "revoked"
    /\ t \notin graceOver
    /\ \A b \in Tabs : Asking(b, "idle") \/ t \notin {refreshes[b].token, refreshes[b].gives}
    /\ graceOver' = graceOver \cup {t}
    /\ UNCHANGED <<family, denied, jar, webLocks, refreshes, Ending, troubles>>

-----------------------------------------------------------------------------
Deleted == [t \in Tokens |-> IF family[t] = Absent THEN Absent
                             ELSE [state |-> "deleted", next |-> NoToken]]

\* logout: the family of the cookie's token is looked up ...
SendLogout ==
    /\ exit.at = "idle" /\ jar # NoToken
    /\ exit' = [Quiet EXCEPT !.token = jar,
                  !.at = IF family[jar].state \in {"valid", "revoked"} THEN "delete" ELSE "clear"]
    /\ UNCHANGED <<family, graceOver, denied, jar, webLocks, refreshes, ended, accused, troubles>>

\* Mutant of DeleteFamily: only the cookie's own token.
DeleteToken ==
    /\ exit.at = "delete"
    /\ family' = [family EXCEPT ![exit.token] = [state |-> "deleted", next |-> NoToken]]
    /\ ended' = TRUE
    /\ exit' = [exit EXCEPT !.at = "deny"]
    /\ UNCHANGED <<graceOver, denied, jar, webLocks, refreshes, accused, troubles>>

\* ... and deleted,
DeleteFamily ==
    /\ exit.at = "delete"
    /\ family' = Deleted
    /\ ended' = TRUE
    /\ exit' = [exit EXCEPT !.at = "deny"]
    /\ UNCHANGED <<graceOver, denied, jar, webLocks, refreshes, accused, troubles>>

\* and the token that was presented is blacklisted,
DenyToken ==
    /\ exit.at = "deny"
    /\ \/ denied' = denied \cup {exit.token} /\ UNCHANGED troubles
       \/ UNCHANGED denied /\ Trouble
    /\ exit' = [exit EXCEPT !.at = "clear"]
    /\ UNCHANGED <<family, graceOver, jar, webLocks, refreshes, ended, accused>>

\* and the cookie is cleared.
ReceiveLogout ==
    /\ exit.at = "clear"
    /\ jar' = NoToken
    /\ exit' = Quiet
    /\ UNCHANGED <<family, graceOver, denied, webLocks, refreshes, ended, accused, troubles>>

LogoutFails ==
    /\ exit.at # "idle"
    /\ Trouble
    /\ exit' = Quiet
    /\ UNCHANGED <<family, graceOver, denied, jar, webLocks, refreshes, ended, accused>>

\* resetPassword's transaction, from another browser.
ResetPassword ==
    /\ ~ended
    /\ family' = Deleted
    /\ ended' = TRUE
    /\ UNCHANGED <<graceOver, denied, jar, webLocks, refreshes, exit, accused, troubles>>

Refreshing(b) ==
    \/ CheckDenied(b)
    \/ ReadToken(b)
    \/ InsertSuccessor(b)
    \/ ClaimToken(b)
    \/ DropSuccessor(b)
    \/ LookAgain(b)
    \/ RevokeFamily(b)
    \/ ReceiveRefresh(b)

TokensNext ==
    \/ \E b \in Tabs : SendRefresh(b) \/ Refreshing(b) \/ RefreshFails(b)
    \/ \E t \in Tokens : GraceEnds(t)
    \/ SendLogout \/ DeleteFamily \/ DenyToken \/ ReceiveLogout \/ LogoutFails
    \/ ResetPassword

TokensSpec == TokensInit /\ [][TokensNext]_tokenVars

-----------------------------------------------------------------------------
RefreshTypeOK ==
    /\ family \in [Tokens -> [state : {"absent", "valid", "revoked", "deleted"},
                              next : Tokens \cup {NoToken}]]
    /\ \A t \in Tokens : family[t].next # NoToken => family[family[t].next] # Absent
    /\ graceOver \subseteq Tokens /\ denied \subseteq Tokens
    /\ jar \in Tokens \cup {NoToken}
    /\ refreshes \in [Tabs ->
          [at : {"idle", "check", "read", "insert", "claim", "drop", "again",
                 "revoke", "answer", "refused"},
           token : Tokens \cup {NoToken}, gives : Tokens \cup {NoToken}]]
    /\ exit.at \in {"idle", "delete", "deny", "clear"}
    /\ {webLocks, ended, accused} \subseteq BOOLEAN
    /\ troubles \in 0..MaxTroubles

\* The tokens a browser has, or may still be given.
HandedOut ==
    {jar} \cup {refreshes[b].gives : b \in {c \in Tabs : Asking(c, "answer")}}
          \cup {family[t].next : t \in Tokens}

Valid(t) == t # NoToken /\ family[t].state = "valid"

\* Concurrent refreshes do not fork the family: of all tokens that were handed
\* out, at most one can be rotated.  (The state has its types, and a successor
\* is a row there is.)
OneSuccessor == RefreshTypeOK /\ Cardinality({t \in HandedOut : Valid(t)}) <= 1

\* Whatever refreshes are in flight when a family is ended by a logout, a reset
\* or an accusation, no token that leaves the server is of any use after it:
\* "in-flight refresh attempts are rejected".
EndedForGood == ended \/ accused => \A t \in HandedOut : ~Valid(t)

\* A user whose browser serialises its tabs is not accused of reuse, unless a
\* response was lost; "two tabs refreshing at once" is no reuse.
NoFalseAccusation == webLocks /\ troubles = 0 => ~accused

\* A family ends for good, and an accusation ends it only for cause.
EndsRightly == EndedForGood /\ NoFalseAccusation
=============================================================================
