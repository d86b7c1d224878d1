------------------------------ MODULE AccountApp ------------------------------
(***************************************************************************)
(* The account of the Apple client, apps/apple/Shared/AccountSession.swift, *)
(* as the user of the identity service.  It runs on the main actor, with an *)
(* await at every request: between a request and its answer others of its   *)
(* methods run.  The gateway passes requests and answers on, as they are    *)
(* (account.go accountControl); an answer is lost when it comes after the   *)
(* deadline of the client (20 s) or the gateway (15 s), or when the task    *)
(* that waits for it is cancelled, as by ConversationModel.stop.            *)
(***************************************************************************)
EXTENDS Identity

VARIABLES
    keychain,       \* the refresh token saved
    fresh,          \* the access token is there and not about to expire
    authenticated,
    signingIn,      \* the login the method login is at work on (a set)
    wanted          \* it was not cancelled since

appVars == <<keychain, fresh, authenticated, signingIn, wanted>>

AppTypeOK ==
    /\ keychain \in {NoToken} \cup Tokens
    /\ {fresh, authenticated, wanted} \subseteq BOOLEAN
    /\ signingIn \subseteq Logins /\ Cardinality(signingIn) <= 1

AppInit ==
    /\ keychain = NoToken /\ fresh = FALSE /\ authenticated = FALSE
    /\ signingIn = {} /\ wanted = FALSE

-----------------------------------------------------------------------------
Sends(call) == Len(requests) < MaxRequests /\ requests' = Append(requests, call)

Awaits(op) == \E c \in DOMAIN requests : requests[c].op = op /\ requests[c].answer = "awaited"

Finished(c, op) == requests[c].op = op /\ requests[c].answer = "awaited" /\ requests[c].at \in Finals
Answer(c, becomes) == requests' = [requests EXCEPT ![c].answer = becomes]

ServiceStays == UNCHANGED <<login, sessions, spent, granted>>

\* Mutant: a renewed refresh token is kept in memory only.
AcceptUnsaved(t) ==
    /\ keychain' = IF keychain = NoToken THEN t ELSE keychain
    /\ fresh' = TRUE /\ authenticated' = TRUE

Accept(t) == keychain' = t /\ fresh' = TRUE /\ authenticated' = TRUE

-----------------------------------------------------------------------------
(* login: prepare and the browser, then complete.                          *)

LoginStarts(l) ==
    /\ signingIn = {} /\ login[l] \notin {"none", "counted"}
    /\ signingIn' = {l} /\ wanted' = TRUE
    /\ UNCHANGED <<identityVars, keychain, fresh, authenticated>>

CancelLogin ==
    /\ wanted' = FALSE /\ signingIn # {}
    /\ UNCHANGED <<identityVars, keychain, fresh, authenticated, signingIn>>

\* The browser came back with the code.
CodePosted ==
    /\ wanted /\ ~Awaits("complete")
    /\ \E l \in signingIn : Sends(Call("complete", l, "sent", 0))
    /\ UNCHANGED appVars /\ ServiceStays

LoginFails ==
    /\ signingIn # {} /\ ~Awaits("complete")
    /\ signingIn' = {}
    /\ UNCHANGED <<identityVars, keychain, fresh, authenticated, wanted>>

\* The attempt is compared after the await.
LoginAnswered(c) ==
    /\ Finished(c, "complete")
    /\ IF requests[c].at = "ok" /\ wanted
       THEN Accept(requests[c].token) /\ Answer(c, "seen")
       ELSE UNCHANGED <<keychain, fresh, authenticated>> /\ Answer(c, "lost")
    /\ signingIn' = {}
    /\ UNCHANGED wanted /\ ServiceStays

-----------------------------------------------------------------------------
(* restore, when a conversation starts; one task at a time awaits it.      *)

RestoreStarts ==
    /\ ~fresh /\ keychain # NoToken /\ ~Awaits("refresh")
    /\ Sends(Call("refresh", keychain, "sent", 0))
    /\ UNCHANGED appVars /\ ServiceStays

RestoreAnswered(c) ==
    /\ Finished(c, "refresh")
    /\ IF requests[c].at = "ok"
       THEN Accept(requests[c].token)
       ELSE fresh' = FALSE /\ authenticated' = FALSE /\ UNCHANGED keychain
    /\ Answer(c, "seen")
    /\ UNCHANGED <<signingIn, wanted>> /\ ServiceStays

AccessExpires ==
    /\ fresh /\ fresh' = FALSE
    /\ UNCHANGED <<identityVars, keychain, authenticated, signingIn, wanted>>

-----------------------------------------------------------------------------
(* logout, with the refresh token; and by voice, through the agent, whose  *)
(* result makes the client call clearRevokedSession.                       *)

Cleared == keychain' = NoToken /\ fresh' = FALSE /\ authenticated' = FALSE

LogoutStarts ==
    /\ keychain # NoToken
    /\ Sends(Call("logout", keychain, "sent", 0))
    /\ UNCHANGED appVars /\ ServiceStays

LogoutByVoice(s) ==
    /\ Active(s)
    /\ Sends(Call("logout", sessions[s].token, "found", s))
    /\ UNCHANGED appVars /\ ServiceStays

LogoutAnswered(c) ==
    /\ Finished(c, "logout")
    /\ IF requests[c].at = "ok" THEN Cleared ELSE UNCHANGED <<keychain, fresh, authenticated>>
    /\ Answer(c, "seen")
    /\ UNCHANGED <<signingIn, wanted>> /\ ServiceStays

\* No answer in time, an unusable one, or the task is cancelled; the call goes on.
AnswerLost(c) ==
    /\ requests[c].answer = "awaited" /\ Answer(c, "lost")
    /\ signingIn' = IF requests[c].op = "complete" THEN {} ELSE signingIn
    /\ IF requests[c].op = "refresh" THEN fresh' = FALSE /\ authenticated' = FALSE
                                  ELSE UNCHANGED <<fresh, authenticated>>
    /\ UNCHANGED <<keychain, wanted>> /\ ServiceStays

AppStep ==
    \/ \E l \in Logins : LoginStarts(l)
    \/ CancelLogin \/ CodePosted \/ LoginFails \/ RestoreStarts \/ AccessExpires \/ LogoutStarts
    \/ \E s \in DOMAIN sessions : LogoutByVoice(s)
    \/ \E c \in DOMAIN requests :
         LoginAnswered(c) \/ RestoreAnswered(c) \/ LogoutAnswered(c) \/ AnswerLost(c)

AccountsInit == IdentityInit /\ AppInit

AccountsNext == AppStep \/ (ServiceStep /\ UNCHANGED appVars)

AccountsSpec == AccountsInit /\ [][AccountsNext]_<<identityVars, appVars>>

-----------------------------------------------------------------------------
(* A session of which no renewal's answer was lost ends by a logout only:  *)
(* the client never presents a token twice of its own accord, and what     *)
(* revokes a family is a repetition (AccountSession.swift 57-65,           *)
(* IdentityService.java 35).                                               *)
StaysSignedIn ==
    /\ AppTypeOK
    /\ \A s \in DOMAIN sessions : sessions[s].revoked =>
         \E c \in DOMAIN requests :
             \/ requests[c].op = "logout" /\ requests[c].session = s
             \/ /\ requests[c].op = "refresh" /\ requests[c].answer = "lost"
                /\ granted[requests[c].arg].session = s

-----------------------------------------------------------------------------
(* Why it holds: which tokens the client has presented, and may present.   *)
Issued(c) == requests[c].op # "logout" /\ requests[c].at = "ok"

\* A token on its way to the client was nowhere before.
NewsIsNew ==
    \A c \in DOMAIN requests : Issued(c) =>
        /\ requests[c].token \in Tokens
        /\ \A d \in DOMAIN requests : Issued(d) /\ requests[d].token = requests[c].token => d = c
        /\ requests[c].answer = "awaited" =>
             /\ keychain # requests[c].token
             /\ \A d \in DOMAIN requests : requests[d].op = "refresh" => requests[d].arg # requests[c].token

\* A token is presented again only if the answer was lost, or it was not redeemed.
PresentedAgain ==
    \A c \in DOMAIN requests : requests[c].op = "refresh" =>
        /\ requests[c].answer = "seen" =>
             requests[c].at \in Finals /\ (requests[c].at = "ok" => keychain # requests[c].arg)
        /\ \A d \in DOMAIN requests :
             requests[d].op = "refresh" /\ requests[d].arg = requests[c].arg /\ c < d =>
                 requests[c].answer = "lost" \/ requests[c].at \in {"denied", "revoked", "dead"}

SpentByRefresh ==
    \A t \in spent : \E c \in DOMAIN requests : At(c, "refresh", "ok") /\ requests[c].arg = t

AnswerWasLost(s) ==
    \E c \in DOMAIN requests :
        requests[c].op = "refresh" /\ requests[c].answer = "lost" /\ granted[requests[c].arg].session = s

ReplayFollowsLoss ==
    \A c \in DOMAIN requests : requests[c].at = "replayed" => AnswerWasLost(requests[c].session)

AccountsInv ==
    /\ IdentityInv /\ NewsIsNew /\ PresentedAgain
    /\ SpentByRefresh /\ ReplayFollowsLoss /\ StaysSignedIn

=============================================================================
