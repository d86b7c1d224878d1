--------------------------- MODULE MCAccountSession ---------------------------
(***************************************************************************)
(* The account: the loop of its agent's session, the client's account with *)
(* the identity service, and the profile service.  They share no variable, *)
(* and one of the three moves in a behaviour.                              *)
(*                                                                         *)
(* AccountSession has the login and one operation that may be confirmed (a *)
(* logout); Short bounds turns, renewals and time together.  AccountApp    *)
(* has one login and four requests: one to sign in, and three to renew     *)
(* twice at a time, repeat and sign out.  Profile has three updates, of    *)
(* two operations.                                                         *)
(***************************************************************************)
EXTENDS AccountSession, AccountApp, Profile, TLC

VARIABLE part

CONSTANTS logout, signOut, beginLogin, alice

MCToolOf == (logout :> signOut) @@ (Login :> beginLogin)
MCPolicy == (signOut :> "confirm_later") @@ (beginLogin :> "explicit_intent")

\* The session of a user who was invited, and less of an authenticated one, which
\* has nothing more; what becomes of a malformed call is MCPersonalSession's.
Invited == waitingWelcome \/ Login \in attempted

WellFormed == \A i \in DOMAIN feed : feed[i].about \notin CallIDs \X {Malformed}

Short == Cardinality(used) + stream + now <= (IF Invited THEN 3 ELSE 2) /\ WellFormed

\* What the running loop reads, as in MCPersonalSession; of the number of a
\* turn's audio whether there was any, of the operations whether the logout was
\* attempted (of the login the end of the invitation says it), and of the last
\* utterance what an answer will make of it.
Says(u) == IF u.says = "deny" THEN "no"
           ELSE IF u.says = "confirm" /\ u.tool = signOut THEN "yes" ELSE "other"

Control ==
    IF ended # None THEN <<ended>>
    ELSE <<turnID, state, nextInput, Mapper!Ended(turnID, cancelled), turnID \in cancelled,
           Mapper!Ended(nextInput, cancelled), sequence > 0, waitingUser, used,
           feed, openItems, openParts, pending, now, logout \in attempted,
           inputID, usedInputs, timer, userTexts, IF AllHeard THEN <<heard.turn, Says(heard.says)>> ELSE <<>>,
           staged, active, stream, IF pending = Nil THEN 0 ELSE askedOn, {c \in Contents : Mapper!Live(c)},
           waitingWelcome, greetingPending, openingBootstrap, bootstrap, uiJobs,
           IF waitingWelcome /\ AllHeard THEN answer ELSE None>>

Moving ==
    <<part, CASE part = "session" -> Control
              [] part = "account" -> <<identityVars, appVars>>
              [] part = "profile" -> profileVars>>

\* The loop has one initial state when it does not move.
MCInit ==
    /\ part \in {"session", "account", "profile"}
    /\ SessionInit /\ AccountsInit /\ ProfileInit
    /\ part = "session" \/ ~waitingWelcome

MCNext ==
    /\ UNCHANGED part
    /\ \/ part = "session" /\ SessionNext /\ UNCHANGED <<identityVars, appVars, profileVars>>
       \/ part = "account" /\ AccountsNext /\ UNCHANGED <<sessionVars, profileVars>>
       \/ part = "profile" /\ ProfileNext /\ UNCHANGED <<sessionVars, identityVars, appVars>>

MCSpec == MCInit /\ [][MCNext]_<<part, sessionVars, identityVars, appVars, profileVars>>

=============================================================================
