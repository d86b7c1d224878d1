---------------------------- MODULE AccountProofs ----------------------------
(***************************************************************************)
(* Proofs about the services behind the account.                           *)
(*                                                                         *)
(* The identity service with the Apple client as its user: the inductive   *)
(* invariant AccountsInv, and from it that tokens are redeemed once, that  *)
(* what was revoked stays so, and that the client is not signed out by its *)
(* own doing, for any logins and any number of requests.                   *)
(*                                                                         *)
(* The profile service: the inductive invariant ProfileInv, and that       *)
(* updates take effect one after the other, for any number of requests,    *)
(* any finite set of keys and any changes.                                 *)
(***************************************************************************)
EXTENDS AccountApp, Profile, SequenceTheorems, FiniteSetTheorems, TLAPS

(* The sequences of the state as functions. *)
LEMMA StateFacts ==
  ASSUME IdentityTypeOK
  PROVE  /\ Len(granted) \in Nat /\ Len(sessions) \in Nat /\ Len(requests) \in Nat
         /\ DOMAIN sessions = 1..Len(sessions) /\ DOMAIN requests = 1..Len(requests)
         /\ \A s \in DOMAIN sessions : sessions[s] \in [token : Nat, revoked : BOOLEAN, lapsed : BOOLEAN]
         /\ \A t \in Tokens : granted[t] \in [session : Nat, for : Logins \cup Nat]
         /\ \A c \in DOMAIN requests : requests[c] \in Requests
  BY LenProperties, ElementOfSeq DEF IdentityTypeOK, Tokens

(* One request is replaced by another one. *)
LEMMA OneReplaced ==
  ASSUME requests \in Seq(Requests), NEW c \in DOMAIN requests, NEW r \in Requests,
         requests' = [requests EXCEPT ![c] = r]
  PROVE  /\ requests' \in Seq(Requests) /\ DOMAIN requests' = DOMAIN requests
         /\ requests'[c] = r
         /\ \A d \in DOMAIN requests \ {c} : requests'[d] = requests[d]
  <1>1. c \in 1..Len(requests)
    OBVIOUS
  <1> QED BY <1>1, ExceptSeq

(* A request whose answer became another. *)
LEMMA AnsweredRecord ==
  ASSUME NEW r \in Requests, NEW answer
  PROVE  [r EXCEPT !.answer = answer] =
           [op |-> r.op, arg |-> r.arg, at |-> r.at, session |-> r.session, token |-> r.token, answer |-> answer]
  BY DEF Requests

(* A request that was issued a token. *)
LEMMA TokenRecord ==
  ASSUME NEW r \in Requests, NEW t
  PROVE  [r EXCEPT !.token = t] =
           [op |-> r.op, arg |-> r.arg, at |-> r.at, session |-> r.session, token |-> t, answer |-> r.answer]
  BY DEF Requests

(* A request in another phase, that has found a session.                   *)
LEMMA RequestRecords ==
  ASSUME NEW r \in Requests, NEW at \in Underway \cup Finals, NEW s \in Nat
  PROVE  /\ [r EXCEPT !.at = at] =
              [op |-> r.op, arg |-> r.arg, at |-> at, session |-> r.session, token |-> r.token, answer |-> r.answer]
         /\ [[r EXCEPT !.at = at] EXCEPT !.session = s] =
              [op |-> r.op, arg |-> r.arg, at |-> at, session |-> s, token |-> r.token, answer |-> r.answer]
  <1> DEFINE p == [r EXCEPT !.at = at]
             q == [p EXCEPT !.session = s]
  <1>1. p = [op |-> r.op, arg |-> r.arg, at |-> at, session |-> r.session, token |-> r.token, answer |-> r.answer]
    BY DEF Requests
  <1>2. /\ p \in Requests /\ p.op = r.op /\ p.arg = r.arg /\ p.at = at
        /\ p.token = r.token /\ p.answer = r.answer
    BY <1>1 DEF Requests
  <1>3. q = [op |-> r.op, arg |-> r.arg, at |-> at, session |-> s, token |-> r.token, answer |-> r.answer]
    <2> HIDE DEF p
    <2> QED BY <1>2 DEF Requests
  <1> QED BY <1>1, <1>3

(* What an action does with a request is to give it such another value. *)
LEMMA RequestChanges ==
  ASSUME requests \in Seq(Requests), NEW c \in DOMAIN requests, NEW at \in Underway \cup Finals,
         NEW s \in Nat, NEW t \in Nat
  PROVE  /\ [requests EXCEPT ![c].at = at] = [requests EXCEPT ![c] = [requests[c] EXCEPT !.at = at]]
         /\ [requests EXCEPT ![c].at = at, ![c].session = s]
              = [requests EXCEPT ![c] = [[requests[c] EXCEPT !.at = at] EXCEPT !.session = s]]
         /\ [requests EXCEPT ![c].at = at, ![c].session = s, ![c].token = t]
              = [requests EXCEPT ![c] = [[[requests[c] EXCEPT !.at = at] EXCEPT !.session = s] EXCEPT !.token = t]]
  <1> DEFINE p == [requests[c] EXCEPT !.at = at]
             q == [p EXCEPT !.session = s]
             z == [q EXCEPT !.token = t]
             one == [requests EXCEPT ![c].at = at]
             two == [requests EXCEPT ![c].at = at, ![c].session = s]
  <1>1. one = [d \in DOMAIN requests |-> IF d = c THEN p ELSE requests[d]]
    OBVIOUS
  <1>2. two = [one EXCEPT ![c].session = s]
    OBVIOUS
  <1>3. [requests EXCEPT ![c].at = at, ![c].session = s, ![c].token = t] = [two EXCEPT ![c].token = t]
    OBVIOUS
  <1>4. two = [d \in DOMAIN requests |-> IF d = c THEN q ELSE requests[d]]
    <2> HIDE DEF one, two, p
    <2> QED BY <1>1, <1>2
  <1>5. [two EXCEPT ![c].token = t] = [d \in DOMAIN requests |-> IF d = c THEN z ELSE requests[d]]
    <2> HIDE DEF one, two, q
    <2> QED BY <1>4
  <1> HIDE DEF p, q, z
  <1>6. /\ [requests EXCEPT ![c] = p] = [d \in DOMAIN requests |-> IF d = c THEN p ELSE requests[d]]
        /\ [requests EXCEPT ![c] = q] = [d \in DOMAIN requests |-> IF d = c THEN q ELSE requests[d]]
        /\ [requests EXCEPT ![c] = z] = [d \in DOMAIN requests |-> IF d = c THEN z ELSE requests[d]]
    OBVIOUS
  <1> QED BY <1>1, <1>3, <1>4, <1>5, <1>6 DEF p, q, z

(* A request goes on to another step. *)
LEMMA TurnsFacts ==
  ASSUME requests \in Seq(Requests), NEW c \in DOMAIN requests, NEW at \in Underway \cup Finals,
         Turns(c, at)
  PROVE  /\ requests' \in Seq(Requests) /\ DOMAIN requests' = DOMAIN requests
         /\ requests'[c] = [op |-> requests[c].op, arg |-> requests[c].arg, at |-> at, session |-> requests[c].session,
                            token |-> requests[c].token, answer |-> requests[c].answer]
         /\ \A d \in DOMAIN requests \ {c} : requests'[d] = requests[d]
  <1> DEFINE r == [op |-> requests[c].op, arg |-> requests[c].arg, at |-> at, session |-> requests[c].session,
                   token |-> requests[c].token, answer |-> requests[c].answer]
  <1>1. requests[c] \in Requests
    OBVIOUS
  <1>2. r \in Requests
    BY <1>1 DEF Requests
  <1>3. requests' = [requests EXCEPT ![c] = r]
    <2>1. [requests[c] EXCEPT !.at = at] = r
      BY <1>1, RequestRecords DEF Requests
    <2>2. requests' = [requests EXCEPT ![c] = [requests[c] EXCEPT !.at = at]]
      BY <1>1, RequestChanges DEF Turns, Requests
    <2> HIDE DEF r
    <2> QED BY <2>1, <2>2
  <1> HIDE DEF r
  <1>4. requests'[c] = r
    BY <1>2, <1>3, OneReplaced
  <1> QED BY <1>2, <1>3, <1>4, OneReplaced DEF r

(* A request goes on, having found its session. *)
LEMMA FindsFacts ==
  ASSUME requests \in Seq(Requests), NEW c \in DOMAIN requests, NEW at \in Underway \cup Finals, NEW s \in Nat,
         Finds(c, at, s)
  PROVE  /\ requests' \in Seq(Requests) /\ DOMAIN requests' = DOMAIN requests
         /\ requests'[c] = [op |-> requests[c].op, arg |-> requests[c].arg, at |-> at, session |-> s,
                            token |-> requests[c].token, answer |-> requests[c].answer]
         /\ \A d \in DOMAIN requests \ {c} : requests'[d] = requests[d]
  <1> DEFINE r == [op |-> requests[c].op, arg |-> requests[c].arg, at |-> at, session |-> s,
                   token |-> requests[c].token, answer |-> requests[c].answer]
  <1>1. requests[c] \in Requests
    OBVIOUS
  <1>2. r \in Requests
    BY <1>1 DEF Requests
  <1>3. requests' = [requests EXCEPT ![c] = r]
    <2>1. [[requests[c] EXCEPT !.at = at] EXCEPT !.session = s] = r
      BY <1>1, RequestRecords DEF Requests
    <2>2. requests' = [requests EXCEPT ![c] = [[requests[c] EXCEPT !.at = at] EXCEPT !.session = s]]
      BY <1>1, RequestChanges DEF Finds, Requests
    <2> HIDE DEF r
    <2> QED BY <2>1, <2>2
  <1> HIDE DEF r
  <1>4. requests'[c] = r
    BY <1>2, <1>3, OneReplaced
  <1> QED BY <1>2, <1>3, <1>4, OneReplaced DEF r

(* A request is done: it has a session and a token. *)
LEMMA IssueFacts ==
  ASSUME requests \in Seq(Requests), NEW c \in DOMAIN requests, NEW at \in {"ok"}, NEW s \in Nat, NEW t \in Nat,
         Issue(c, s), t = Len(granted) + 1
  PROVE  /\ requests' \in Seq(Requests) /\ DOMAIN requests' = DOMAIN requests
         /\ requests'[c] = [op |-> requests[c].op, arg |-> requests[c].arg, at |-> at, session |-> s,
                            token |-> t, answer |-> requests[c].answer]
         /\ \A d \in DOMAIN requests \ {c} : requests'[d] = requests[d]
  <1> DEFINE r == [op |-> requests[c].op, arg |-> requests[c].arg, at |-> at, session |-> s,
                   token |-> t, answer |-> requests[c].answer]
  <1>1. requests[c] \in Requests /\ at \in Underway \cup Finals
    BY DEF Finals
  <1>2. r \in Requests
    BY <1>1 DEF Requests, Finals
  <1>3. requests' = [requests EXCEPT ![c] = r]
    <2>1. [[[requests[c] EXCEPT !.at = at] EXCEPT !.session = s] EXCEPT !.token = t] = r
      <3> DEFINE o == requests[c]
      <3>1. o \in Requests /\ o.answer \in {"awaited", "seen", "lost"}
        BY <1>1 DEF Requests
      <3> HIDE DEF o
      <3>2. [[[o EXCEPT !.at = at] EXCEPT !.session = s] EXCEPT !.token = t] =
              [op |-> o.op, arg |-> o.arg, at |-> at, session |-> s, token |-> t, answer |-> o.answer]
        <4> DEFINE q == [[o EXCEPT !.at = at] EXCEPT !.session = s]
        <4>1. q = [op |-> o.op, arg |-> o.arg, at |-> at, session |-> s, token |-> o.token, answer |-> o.answer]
          BY <1>1, <3>1, RequestRecords
        <4>2. /\ q \in Requests /\ q.op = o.op /\ q.arg = o.arg /\ q.at = at /\ q.session = s
              /\ q.answer = o.answer
          BY <1>1, <3>1, <4>1 DEF Requests
        <4> HIDE DEF q
        <4>3. [q EXCEPT !.token = t] =
                [op |-> o.op, arg |-> o.arg, at |-> at, session |-> s, token |-> t, answer |-> o.answer]
          BY <4>2, TokenRecord
        <4> QED BY <4>3 DEF q
      <3> QED BY <3>2 DEF o
    <2>2. requests' = [requests EXCEPT ![c] = [[[requests[c] EXCEPT !.at = at] EXCEPT !.session = s] EXCEPT !.token = t]]
      BY <1>1, RequestChanges DEF Issue, Requests, Finals
    <2> HIDE DEF r
    <2> QED BY <2>1, <2>2
  <1> HIDE DEF r
  <1>4. requests'[c] = r
    BY <1>2, <1>3, OneReplaced
  <1> QED BY <1>2, <1>3, <1>4, OneReplaced DEF r

(* The client has an answer, or has no use for it any more. *)
LEMMA AnswerFacts ==
  ASSUME requests \in Seq(Requests), NEW c \in DOMAIN requests, NEW becomes \in {"awaited", "seen", "lost"},
         Answer(c, becomes)
  PROVE  /\ requests' \in Seq(Requests) /\ DOMAIN requests' = DOMAIN requests
         /\ requests'[c] = [op |-> requests[c].op, arg |-> requests[c].arg, at |-> requests[c].at, session |-> requests[c].session,
                            token |-> requests[c].token, answer |-> becomes]
         /\ \A d \in DOMAIN requests \ {c} : requests'[d] = requests[d]
  <1> DEFINE r == [op |-> requests[c].op, arg |-> requests[c].arg, at |-> requests[c].at, session |-> requests[c].session,
                   token |-> requests[c].token, answer |-> becomes]
  <1>1. requests[c] \in Requests
    OBVIOUS
  <1>2. r \in Requests
    BY <1>1 DEF Requests
  <1>3. requests' = [requests EXCEPT ![c] = r]
    <2>1. [requests[c] EXCEPT !.answer = becomes] = r
      BY <1>1, AnsweredRecord DEF Requests
    <2>2. requests' = [requests EXCEPT ![c] = [requests[c] EXCEPT !.answer = becomes]]
      BY <1>1, AnsweredRecord DEF Answer, Requests
    <2> HIDE DEF r
    <2> QED BY <2>1, <2>2
  <1> HIDE DEF r
  <1>4. requests'[c] = r
    BY <1>2, <1>3, OneReplaced
  <1> QED BY <1>2, <1>3, <1>4, OneReplaced DEF r

(* The client sends a request. *)
LEMMA SendsFacts ==
  ASSUME requests \in Seq(Requests), NEW call \in Requests, Sends(call)
  PROVE  /\ requests' \in Seq(Requests)
         /\ DOMAIN requests' = DOMAIN requests \cup {Len(requests) + 1}
         /\ Len(requests) + 1 \notin DOMAIN requests /\ DOMAIN requests = 1..Len(requests) /\ Len(requests) \in Nat
         /\ requests'[Len(requests) + 1] = call
         /\ \A d \in DOMAIN requests : requests'[d] = requests[d]
  BY AppendProperties, LenProperties DEF Sends

(* A session is revoked, or lapses. *)
LEMMA RevokesFacts ==
  ASSUME IdentityTypeOK, NEW s \in DOMAIN sessions,
         \/ Revokes(s)
         \/ sessions' = [sessions EXCEPT ![s].lapsed = TRUE]
  PROVE  /\ sessions' \in Seq([token : Nat, revoked : BOOLEAN, lapsed : BOOLEAN])
         /\ DOMAIN sessions' = DOMAIN sessions
         /\ \A z \in DOMAIN sessions : sessions'[z].token = sessions[z].token
         /\ \A z \in DOMAIN sessions \ {s} : sessions'[z] = sessions[z]
         /\ sessions[s].revoked => sessions'[s].revoked
         /\ Revokes(s) => sessions'[s].revoked
         /\ ~Revokes(s) => sessions'[s].revoked = sessions[s].revoked
  <1> DEFINE Rows == [token : Nat, revoked : BOOLEAN, lapsed : BOOLEAN]
             revoked == [sessions[s] EXCEPT !.revoked = TRUE]
             lapsed == [sessions[s] EXCEPT !.lapsed = TRUE]
  <1>1. /\ sessions \in Seq(Rows) /\ sessions[s] \in Rows
        /\ s \in 1..Len(sessions) /\ DOMAIN sessions = 1..Len(sessions)
    BY StateFacts DEF IdentityTypeOK
  <1>2. /\ revoked \in Rows /\ revoked.token = sessions[s].token /\ revoked.revoked
        /\ lapsed \in Rows /\ lapsed.token = sessions[s].token /\ lapsed.revoked = sessions[s].revoked
    BY <1>1
  <1>3. PICK row \in {revoked, lapsed} :
          /\ sessions' = [sessions EXCEPT ![s] = row]
          /\ Revokes(s) => row = revoked
          /\ ~Revokes(s) => row = lapsed
    BY DEF Revokes
  <1> HIDE DEF revoked, lapsed
  <1>4. /\ sessions' \in Seq(Rows) /\ DOMAIN sessions' = DOMAIN sessions
        /\ sessions'[s] = row
        /\ \A z \in DOMAIN sessions \ {s} : sessions'[z] = sessions[z]
    <2>1. row \in Rows
      BY <1>2, <1>3
    <2> HIDE DEF Rows
    <2> QED BY <1>1, <1>3, <2>1, ExceptSeq, LenProperties
  <1>5. /\ row.token = sessions[s].token
        /\ sessions[s].revoked => row.revoked
        /\ Revokes(s) => row.revoked
        /\ ~Revokes(s) => row.revoked = sessions[s].revoked
    BY <1>2, <1>3
  <1> QED BY <1>4, <1>5

-----------------------------------------------------------------------------
(* The steps of the service that move one request on and change nothing    *)
(* else, but for a login that is consumed, preserve the invariant.         *)
LEMMA AdvanceInv ==
  ASSUME AccountsInv, UNCHANGED <<sessions, spent, granted, appVars>>,
         login' \in [Logins -> {"none", "counted", "open", "lapsed", "consumed"}],
         \A l \in Logins : login[l] = "consumed" => login'[l] = "consumed",
         NEW c \in DOMAIN requests, NEW to, NEW s,
         requests' \in Seq(Requests), DOMAIN requests' = DOMAIN requests,
         requests'[c] = [op |-> requests[c].op, arg |-> requests[c].arg, at |-> to, session |-> s,
                         token |-> requests[c].token, answer |-> requests[c].answer],
         \A d \in DOMAIN requests \ {c} : requests'[d] = requests[d],
         requests[c].at \in Underway,
         to \in (Underway \ {"sent"}) \cup {"denied", "dead"},
         s \in {0} \cup DOMAIN sessions,
         to \in {"replayed", "rotating", "found"} => s \in DOMAIN sessions,
         to \in {"checked", "exchanging"} => requests[c].op = "complete",
         to \in {"selecting", "replayed", "rotating"} => requests[c].op = "refresh",
         to = "found" => requests[c].op = "logout",
         to = "exchanging" =>
            /\ login'[requests[c].arg] = "consumed"
            /\ \A t \in Tokens : granted[t].for # requests[c].arg
            /\ \A d \in DOMAIN requests \ {c} :
                 requests[d].at = "exchanging" => requests[d].arg # requests[c].arg,
         to = "rotating" =>
            /\ sessions[s].token = requests[c].arg /\ ~sessions[s].revoked
            /\ \A d \in DOMAIN requests \ {c} : requests[d].at = "rotating" => requests[d].session # s,
         to = "replayed" => AnswerWasLost(s),
         requests[c].op = "logout" /\ requests[c].session # 0 => s = requests[c].session
  PROVE  AccountsInv'
  <1> USE DEF AccountsInv, IdentityInv
  <1>0. IdentityTypeOK /\ AppTypeOK
    BY Zenon DEF RedeemedOnce, StaysSignedIn
  <1>1. /\ requests'[c].op = requests[c].op /\ requests'[c].arg = requests[c].arg
        /\ requests'[c].at = to /\ requests'[c].session = s
        /\ requests'[c].token = requests[c].token /\ requests'[c].answer = requests[c].answer
    OBVIOUS
  <1>2. \A d \in DOMAIN requests :
          /\ requests'[d].op = requests[d].op /\ requests'[d].arg = requests[d].arg
          /\ requests'[d].token = requests[d].token /\ requests'[d].answer = requests[d].answer
          /\ d # c => requests'[d].at = requests[d].at /\ requests'[d].session = requests[d].session
          /\ requests[d].op = "logout" /\ requests[d].session # 0 => requests'[d].session = requests[d].session
    BY <1>1
  <1>3. to \notin {"ok", "revoked"} /\ requests[c].at \notin {"ok", "revoked", "denied", "dead"}
    BY DEF Underway
  <1>4. Tokens' = Tokens
    BY DEF Tokens
  <1>5. IdentityTypeOK'
    <2>1. /\ sessions' \in Seq([token : Nat, revoked : BOOLEAN, lapsed : BOOLEAN])
          /\ granted' \in Seq([session : Nat, for : Logins \cup Nat])
          /\ spent' \subseteq Tokens'
          /\ \A z \in DOMAIN sessions' : sessions'[z].token \in Tokens'
          /\ \A t \in Tokens' : granted'[t].session \in DOMAIN sessions' /\ granted'[t].for \in Logins \cup Tokens'
      BY <1>0, <1>4 DEF IdentityTypeOK
    <2>2. ASSUME NEW d \in DOMAIN requests'
          PROVE  /\ requests'[d].arg \in IF requests'[d].op = "complete" THEN Logins ELSE Tokens'
                 /\ requests'[d].session \in {0} \cup DOMAIN sessions'
                 /\ requests'[d].token \in {NoToken} \cup Tokens'
      <3>1. d \in DOMAIN requests
        BY <2>2
      <3>2. /\ requests[d].arg \in IF requests[d].op = "complete" THEN Logins ELSE Tokens
            /\ requests[d].session \in {0} \cup DOMAIN sessions
            /\ requests[d].token \in {NoToken} \cup Tokens
        BY <1>0, <3>1 DEF IdentityTypeOK
      <3>3. requests'[d].session \in {0} \cup DOMAIN sessions
        BY <1>1, <1>2, <3>1, <3>2
      <3> QED BY <1>2, <1>4, <3>1, <3>2, <3>3
    <2> QED BY <2>1, <2>2 DEF IdentityTypeOK
  <1>6. AppTypeOK'
    BY <1>0, <1>4 DEF AppTypeOK, appVars
  <1>7. PhasesFit'
    BY <1>1, <1>2, <1>3 DEF PhasesFit
  <1>8. OneExchange'
    <2>1. \A d \in DOMAIN requests : requests[d].at = "exchanging" => requests[d].arg \in Logins
      BY <1>0 DEF IdentityTypeOK, PhasesFit
    <2>2. \A t \in Tokens' : granted'[t].for \in Logins => login'[granted'[t].for] = "consumed"
      BY <1>4 DEF OneExchange
    <2>3. ASSUME NEW d \in DOMAIN requests, requests'[d].at = "exchanging"
          PROVE  /\ login'[requests'[d].arg] = "consumed"
                 /\ \A t \in Tokens : granted[t].for # requests'[d].arg
      BY <1>1, <1>2, <2>1, <2>3 DEF OneExchange
    <2>4. ASSUME NEW d \in DOMAIN requests, NEW e \in DOMAIN requests,
                 requests'[d].at = "exchanging", requests'[e].at = "exchanging", requests'[d].arg = requests'[e].arg
          PROVE  d = e
      BY <1>1, <1>2, <2>4 DEF OneExchange
    <2> QED BY <1>4, <2>2, <2>3, <2>4 DEF OneExchange
  <1>9. RowIsLocked'
    BY <1>1, <1>2 DEF RowIsLocked
  <1>10. RevokedIsWritten'
    BY <1>1, <1>2, <1>3 DEF RevokedIsWritten, At
  <1>11. RedeemedOnce'
    BY <1>4, <1>5 DEF RedeemedOnce
  <1>12. NewsIsNew'
    BY <1>1, <1>2, <1>3, <1>4 DEF NewsIsNew, Issued, appVars
  <1>13. PresentedAgain'
    BY <1>1, <1>2, <1>3 DEF PresentedAgain, Finals, Underway, appVars
  <1>14. SpentByRefresh'
    BY <1>1, <1>2, <1>3 DEF SpentByRefresh, At
  <1>15. \A z : AnswerWasLost(z) => AnswerWasLost(z)'
    BY <1>2 DEF AnswerWasLost
  <1>16. ReplayFollowsLoss'
    BY <1>1, <1>2, <1>15 DEF ReplayFollowsLoss
  <1>17. StaysSignedIn'
    <2>1. ASSUME NEW z \in DOMAIN sessions', sessions'[z].revoked
          PROVE \E d \in DOMAIN requests' :
                   \/ requests'[d].op = "logout" /\ requests'[d].session = z
                   \/ /\ requests'[d].op = "refresh" /\ requests'[d].answer = "lost"
                      /\ granted'[requests'[d].arg].session = z
      <3>1. z # 0
        BY StateFacts, <1>0, <2>1
      <3> QED BY <1>2, <2>1, <3>1 DEF StaysSignedIn
    <2> QED BY <1>6, <2>1 DEF StaysSignedIn
  <1> QED BY <1>7, <1>8, <1>9, <1>10, <1>11, <1>12, <1>13, <1>14, <1>16, <1>17

(* A request that goes on in the service.                                  *)
LEMMA TurnInv ==
  ASSUME AccountsInv, UNCHANGED <<sessions, spent, granted, appVars>>,
         login' \in [Logins -> {"none", "counted", "open", "lapsed", "consumed"}],
         \A l \in Logins : login[l] = "consumed" => login'[l] = "consumed",
         NEW c \in DOMAIN requests,
         NEW to \in {"checked", "exchanging", "selecting", "denied", "dead"}, Turns(c, to),
         requests[c].at \in Underway,
         to \in {"checked", "exchanging"} => requests[c].op = "complete",
         to = "selecting" => requests[c].op = "refresh",
         to = "exchanging" =>
            /\ login'[requests[c].arg] = "consumed"
            /\ \A t \in Tokens : granted[t].for # requests[c].arg
            /\ \A d \in DOMAIN requests \ {c} :
                 requests[d].at = "exchanging" => requests[d].arg # requests[c].arg
  PROVE  AccountsInv'
  <1>1. IdentityTypeOK
    BY DEF AccountsInv, IdentityInv, RedeemedOnce
  <1>2. /\ requests \in Seq(Requests) /\ requests[c].session \in {0} \cup DOMAIN sessions
        /\ to \in (Underway \ {"sent"}) \cup {"denied", "dead"} /\ to \in Underway \cup Finals
        /\ to \notin {"replayed", "rotating", "found"}
    BY <1>1 DEF IdentityTypeOK, Underway, Finals
  <1>3. /\ requests' \in Seq(Requests) /\ DOMAIN requests' = DOMAIN requests
        /\ requests'[c] = [op |-> requests[c].op, arg |-> requests[c].arg, at |-> to, session |-> requests[c].session,
                           token |-> requests[c].token, answer |-> requests[c].answer]
        /\ \A d \in DOMAIN requests \ {c} : requests'[d] = requests[d]
    BY <1>2, TurnsFacts
  <1> DEFINE s == requests[c].session
  <1>4. s \in {0} \cup DOMAIN sessions /\ s = requests[c].session
    BY <1>2
  <1> HIDE DEF s
  <1> QED BY <1>2, <1>3, <1>4, AdvanceInv

(* complete, up to the exchange: of those that found a login open one      *)
(* consumes it, and nothing was issued for it before.                      *)
LEMMA CompleteInv ==
  ASSUME AccountsInv, UNCHANGED appVars, NEW c \in DOMAIN requests,
         CheckLogin(c) \/ Consume(c)
  PROVE  AccountsInv'
  <1>1. IdentityTypeOK /\ OneExchange
    BY DEF AccountsInv, IdentityInv, RedeemedOnce
  <1>2. requests[c].at \in Underway /\ requests[c].op = "complete"
    BY DEF CheckLogin, Consume, At, Underway
  <1>3. requests[c].arg \in Logins
    BY <1>1, <1>2 DEF IdentityTypeOK
  <1>4. CASE CheckLogin(c)
    <2>1. PICK to \in {"checked", "denied"} : Turns(c, to)
      BY <1>4 DEF CheckLogin
    <2> QED BY <1>1, <1>2, <1>4, <2>1, TurnInv DEF CheckLogin, IdentityTypeOK
  <1>5. CASE Consume(c) /\ login[requests[c].arg] # "consumed"
    <2>1. /\ Turns(c, "exchanging") /\ login' = [login EXCEPT ![requests[c].arg] = "consumed"]
          /\ UNCHANGED <<sessions, spent, granted>>
      BY <1>5 DEF Consume
    <2>2. /\ login' \in [Logins -> {"none", "counted", "open", "lapsed", "consumed"}]
          /\ login'[requests[c].arg] = "consumed"
          /\ \A l \in Logins : login[l] = "consumed" => login'[l] = "consumed"
      BY <1>1, <1>3, <2>1 DEF IdentityTypeOK
    <2>3. \A t \in Tokens : granted[t].for # requests[c].arg
      BY <1>1, <1>3, <1>5 DEF OneExchange
    <2>4. \A d \in DOMAIN requests \ {c} : requests[d].at = "exchanging" => requests[d].arg # requests[c].arg
      BY <1>1, <1>5 DEF OneExchange
    <2> QED BY <1>2, <2>1, <2>2, <2>3, <2>4, TurnInv
  <1>6. CASE Consume(c) /\ login[requests[c].arg] = "consumed"
    BY <1>1, <1>2, <1>6, TurnInv DEF Consume, IdentityTypeOK
  <1> QED BY <1>4, <1>5, <1>6

(* A request that is refused, or dies with the service. *)
LEMMA FailsInv ==
  ASSUME AccountsInv, UNCHANGED appVars, NEW c \in DOMAIN requests,
         Denied(c) \/ ServiceFails(c)
  PROVE  AccountsInv'
  <1>1. IdentityTypeOK
    BY DEF AccountsInv, IdentityInv, RedeemedOnce
  <1>2. PICK to \in {"denied", "dead"} : Turns(c, to)
    BY DEF Denied, ServiceFails
  <1>3. requests[c].at \in Underway /\ UNCHANGED <<login, sessions, spent, granted>>
    BY DEF Denied, ServiceFails, Underway
  <1> QED BY <1>1, <1>2, <1>3, TurnInv DEF IdentityTypeOK

(* A refresh is looked up: if its token was consumed before, an answer to  *)
(* the client that presented it was lost.                                  *)
LEMMA LookUpInv ==
  ASSUME AccountsInv, UNCHANGED appVars, NEW c \in DOMAIN requests, LookUp(c)
  PROVE  AccountsInv'
  <1>1. IdentityTypeOK /\ PresentedAgain /\ SpentByRefresh
    BY DEF AccountsInv, IdentityInv, RedeemedOnce
  <1>2. /\ requests[c].op = "refresh" /\ requests[c].at = "sent" /\ requests[c].at \in Underway
        /\ UNCHANGED <<login, sessions, spent, granted>>
    BY DEF LookUp, At, Underway
  <1>3. CASE requests[c].arg \notin spent
    BY <1>1, <1>2, <1>3, TurnInv DEF LookUp, IdentityTypeOK
  <1>4. CASE requests[c].arg \in spent
    <2> DEFINE s == granted[requests[c].arg].session
    <2>1. Finds(c, "replayed", s)
      BY <1>4 DEF LookUp
    <2>2. s \in DOMAIN sessions /\ s \in Nat
      BY <1>1, <1>4, StateFacts DEF IdentityTypeOK
    <2>3. AnswerWasLost(s)
      <3>1. PICK e \in DOMAIN requests : At(e, "refresh", "ok") /\ requests[e].arg = requests[c].arg
        BY <1>1, <1>4 DEF SpentByRefresh
      <3>2. e # c
        BY <1>2, <3>1 DEF At
      <3>3. requests[e].at = "ok" /\ requests[e].op = "refresh" /\ requests[e].arg = requests[c].arg
        BY <3>1 DEF At
      <3>4. e \in Nat /\ c \in Nat
        BY <1>1, StateFacts
      <3>5. CASE e < c
        <4>1. requests[e].answer = "lost"
          BY <1>1, <1>2, <3>3, <3>5 DEF PresentedAgain
        <4> QED BY <3>3, <4>1 DEF AnswerWasLost
      <3>6. CASE c < e
        <4>1. requests[c].answer = "lost"
          BY <1>1, <1>2, <3>3, <3>6 DEF PresentedAgain
        <4> QED BY <1>2, <4>1 DEF AnswerWasLost
      <3> QED BY <3>2, <3>4, <3>5, <3>6
    <2>4. requests \in Seq(Requests) /\ "replayed" \in (Underway \ {"sent"}) /\ "replayed" \in Underway \cup Finals
      BY <1>1 DEF IdentityTypeOK, Underway
    <2>5. login' \in [Logins -> {"none", "counted", "open", "lapsed", "consumed"}]
      BY <1>1, <1>2 DEF IdentityTypeOK
    <2> HIDE DEF s
    <2> DEFINE to == "replayed"
    <2>6. /\ requests' \in Seq(Requests) /\ DOMAIN requests' = DOMAIN requests
          /\ requests'[c] = [op |-> requests[c].op, arg |-> requests[c].arg, at |-> to, session |-> s,
                             token |-> requests[c].token, answer |-> requests[c].answer]
          /\ \A d \in DOMAIN requests \ {c} : requests'[d] = requests[d]
      BY <2>1, <2>2, <2>4, FindsFacts
    <2> QED BY <1>2, <2>2, <2>3, <2>4, <2>5, <2>6, AdvanceInv
  <1> QED BY <1>3, <1>4

(* A request that found its session. *)
LEMMA FindInv ==
  ASSUME AccountsInv, UNCHANGED appVars, NEW c \in DOMAIN requests, Select(c) \/ Find(c)
  PROVE  AccountsInv'
  <1>1. IdentityTypeOK /\ PhasesFit
    BY DEF AccountsInv, IdentityInv, RedeemedOnce
  <1>2. /\ requests[c].at \in Underway
        /\ login' \in [Logins -> {"none", "counted", "open", "lapsed", "consumed"}]
        /\ UNCHANGED <<login, sessions, spent, granted>>
    BY <1>1 DEF Select, Find, At, Underway, IdentityTypeOK
  <1>3. CASE Turns(c, "denied")
    BY <1>1, <1>2, <1>3, TurnInv DEF IdentityTypeOK
  <1>4. ASSUME NEW to \in {"rotating", "found"}, NEW s \in DOMAIN sessions, Finds(c, to, s),
               to = "rotating" => /\ requests[c].op = "refresh" /\ Active(s) /\ ~Locked(s)
                                  /\ sessions[s].token = requests[c].arg,
               to = "found" => requests[c].op = "logout" /\ requests[c].at = "sent"
        PROVE  AccountsInv'
    <2>1. /\ requests \in Seq(Requests) /\ s \in Nat /\ s \in {0} \cup DOMAIN sessions
          /\ to \in (Underway \ {"sent"}) \cup {"denied", "dead"} /\ to \in Underway \cup Finals
      BY <1>1, <1>4, StateFacts DEF IdentityTypeOK, Underway
    <2>2. /\ requests' \in Seq(Requests) /\ DOMAIN requests' = DOMAIN requests
          /\ requests'[c] = [op |-> requests[c].op, arg |-> requests[c].arg, at |-> to, session |-> s,
                             token |-> requests[c].token, answer |-> requests[c].answer]
          /\ \A d \in DOMAIN requests \ {c} : requests'[d] = requests[d]
      BY <1>4, <2>1, FindsFacts
    <2>3. to = "rotating" =>
            /\ sessions[s].token = requests[c].arg /\ ~sessions[s].revoked
            /\ \A d \in DOMAIN requests \ {c} : requests[d].at = "rotating" => requests[d].session # s
      BY <1>4 DEF Active, Locked
    <2>4. requests[c].op = "logout" /\ requests[c].session # 0 => s = requests[c].session
      BY <1>1, <1>4 DEF PhasesFit
    <2> QED BY <1>2, <1>4, <2>1, <2>2, <2>3, <2>4, AdvanceInv
  <1>5. CASE Select(c)
    <2>1. \/ \E s \in DOMAIN sessions : sessions[s].token = requests[c].arg /\ ~Locked(s) /\ Active(s)
                                        /\ Finds(c, "rotating", s)
          \/ Turns(c, "denied")
      BY <1>5 DEF Select
    <2> QED BY <1>3, <1>4, <1>5, <2>1 DEF Select, At
  <1>6. CASE Find(c)
    <2>1. (\E s \in DOMAIN sessions : Finds(c, "found", s)) \/ Turns(c, "denied")
      BY <1>6 DEF Find
    <2> QED BY <1>3, <1>4, <1>6, <2>1 DEF Find, At
  <1> QED BY <1>5, <1>6

-----------------------------------------------------------------------------
(* A new token is issued to a request, for what it came with: for nothing  *)
(* a token was issued before, and the session has it from now on.          *)
LEMMA IssueInv ==
  ASSUME AccountsInv, UNCHANGED <<login, appVars>>,
         NEW c \in DOMAIN requests, NEW s \in Nat, Issue(c, s),
         requests[c].op \in {"complete", "refresh"}, requests[c].at \in {"exchanging", "rotating"},
         \A t \in Tokens : granted[t].for # requests[c].arg,
         requests[c].arg \in Logins => login[requests[c].arg] = "consumed",
         \A d \in DOMAIN requests \ {c} :
            /\ requests[d].at = "exchanging" => requests[d].arg # requests[c].arg
            /\ requests[d].at = "rotating" => requests[d].session # s,
         spent' = spent \cup ({requests[c].arg} \ Logins),
         sessions' \in Seq([token : Nat, revoked : BOOLEAN, lapsed : BOOLEAN]),
         DOMAIN sessions' = DOMAIN sessions \cup {s},
         sessions'[s].token = Len(granted) + 1,
         \A z \in DOMAIN sessions : sessions'[z].revoked = sessions[z].revoked,
         \A z \in DOMAIN sessions \ {s} : sessions'[z].token = sessions[z].token /\ sessions[z].token # requests[c].arg,
         s \notin DOMAIN sessions => ~sessions'[s].revoked
  PROVE  AccountsInv'
  <1> USE DEF AccountsInv, IdentityInv
  <1> DEFINE m == Len(granted) + 1
  <1>0. IdentityTypeOK /\ AppTypeOK
    BY Zenon DEF RedeemedOnce, StaysSignedIn
  <1>1. /\ granted \in Seq([session : Nat, for : Logins \cup Nat]) /\ Len(granted) \in Nat /\ m \in Nat
        /\ requests \in Seq(Requests)
        /\ requests[c].arg \in Logins \cup Tokens
    <2>1. granted \in Seq([session : Nat, for : Logins \cup Nat]) /\ requests \in Seq(Requests)
      BY <1>0 DEF IdentityTypeOK
    <2>2. requests[c].arg \in IF requests[c].op = "complete" THEN Logins ELSE Tokens
      BY <1>0 DEF IdentityTypeOK
    <2>3. Len(granted) \in Nat
      BY <2>1, LenProperties
    <2> QED BY <2>1, <2>2, <2>3
  <1>2. \E at \in {"ok"} :
        /\ requests' \in Seq(Requests) /\ DOMAIN requests' = DOMAIN requests
        /\ requests'[c] = [op |-> requests[c].op, arg |-> requests[c].arg, at |-> at, session |-> s,
                           token |-> m, answer |-> requests[c].answer]
        /\ \A d \in DOMAIN requests \ {c} : requests'[d] = requests[d]
    <2> DEFINE at == "ok"
    <2>1. at \in {"ok"} /\ m = Len(granted) + 1
      OBVIOUS
    <2> HIDE DEF at, m
    <2> QED BY <1>1, <2>1, IssueFacts
  <1>3. /\ requests' \in Seq(Requests) /\ DOMAIN requests' = DOMAIN requests
        /\ requests'[c].op = requests[c].op /\ requests'[c].arg = requests[c].arg /\ requests'[c].at = "ok"
        /\ requests'[c].session = s /\ requests'[c].token = m /\ requests'[c].answer = requests[c].answer
        /\ \A d \in DOMAIN requests \ {c} : requests'[d] = requests[d]
        /\ \A d \in DOMAIN requests : /\ requests'[d].op = requests[d].op /\ requests'[d].arg = requests[d].arg
                                       /\ requests'[d].answer = requests[d].answer
    <2> HIDE DEF m
    <2> QED BY <1>2
  <1>4. /\ granted' \in Seq([session : Nat, for : Logins \cup Nat])
        /\ Tokens' = Tokens \cup {m} /\ m \notin Tokens /\ m \notin Logins /\ m # 0 /\ 0 \notin Tokens
        /\ granted'[m].session = s /\ granted'[m].for = requests[c].arg
        /\ \A t \in Tokens : granted'[t] = granted[t]
    <2> DEFINE g == [session |-> s, for |-> requests[c].arg]
    <2>1. g \in [session : Nat, for : Logins \cup Nat] /\ g.session = s /\ g.for = requests[c].arg
      BY <1>1 DEF Tokens
    <2>2. granted' = Append(granted, g)
      BY DEF Issue
    <2> HIDE DEF g
    <2>3. /\ Len(granted') = m /\ granted' \in Seq([session : Nat, for : Logins \cup Nat])
          /\ granted'[m] = g /\ \A t \in 1..Len(granted) : granted'[t] = granted[t]
      BY <1>1, <2>1, <2>2, AppendProperties
    <2>4. m \notin Logins /\ m # 0 /\ 0 \notin Tokens /\ m \notin Tokens
      BY <1>1, IdentityAssumption DEF Tokens
    <2>5. Tokens' = 1..m /\ 1..m = 1..Len(granted) \cup {m}
      BY <1>1, <2>3 DEF Tokens
    <2> HIDE DEF m
    <2> QED BY <2>1, <2>3, <2>4, <2>5 DEF Tokens
  <1> HIDE DEF m
  <1>41. \A t \in Tokens : /\ granted'[t].session = granted[t].session /\ granted'[t].for = granted[t].for
                           /\ granted'[t].for # requests[c].arg /\ t # m
    BY <1>4
  <1>5. IdentityTypeOK'
    <2>1. spent' \subseteq Tokens'
      BY <1>0, <1>1, <1>4 DEF IdentityTypeOK
    <2>2. \A z \in DOMAIN sessions' : sessions'[z].token \in Tokens'
      BY <1>0, <1>4 DEF IdentityTypeOK, m
    <2>3. ASSUME NEW t \in Tokens'
          PROVE  granted'[t].session \in DOMAIN sessions' /\ granted'[t].for \in Logins \cup Tokens'
      BY <1>0, <1>1, <1>4 DEF IdentityTypeOK
    <2>4. ASSUME NEW d \in DOMAIN requests'
          PROVE  /\ requests'[d].arg \in IF requests'[d].op = "complete" THEN Logins ELSE Tokens'
                 /\ requests'[d].session \in {0} \cup DOMAIN sessions'
                 /\ requests'[d].token \in {NoToken} \cup Tokens'
      <3>1. d \in DOMAIN requests
        BY <1>3, <2>4
      <3>2. /\ requests[d].arg \in IF requests[d].op = "complete" THEN Logins ELSE Tokens
            /\ requests[d].session \in {0} \cup DOMAIN sessions
            /\ requests[d].token \in {NoToken} \cup Tokens
        BY <1>0, <3>1 DEF IdentityTypeOK
      <3> QED BY <1>3, <1>4, <3>1, <3>2
    <2>5. login' \in [Logins -> {"none", "counted", "open", "lapsed", "consumed"}]
      BY <1>0 DEF IdentityTypeOK
    <2>6. requests' \in Seq(Requests) /\ granted' \in Seq([session : Nat, for : Logins \cup Nat])
      BY <1>3, <1>4
    <2> QED BY <2>1, <2>2, <2>3, <2>4, <2>5, <2>6 DEF IdentityTypeOK
  <1>6. AppTypeOK'
    BY <1>0, <1>4 DEF AppTypeOK, appVars
  <1>7. PhasesFit'
    <2>1. \A d \in DOMAIN requests \ {c} : d \in DOMAIN requests /\ requests'[d] = requests[d]
      BY <1>3
    <2> QED BY <1>3, <2>1 DEF PhasesFit
  <1>8. OneExchange'
    <2>1. \A t \in Tokens' : granted'[t].for \in Logins => login'[granted'[t].for] = "consumed"
      <3> SUFFICES ASSUME NEW t \in Tokens', granted'[t].for \in Logins PROVE login'[granted'[t].for] = "consumed"
        OBVIOUS
      <3>1. CASE t = m
        BY <1>4, <3>1
      <3>2. CASE t \in Tokens
        BY <1>4, <3>2 DEF OneExchange
      <3> QED BY <1>4, <3>1, <3>2
    <2>2. ASSUME NEW d \in DOMAIN requests', requests'[d].at = "exchanging"
          PROVE  /\ login'[requests'[d].arg] = "consumed"
                 /\ \A t \in Tokens' : granted'[t].for # requests'[d].arg
                 /\ \A e \in DOMAIN requests' :
                      requests'[e].at = "exchanging" /\ requests'[e].arg = requests'[d].arg => e = d
      <3>1. d \in DOMAIN requests \ {c} /\ requests'[d] = requests[d] /\ requests[d].at = "exchanging"
        BY <1>3, <2>2
      <3>2. requests'[d].arg = requests[d].arg /\ requests[d].arg # requests[c].arg
        BY <3>1
      <3>3. \A t \in Tokens' : granted'[t].for # requests'[d].arg
        BY <1>4, <1>41, <3>1, <3>2 DEF OneExchange
      <3>4. login'[requests'[d].arg] = "consumed"
        BY <3>1 DEF OneExchange
      <3>5. ASSUME NEW e \in DOMAIN requests', requests'[e].at = "exchanging", requests'[e].arg = requests'[d].arg
            PROVE  e = d
        <4>1. e \in DOMAIN requests \ {c} /\ requests'[e] = requests[e]
          BY <1>3, <3>5
        <4> QED BY <3>1, <3>5, <4>1 DEF OneExchange
      <3> QED BY <3>3, <3>4, <3>5
    <2> QED BY <2>1, <2>2 DEF OneExchange
  <1>9. RowIsLocked'
    <2>1. ASSUME NEW d \in DOMAIN requests', requests'[d].at = "rotating"
          PROVE  /\ sessions'[requests'[d].session].token = requests'[d].arg
                 /\ ~sessions'[requests'[d].session].revoked
                 /\ \A e \in DOMAIN requests' :
                      requests'[e].at = "rotating" /\ requests'[e].session = requests'[d].session => e = d
      <3>1. d \in DOMAIN requests \ {c} /\ requests'[d] = requests[d] /\ requests[d].at = "rotating"
        BY <1>3, <2>1
      <3>2. requests[d].session \in DOMAIN sessions \ {s}
        BY <3>1 DEF PhasesFit
      <3>3. /\ sessions'[requests[d].session].token = sessions[requests[d].session].token
            /\ sessions'[requests[d].session].revoked = sessions[requests[d].session].revoked
        BY <3>2
      <3>4. ASSUME NEW e \in DOMAIN requests', requests'[e].at = "rotating", requests'[e].session = requests'[d].session
            PROVE  e = d
        <4>1. e \in DOMAIN requests \ {c} /\ requests'[e] = requests[e]
          BY <1>3, <3>4
        <4> QED BY <3>1, <3>4, <4>1 DEF RowIsLocked
      <3> QED BY <3>1, <3>3, <3>4 DEF RowIsLocked
    <2> QED BY <2>1 DEF RowIsLocked
  <1>10. RevokedIsWritten'
    <2>1. requests'[c].op # "logout" /\ requests'[c].at # "revoked"
      BY <1>3
    <2>2. ASSUME NEW d \in DOMAIN requests', requests'[d].at = "revoked" \/ At(d, "logout", "ok")'
          PROVE  requests'[d].session \in DOMAIN sessions' /\ sessions'[requests'[d].session].revoked
      <3>1. d \in DOMAIN requests \ {c} /\ requests'[d] = requests[d]
        BY <1>3, <2>1, <2>2 DEF At
      <3>2. requests[d].session \in DOMAIN sessions /\ sessions[requests[d].session].revoked
        BY <2>2, <3>1 DEF RevokedIsWritten, At
      <3> QED BY <3>1, <3>2
    <2> QED BY <2>2 DEF RevokedIsWritten, At
  <1>11. RedeemedOnce'
    <2>1. \A t, u \in Tokens' : granted'[t].for = granted'[u].for => t = u
      <3> SUFFICES ASSUME NEW t \in Tokens', NEW u \in Tokens', granted'[t].for = granted'[u].for PROVE t = u
        OBVIOUS
      <3>1. CASE t \in Tokens /\ u \in Tokens
        BY <1>41, <3>1 DEF RedeemedOnce
      <3>2. CASE t = m \/ u = m
        BY <1>4, <1>41, <3>2
      <3> QED BY <1>4, <3>1, <3>2
    <2>2. spent' = {granted'[t].for : t \in Tokens'} \ Logins
      <3>1. {granted'[t].for : t \in Tokens'} = {granted[t].for : t \in Tokens} \cup {requests[c].arg}
        <4>1. {granted'[t].for : t \in Tokens} = {granted[t].for : t \in Tokens}
          BY <1>41
        <4>2. {granted'[t].for : t \in Tokens'} = {granted'[t].for : t \in Tokens} \cup {granted'[m].for}
          BY <1>4
        <4> QED BY <1>4, <4>1, <4>2
      <3> QED BY <3>1 DEF RedeemedOnce
    <2>3. ASSUME NEW z \in DOMAIN sessions'
          PROVE  granted'[sessions'[z].token].session = z /\ sessions'[z].token \notin spent'
      <3>1. CASE z = s
        <4>1. sessions'[z].token = m
          BY <3>1 DEF m
        <4>2. m \notin spent'
          BY <1>0, <1>1, <1>4 DEF IdentityTypeOK
        <4> QED BY <1>4, <3>1, <4>1, <4>2
      <3>2. CASE z # s
        <4>1. /\ z \in DOMAIN sessions \ {s} /\ sessions'[z].token = sessions[z].token
              /\ sessions[z].token \in Tokens /\ sessions[z].token # requests[c].arg
          BY <1>0, <2>3, <3>2 DEF IdentityTypeOK
        <4> QED BY <1>4, <4>1 DEF RedeemedOnce
      <3> QED BY <3>1, <3>2
    <2> QED BY <1>5, <2>1, <2>2, <2>3 DEF RedeemedOnce
  <1>12. NewsIsNew'
    <2>1. /\ \A d \in DOMAIN requests \ {c} : Issued(d)' <=> Issued(d)
          /\ \A d \in DOMAIN requests : /\ requests[d].token \in {0} \cup Tokens
                                        /\ requests[d].op = "refresh" => requests[d].arg \in Tokens
      BY <1>0, <1>3 DEF Issued, IdentityTypeOK, NoToken
    <2>2. keychain' = keychain /\ keychain # m
      BY <1>0, <1>4 DEF AppTypeOK, NoToken, appVars
    <2>3. ASSUME NEW d \in DOMAIN requests', Issued(d)'
          PROVE /\ requests'[d].token \in Tokens'
                /\ \A e \in DOMAIN requests' : Issued(e)' /\ requests'[e].token = requests'[d].token => e = d
                /\ requests'[d].answer = "awaited" =>
                     /\ keychain' # requests'[d].token
                     /\ \A e \in DOMAIN requests' : requests'[e].op = "refresh" => requests'[e].arg # requests'[d].token
      <3>1. CASE d = c
        <4>1. requests'[d].token = m /\ m \in Tokens'
          BY <1>3, <1>4, <3>1
        <4>2. ASSUME NEW e \in DOMAIN requests', Issued(e)', requests'[e].token = m
              PROVE  e = c
          BY <1>3, <1>4, <2>1, <4>2 DEF NewsIsNew
        <4>3. ASSUME NEW e \in DOMAIN requests', requests'[e].op = "refresh"
              PROVE  requests'[e].arg # m
          <5>1. e \in DOMAIN requests /\ requests[e].op = "refresh" /\ requests'[e].arg = requests[e].arg
            BY <1>3, <4>3
          <5>2. requests[e].arg \in Tokens
            BY <2>1, <5>1
          <5> QED BY <1>4, <5>1, <5>2
        <4> QED BY <2>2, <3>1, <4>1, <4>2, <4>3
      <3>2. CASE d # c
        <4>1. d \in DOMAIN requests \ {c} /\ Issued(d) /\ requests'[d] = requests[d] /\ requests[d].token \in Tokens
          BY <1>3, <2>1, <2>3, <3>2 DEF NewsIsNew
        <4>2. ASSUME NEW e \in DOMAIN requests', Issued(e)', requests'[e].token = requests[d].token
              PROVE  e = d
          <5>1. e # c
            BY <1>3, <1>4, <4>1, <4>2
          <5>2. Issued(e) /\ requests[e].token = requests[d].token
            BY <1>3, <2>1, <4>2, <5>1
          <5> QED BY <1>3, <4>1, <4>2, <5>2 DEF NewsIsNew
        <4>3. requests[d].answer = "awaited" =>
                /\ keychain # requests[d].token
                /\ \A e \in DOMAIN requests : requests[e].op = "refresh" => requests[e].arg # requests[d].token
          BY <4>1 DEF NewsIsNew
        <4>4. ASSUME NEW e \in DOMAIN requests', requests'[e].op = "refresh", requests'[d].answer = "awaited"
              PROVE  requests'[e].arg # requests'[d].token
          BY <1>3, <4>1, <4>3, <4>4
        <4>5. requests'[d].token \in Tokens' /\ (requests'[d].answer = "awaited" => keychain' # requests'[d].token)
          BY <1>4, <2>2, <4>1, <4>3
        <4> QED BY <4>1, <4>2, <4>4, <4>5
      <3> QED BY <3>1, <3>2
    <2> QED BY <2>3 DEF NewsIsNew, Issued
  <1>13. PresentedAgain'
    <2>1. ASSUME NEW d \in DOMAIN requests', requests'[d].op = "refresh", requests'[d].answer = "seen"
          PROVE requests'[d].at \in Finals /\ (requests'[d].at = "ok" => keychain' # requests'[d].arg)
      <3>1. requests[c].at \notin Finals
        BY DEF Finals
      <3>2. d # c
        BY <1>3, <2>1, <3>1 DEF PresentedAgain
      <3> QED BY <1>3, <2>1, <3>2 DEF PresentedAgain, appVars
    <2>2. ASSUME NEW d \in DOMAIN requests', NEW e \in DOMAIN requests', requests'[d].op = "refresh",
                 requests'[e].op = "refresh", requests'[e].arg = requests'[d].arg, d < e
          PROVE  requests'[d].answer = "lost" \/ requests'[d].at \in {"denied", "revoked", "dead"}
      <3>1. requests[d].answer = "lost" \/ requests[d].at \in {"denied", "revoked", "dead"}
        BY <1>3, <2>2 DEF PresentedAgain
      <3>2. requests[c].at \notin {"denied", "revoked", "dead"}
        OBVIOUS
      <3> QED BY <1>3, <2>2, <3>1, <3>2
    <2> QED BY <2>1, <2>2 DEF PresentedAgain
  <1>14. SpentByRefresh'
    <2>1. ASSUME NEW t \in spent'
          PROVE \E d \in DOMAIN requests' : At(d, "refresh", "ok")' /\ requests'[d].arg = t
      <3>1. CASE t \in spent
        <4>1. PICK d \in DOMAIN requests : At(d, "refresh", "ok") /\ requests[d].arg = t
          BY <3>1 DEF SpentByRefresh
        <4>2. d # c
          BY <4>1 DEF At
        <4> QED BY <1>3, <4>1, <4>2 DEF At
      <3>2. CASE t \notin spent
        <4>1. t = requests[c].arg /\ requests[c].arg \notin Logins
          BY <2>1, <3>2
        <4>2. requests[c].op = "refresh"
          BY <1>0, <4>1 DEF IdentityTypeOK
        <4> QED BY <1>3, <4>1, <4>2 DEF At
      <3> QED BY <3>1, <3>2
    <2> QED BY <2>1 DEF SpentByRefresh, At
  <1>15. \A z : AnswerWasLost(z) => AnswerWasLost(z)'
    <2>1. \A d \in DOMAIN requests : requests[d].op = "refresh" => granted'[requests[d].arg] = granted[requests[d].arg]
      BY <1>0, <1>4 DEF IdentityTypeOK
    <2>2. ASSUME NEW z, NEW d \in DOMAIN requests, requests[d].op = "refresh", requests[d].answer = "lost",
                 granted[requests[d].arg].session = z
          PROVE  /\ d \in DOMAIN requests' /\ requests'[d].op = "refresh" /\ requests'[d].answer = "lost"
                 /\ granted'[requests'[d].arg].session = z
      <3>1. d \in DOMAIN requests' /\ requests'[d].op = "refresh" /\ requests'[d].answer = "lost"
        BY <1>3, <2>2
      <3>2. requests'[d].arg = requests[d].arg
        BY <1>3
      <3> QED BY <2>1, <2>2, <3>1, <3>2
    <2> QED BY <2>2 DEF AnswerWasLost
  <1>16. ReplayFollowsLoss'
    BY <1>3, <1>15 DEF ReplayFollowsLoss
  <1>17. StaysSignedIn'
    <2>1. ASSUME NEW z \in DOMAIN sessions', sessions'[z].revoked
          PROVE (\E d \in DOMAIN requests : requests[d].op = "logout" /\ requests[d].session = z) \/ AnswerWasLost(z)
      <3>1. z \in DOMAIN sessions /\ sessions[z].revoked
        BY <2>1
      <3> QED BY <3>1 DEF StaysSignedIn, AnswerWasLost
    <2>2. \A d \in DOMAIN requests : requests[d].op = "logout" => d # c /\ requests'[d] = requests[d]
      BY <1>3
    <2>3. ASSUME NEW z \in DOMAIN sessions', sessions'[z].revoked
          PROVE \E d \in DOMAIN requests' :
                   \/ requests'[d].op = "logout" /\ requests'[d].session = z
                   \/ /\ requests'[d].op = "refresh" /\ requests'[d].answer = "lost"
                      /\ granted'[requests'[d].arg].session = z
      <3>1. CASE \E d \in DOMAIN requests : requests[d].op = "logout" /\ requests[d].session = z
        BY <1>3, <2>2, <3>1
      <3>2. CASE AnswerWasLost(z)'
        BY <3>2 DEF AnswerWasLost
      <3> QED BY <1>15, <2>1, <2>3, <3>1, <3>2
    <2> QED BY <1>6, <2>3 DEF StaysSignedIn
  <1> QED BY <1>5, <1>6, <1>7, <1>8, <1>9, <1>10, <1>11, <1>12, <1>13, <1>14, <1>16, <1>17

(* A login is complete: its session is opened.                             *)
LEMMA OpenSessionInv ==
  ASSUME AccountsInv, UNCHANGED appVars, NEW c \in DOMAIN requests, OpenSession(c)
  PROVE  AccountsInv'
  <1>1. IdentityTypeOK /\ OneExchange /\ PhasesFit
    BY DEF AccountsInv, IdentityInv, RedeemedOnce
  <1>2. /\ requests[c].op = "complete" /\ requests[c].at = "exchanging" /\ UNCHANGED <<login, spent>>
    BY DEF OpenSession, At
  <1>3. requests[c].arg \in Logins
    BY <1>1, <1>2 DEF IdentityTypeOK
  <1> DEFINE Rows == [token : Nat, revoked : BOOLEAN, lapsed : BOOLEAN]
             row == [token |-> Len(granted) + 1, revoked |-> FALSE, lapsed |-> FALSE]
             s == Len(sessions) + 1
  <1>4. /\ Len(sessions) \in Nat /\ DOMAIN sessions = 1..Len(sessions) /\ s \in Nat /\ s \notin DOMAIN sessions
        /\ Len(granted) \in Nat /\ sessions \in Seq(Rows)
    BY <1>1, StateFacts DEF IdentityTypeOK
  <1>5. row \in Rows /\ row.token = Len(granted) + 1 /\ ~row.revoked
    BY <1>4
  <1>6. sessions' = Append(sessions, row) /\ Issue(c, s)
    BY DEF OpenSession
  <1> HIDE DEF row
  <1>7. /\ sessions' \in Seq(Rows) /\ DOMAIN sessions' = DOMAIN sessions \cup {s}
        /\ sessions'[s] = row /\ \A z \in DOMAIN sessions : sessions'[z] = sessions[z]
    <2> HIDE DEF Rows
    <2> QED BY <1>4, <1>5, <1>6, AppendProperties
  <1>8. /\ \A t \in Tokens : granted[t].for # requests[c].arg
        /\ login[requests[c].arg] = "consumed"
        /\ \A d \in DOMAIN requests \ {c} : requests[d].at = "exchanging" => requests[d].arg # requests[c].arg
    BY <1>1, <1>2 DEF OneExchange
  <1>9. \A d \in DOMAIN requests \ {c} : requests[d].at = "rotating" => requests[d].session # s
    BY <1>1, <1>4 DEF PhasesFit
  <1>10. spent' = spent \cup ({requests[c].arg} \ Logins)
    BY <1>2, <1>3
  <1>11. \A z \in DOMAIN sessions : sessions[z].token # requests[c].arg
    <2>1. ASSUME NEW z \in DOMAIN sessions
          PROVE  sessions[z].token # requests[c].arg
      <3>1. sessions[z].token \in Nat
        BY <1>1, <2>1, StateFacts
      <3> QED BY <1>3, <3>1, IdentityAssumption
    <2> QED BY <2>1
  <1>12. /\ \A z \in DOMAIN sessions : sessions'[z].revoked = sessions[z].revoked
         /\ \A z \in DOMAIN sessions \ {s} : sessions'[z].token = sessions[z].token /\ sessions[z].token # requests[c].arg
         /\ s \notin DOMAIN sessions => ~sessions'[s].revoked
         /\ sessions'[s].token = Len(granted) + 1
    BY <1>5, <1>7, <1>11
  <1>13. \A d \in DOMAIN requests \ {c} :
            /\ requests[d].at = "exchanging" => requests[d].arg # requests[c].arg
            /\ requests[d].at = "rotating" => requests[d].session # s
    BY <1>8, <1>9
  <1> HIDE DEF s
  <1> QED BY <1>2, <1>4, <1>6, <1>7, <1>8, <1>10, <1>12, <1>13, IssueInv

(* A refresh is granted: what it came with is spent, and its session has   *)
(* the new token.  Its row was locked, so it still had the old one.        *)
LEMMA RotateTokenInv ==
  ASSUME AccountsInv, UNCHANGED appVars, NEW c \in DOMAIN requests, RotateToken(c)
  PROVE  AccountsInv'
  <1>1. IdentityTypeOK /\ RowIsLocked /\ PhasesFit /\ RedeemedOnce
    BY DEF AccountsInv, IdentityInv, RedeemedOnce
  <1> DEFINE Rows == [token : Nat, revoked : BOOLEAN, lapsed : BOOLEAN]
             s == requests[c].session
             m == Len(granted) + 1
             row == [sessions[s] EXCEPT !.token = m]
  <1>2. /\ requests[c].op = "refresh" /\ requests[c].at = "rotating" /\ UNCHANGED login
        /\ spent' = spent \cup {requests[c].arg} /\ Issue(c, s)
        /\ sessions' = [sessions EXCEPT ![s] = row]
    BY DEF RotateToken, At
  <1>3. requests[c].arg \in Tokens /\ requests[c].arg \notin Logins
    <2>1. requests[c].arg \in Tokens
      BY <1>1, <1>2 DEF IdentityTypeOK
    <2> QED BY <1>1, <2>1, IdentityAssumption, StateFacts DEF Tokens
  <1>4. /\ s \in DOMAIN sessions /\ sessions[s].token = requests[c].arg
        /\ s \in Nat /\ m \in Nat /\ sessions \in Seq(Rows) /\ sessions[s] \in Rows
    BY <1>1, <1>2, StateFacts DEF PhasesFit, RowIsLocked, IdentityTypeOK
  <1> HIDE DEF m
  <1>5. row \in Rows /\ row.token = m /\ row.revoked = sessions[s].revoked
    BY <1>4
  <1> HIDE DEF row, s
  <1>6. /\ sessions' \in Seq(Rows) /\ DOMAIN sessions' = DOMAIN sessions /\ sessions'[s] = row
        /\ \A z \in DOMAIN sessions \ {s} : sessions'[z] = sessions[z]
    <2>1. s \in 1..Len(sessions) /\ Len(sessions) \in Nat /\ DOMAIN sessions = 1..Len(sessions)
      BY <1>1, <1>4, StateFacts
    <2> HIDE DEF Rows
    <2> QED BY <1>2, <1>4, <1>5, <2>1, ExceptSeq
  <1>7. \A t \in Tokens : granted[t].for # requests[c].arg
    <2>1. ASSUME NEW t \in Tokens, granted[t].for = requests[c].arg
          PROVE  FALSE
      <3>1. requests[c].arg \in spent
        BY <1>1, <1>3, <2>1 DEF RedeemedOnce
      <3> QED BY <1>1, <1>4, <3>1 DEF RedeemedOnce
    <2> QED BY <2>1
  <1>8. \A d \in DOMAIN requests \ {c} :
            /\ requests[d].at = "exchanging" => requests[d].arg # requests[c].arg
            /\ requests[d].at = "rotating" => requests[d].session # s
    <2>1. ASSUME NEW d \in DOMAIN requests, requests[d].at = "exchanging"
          PROVE  requests[d].arg # requests[c].arg
      <3>1. requests[d].arg \in Logins
        BY <1>1, <2>1 DEF IdentityTypeOK, PhasesFit
      <3> QED BY <1>3, <3>1
    <2> QED BY <1>1, <1>2, <2>1 DEF RowIsLocked, s
  <1>9. \A z \in DOMAIN sessions \ {s} : sessions[z].token # requests[c].arg
    BY <1>1, <1>4 DEF RedeemedOnce
  <1>10. /\ \A z \in DOMAIN sessions : sessions'[z].revoked = sessions[z].revoked
         /\ \A z \in DOMAIN sessions \ {s} : sessions'[z].token = sessions[z].token /\ sessions[z].token # requests[c].arg
         /\ s \notin DOMAIN sessions => ~sessions'[s].revoked
         /\ sessions'[s].token = Len(granted) + 1
         /\ DOMAIN sessions' = DOMAIN sessions \cup {s}
    BY <1>4, <1>5, <1>6, <1>9 DEF m
  <1>11. spent' = spent \cup ({requests[c].arg} \ Logins)
    BY <1>2, <1>3
  <1>12. requests[c].arg \in Logins => login[requests[c].arg] = "consumed"
    BY <1>3
  <1> QED BY <1>2, <1>4, <1>6, <1>7, <1>8, <1>10, <1>11, <1>12, IssueInv

(* A session is revoked, by a logout or because of a replay: no rotation   *)
(* has its row, and there is a request to blame.                           *)
LEMMA RevokeInv ==
  ASSUME AccountsInv, UNCHANGED appVars, NEW c \in DOMAIN requests, Replay(c) \/ Revoke(c)
  PROVE  AccountsInv'
  <1> USE DEF AccountsInv, IdentityInv
  <1>0. IdentityTypeOK /\ AppTypeOK
    BY Zenon DEF RedeemedOnce, StaysSignedIn
  <1> DEFINE s == requests[c].session
  <1>1. PICK to \in {"revoked", "ok"} :
          /\ Turns(c, to) /\ Revokes(s) /\ ~Locked(s) /\ UNCHANGED <<login, spent, granted>>
          /\ requests[c].at \in {"replayed", "found"}
          /\ to = "revoked" => requests[c].op = "refresh" /\ requests[c].at = "replayed"
          /\ to = "ok" => requests[c].op = "logout"
    BY DEF Replay, Revoke, At
  <1>2. s \in DOMAIN sessions /\ s \in Nat /\ 0 \notin DOMAIN sessions
    BY <1>0, <1>1, StateFacts DEF PhasesFit
  <1> HIDE DEF s
  <1>3. /\ sessions' \in Seq([token : Nat, revoked : BOOLEAN, lapsed : BOOLEAN])
        /\ DOMAIN sessions' = DOMAIN sessions /\ sessions'[s].revoked
        /\ \A z \in DOMAIN sessions : sessions'[z].token = sessions[z].token
        /\ \A z \in DOMAIN sessions \ {s} : sessions'[z] = sessions[z]
    BY <1>0, <1>1, <1>2, RevokesFacts
  <1>4. /\ requests' \in Seq(Requests) /\ DOMAIN requests' = DOMAIN requests
        /\ requests'[c] = [op |-> requests[c].op, arg |-> requests[c].arg, at |-> to, session |-> requests[c].session,
                           token |-> requests[c].token, answer |-> requests[c].answer]
        /\ \A d \in DOMAIN requests \ {c} : requests'[d] = requests[d]
    <2>1. requests \in Seq(Requests) /\ to \in Underway \cup Finals
      BY <1>0 DEF IdentityTypeOK, Finals
    <2> QED BY <1>1, <2>1, TurnsFacts
  <1>5. /\ requests'[c].at = to
        /\ \A d \in DOMAIN requests :
             /\ requests'[d].op = requests[d].op /\ requests'[d].arg = requests[d].arg
             /\ requests'[d].token = requests[d].token /\ requests'[d].answer = requests[d].answer
             /\ requests'[d].session = requests[d].session
             /\ d # c => requests'[d].at = requests[d].at
    BY <1>4
  <1>6. Tokens' = Tokens
    BY <1>1 DEF Tokens
  <1>7. IdentityTypeOK'
    <2>1. \A d \in DOMAIN requests' :
            /\ requests'[d].arg \in IF requests'[d].op = "complete" THEN Logins ELSE Tokens'
            /\ requests'[d].session \in {0} \cup DOMAIN sessions'
            /\ requests'[d].token \in {NoToken} \cup Tokens'
      BY <1>0, <1>3, <1>4, <1>5, <1>6 DEF IdentityTypeOK
    <2>2. /\ login' \in [Logins -> {"none", "counted", "open", "lapsed", "consumed"}]
          /\ granted' \in Seq([session : Nat, for : Logins \cup Nat]) /\ spent' \subseteq Tokens'
          /\ \A z \in DOMAIN sessions' : sessions'[z].token \in Tokens'
          /\ \A t \in Tokens' : granted'[t].session \in DOMAIN sessions' /\ granted'[t].for \in Logins \cup Tokens'
      BY <1>0, <1>1, <1>3, <1>6 DEF IdentityTypeOK
    <2> QED BY <1>3, <1>4, <2>1, <2>2 DEF IdentityTypeOK
  <1>8. AppTypeOK'
    BY <1>0, <1>6 DEF AppTypeOK, appVars
  <1>9. PhasesFit'
    <2>1. \A d \in DOMAIN requests \ {c} :
            d \in DOMAIN requests /\ requests'[d] = requests[d]
      BY <1>4
    <2>2. requests'[c].at = to /\ DOMAIN requests' = DOMAIN requests /\ DOMAIN sessions' = DOMAIN sessions
      BY <1>3, <1>4, <1>5
    <2>3. to \in {"revoked", "ok"} /\ (to = "revoked" => requests'[c].op = "refresh")
      BY <1>1, <1>5
    <2> QED BY <2>1, <2>2, <2>3 DEF PhasesFit
  <1>10. OneExchange'
    BY <1>1, <1>4, <1>5, <1>6 DEF OneExchange
  <1>11. RowIsLocked'
    <2>1. ASSUME NEW d \in DOMAIN requests', requests'[d].at = "rotating"
          PROVE /\ sessions'[requests'[d].session].token = requests'[d].arg
                /\ ~sessions'[requests'[d].session].revoked
                /\ \A e \in DOMAIN requests' :
                     requests'[e].at = "rotating" /\ requests'[e].session = requests'[d].session => e = d
      <3>1. d \in DOMAIN requests \ {c} /\ requests[d].at = "rotating" /\ requests'[d] = requests[d]
        BY <1>1, <1>4, <1>5, <2>1
      <3>2. requests[d].session \in DOMAIN sessions \ {s}
        BY <1>1, <3>1 DEF Locked, PhasesFit
      <3>3. /\ sessions[requests[d].session].token = requests[d].arg /\ ~sessions[requests[d].session].revoked
            /\ \A e \in DOMAIN requests :
                 requests[e].at = "rotating" /\ requests[e].session = requests[d].session => e = d
        BY <3>1 DEF RowIsLocked
      <3>4. \A e \in DOMAIN requests' : requests'[e].at = "rotating" =>
              /\ e \in DOMAIN requests /\ requests[e].at = "rotating"
              /\ requests'[e].session = requests[e].session
        BY <1>1, <1>4, <1>5
      <3>5. sessions'[requests[d].session] = sessions[requests[d].session]
        BY <1>3, <3>2
      <3> QED BY <3>1, <3>3, <3>4, <3>5
    <2> QED BY <2>1 DEF RowIsLocked
  <1>12. RevokedIsWritten'
    <2>1. ASSUME NEW d \in DOMAIN requests', (requests'[d].at = "revoked" \/ At(d, "logout", "ok")')
          PROVE  requests'[d].session \in DOMAIN sessions' /\ sessions'[requests'[d].session].revoked
      <3>1. CASE d = c
        BY <1>2, <1>3, <1>5, <3>1 DEF s
      <3>2. CASE d # c
        <4>1. requests[d].session \in DOMAIN sessions /\ sessions[requests[d].session].revoked
          BY <1>4, <1>5, <2>1, <3>2 DEF RevokedIsWritten, At
        <4>2. requests'[d].session = requests[d].session
          BY <1>4, <1>5
        <4>3. \A z \in DOMAIN sessions : sessions[z].revoked => z \in DOMAIN sessions' /\ sessions'[z].revoked
          <5>1. ASSUME NEW z \in DOMAIN sessions, sessions[z].revoked, z # s
                PROVE  sessions'[z] = sessions[z]
            BY <1>3, <5>1
          <5> QED BY <1>3, <5>1
        <4> QED BY <4>1, <4>2, <4>3
      <3> QED BY <3>1, <3>2
    <2> QED BY <2>1 DEF RevokedIsWritten, At
  <1>13. RedeemedOnce'
    BY <1>1, <1>3, <1>6, <1>7 DEF RedeemedOnce
  <1>14. NewsIsNew'
    <2>1. \A d \in DOMAIN requests : Issued(d)' <=> Issued(d)
      BY <1>1, <1>5 DEF Issued
    <2> QED BY <1>4, <1>5, <1>6, <2>1 DEF NewsIsNew, appVars
  <1>15. PresentedAgain'
    <2>1. \A d \in DOMAIN requests : requests'[d].op = "refresh" =>
            /\ requests[d].at \in {"denied", "revoked", "dead"} => requests'[d].at \in {"denied", "revoked", "dead"}
            /\ requests[d].at \in Finals => requests'[d].at \in Finals
            /\ requests'[d].at = "ok" => requests[d].at = "ok"
      BY <1>1, <1>5 DEF Finals
    <2> QED BY <1>4, <1>5, <2>1 DEF PresentedAgain, appVars
  <1>16. SpentByRefresh'
    BY <1>1, <1>4, <1>5 DEF SpentByRefresh, At
  <1>17. \A z : AnswerWasLost(z) => AnswerWasLost(z)'
    BY <1>1, <1>4, <1>5 DEF AnswerWasLost
  <1>18. ReplayFollowsLoss'
    BY <1>1, <1>4, <1>5, <1>17 DEF ReplayFollowsLoss
  <1>19. StaysSignedIn'
    <2>1. ASSUME NEW z \in DOMAIN sessions', sessions'[z].revoked
          PROVE  (\E d \in DOMAIN requests : requests[d].op = "logout" /\ requests[d].session = z) \/ AnswerWasLost(z)
      <3>1. CASE z = s
        <4>1. CASE to = "revoked"
          BY <1>1, <3>1, <4>1 DEF ReplayFollowsLoss, s
        <4>2. CASE to = "ok"
          BY <1>1, <3>1, <4>2 DEF s
        <4> QED BY <4>1, <4>2
      <3>2. CASE z # s
        BY <1>3, <2>1, <3>2 DEF StaysSignedIn, AnswerWasLost
      <3> QED BY <3>1, <3>2
    <2>2. ASSUME NEW z \in DOMAIN sessions', sessions'[z].revoked
          PROVE \E d \in DOMAIN requests' :
                   \/ requests'[d].op = "logout" /\ requests'[d].session = z
                   \/ /\ requests'[d].op = "refresh" /\ requests'[d].answer = "lost"
                      /\ granted'[requests'[d].arg].session = z
      <3>1. CASE \E d \in DOMAIN requests : requests[d].op = "logout" /\ requests[d].session = z
        BY <1>4, <1>5, <3>1
      <3>2. CASE AnswerWasLost(z)'
        BY <3>2 DEF AnswerWasLost
      <3> QED BY <1>17, <2>1, <2>2, <3>1, <3>2
    <2> QED BY <1>8, <2>2 DEF StaysSignedIn
  <1> QED BY <1>9, <1>10, <1>11, <1>12, <1>13, <1>14, <1>15, <1>16, <1>18, <1>19

(* A session lapses; a login is begun, or lapses. *)
LEMMA LapseInv ==
  ASSUME AccountsInv, UNCHANGED appVars,
         \/ \E s \in DOMAIN sessions : SessionLapses(s)
         \/ \E l \in Logins : BeginCounts(l) \/ BeginInserts(l) \/ LoginLapses(l)
  PROVE  AccountsInv'
  <1> USE DEF AccountsInv, IdentityInv
  <1>0. IdentityTypeOK /\ AppTypeOK
    BY Zenon DEF RedeemedOnce, StaysSignedIn
  <1>1. /\ UNCHANGED <<spent, granted, requests>> /\ Tokens' = Tokens
        /\ login' \in [Logins -> {"none", "counted", "open", "lapsed", "consumed"}]
        /\ \A l \in Logins : login[l] = "consumed" => login'[l] = "consumed"
    <2>1. CASE \E s \in DOMAIN sessions : SessionLapses(s)
      BY <1>0, <2>1 DEF SessionLapses, IdentityTypeOK, Tokens
    <2>2. ASSUME NEW l \in Logins, NEW from \in {"none", "counted", "open"}, NEW to \in {"counted", "open", "lapsed"},
                 LoginBecomes(l, from, to), UNCHANGED <<spent, granted, requests>>
          PROVE  <1>1!1 /\ <1>1!2 /\ <1>1!3
      BY <1>0, <2>2 DEF LoginBecomes, IdentityTypeOK, Tokens
    <2> QED BY <2>1, <2>2 DEF BeginCounts, BeginInserts, LoginLapses
  <1>2. /\ sessions' \in Seq([token : Nat, revoked : BOOLEAN, lapsed : BOOLEAN])
        /\ DOMAIN sessions' = DOMAIN sessions
        /\ \A z \in DOMAIN sessions : /\ sessions'[z].token = sessions[z].token
                                       /\ sessions'[z].revoked = sessions[z].revoked
    <2>1. CASE \E s \in DOMAIN sessions : SessionLapses(s)
      <3>1. PICK s \in DOMAIN sessions : sessions' = [sessions EXCEPT ![s].lapsed = TRUE]
        BY <2>1 DEF SessionLapses
      <3> DEFINE row == [sessions[s] EXCEPT !.lapsed = TRUE]
      <3>2. sessions[s] \in [token : Nat, revoked : BOOLEAN, lapsed : BOOLEAN]
        BY <1>0, StateFacts
      <3>3. row.token = sessions[s].token /\ row.revoked = sessions[s].revoked
        BY <3>2
      <3>4. sessions'[s] = row /\ \A z \in DOMAIN sessions \ {s} : sessions'[z] = sessions[z]
        BY <3>1
      <3>5. /\ sessions' \in Seq([token : Nat, revoked : BOOLEAN, lapsed : BOOLEAN])
            /\ DOMAIN sessions' = DOMAIN sessions
        BY <1>0, <3>1, RevokesFacts
      <3> HIDE DEF row
      <3> QED BY <3>3, <3>4, <3>5
    <2>2. CASE UNCHANGED sessions
      BY <1>0, <2>2 DEF IdentityTypeOK
    <2> QED BY <2>1, <2>2 DEF BeginCounts, BeginInserts, LoginLapses
  <1>3. IdentityTypeOK'
    BY <1>0, <1>1, <1>2 DEF IdentityTypeOK
  <1>4. AppTypeOK'
    BY <1>0, <1>1 DEF AppTypeOK, appVars
  <1>5. PhasesFit'
    BY <1>1, <1>2 DEF PhasesFit
  <1>6. OneExchange'
    <2>1. \A d \in DOMAIN requests : requests[d].at = "exchanging" => requests[d].arg \in Logins
      BY <1>0 DEF IdentityTypeOK, PhasesFit
    <2> QED BY <1>1, <2>1 DEF OneExchange
  <1>7. RowIsLocked'
    BY <1>1, <1>2 DEF RowIsLocked, PhasesFit
  <1>8. RevokedIsWritten'
    BY <1>1, <1>2 DEF RevokedIsWritten, At
  <1>9. RedeemedOnce'
    BY <1>1, <1>2, <1>3 DEF RedeemedOnce
  <1>10. NewsIsNew' /\ PresentedAgain' /\ SpentByRefresh' /\ ReplayFollowsLoss'
    BY <1>1 DEF NewsIsNew, Issued, PresentedAgain, SpentByRefresh, At, ReplayFollowsLoss, AnswerWasLost, appVars
  <1>11. StaysSignedIn'
    BY <1>1, <1>2, <1>4 DEF StaysSignedIn
  <1> QED BY <1>5, <1>6, <1>7, <1>8, <1>9, <1>10, <1>11

-----------------------------------------------------------------------------
(* The client sends a request; a refresh with the token it has saved, when *)
(* no other refresh is awaited.                                            *)
LEMMA SendInv ==
  ASSUME AccountsInv, ServiceStays, UNCHANGED appVars,
         NEW op \in {"complete", "refresh", "logout"}, NEW arg, NEW at \in {"sent", "found"}, NEW s,
         Sends(Call(op, arg, at, s)),
         arg \in IF op = "complete" THEN Logins ELSE Tokens,
         IF at = "sent" THEN s = 0 ELSE op = "logout" /\ s \in DOMAIN sessions,
         op = "refresh" => arg = keychain /\ ~Awaits("refresh")
  PROVE  AccountsInv'
  <1> USE DEF AccountsInv, IdentityInv
  <1>0. IdentityTypeOK /\ AppTypeOK
    BY Zenon DEF RedeemedOnce, StaysSignedIn
  <1> DEFINE n == Len(requests) + 1
             call == Call(op, arg, at, s)
  <1>1. /\ call.op = op /\ call.arg = arg /\ call.at = at /\ call.session = s
        /\ call.token = NoToken /\ call.answer = "awaited"
    BY DEF Call
  <1>2. call \in Requests
    <2>1. arg \in Logins \cup Nat /\ s \in Nat
      BY <1>0, StateFacts DEF Tokens
    <2> QED BY <2>1 DEF Call, Requests, Underway, NoToken
  <1> HIDE DEF call
  <1>3. /\ requests' \in Seq(Requests) /\ DOMAIN requests' = DOMAIN requests \cup {n} /\ n \notin DOMAIN requests
        /\ requests'[n] = call /\ \A d \in DOMAIN requests : requests'[d] = requests[d]
        /\ n \in Nat /\ \A d \in DOMAIN requests : d \in Nat /\ d < n
    <2>1. requests \in Seq(Requests) /\ Sends(call)
      BY <1>0 DEF IdentityTypeOK, call
    <2>2. /\ requests' \in Seq(Requests) /\ DOMAIN requests' = DOMAIN requests \cup {n} /\ n \notin DOMAIN requests
          /\ DOMAIN requests = 1..Len(requests) /\ Len(requests) \in Nat
          /\ requests'[n] = call /\ \A d \in DOMAIN requests : requests'[d] = requests[d]
      BY <1>2, <2>1, SendsFacts
    <2>3. \A d \in DOMAIN requests : d \in Nat /\ d < n
      BY <2>2
    <2> QED BY <2>2, <2>3
  <1> HIDE DEF n
  <1>4. Tokens' = Tokens /\ UNCHANGED <<login, sessions, spent, granted, keychain, fresh, authenticated, signingIn, wanted>>
    BY DEF Tokens, ServiceStays, appVars
  <1>5. IdentityTypeOK'
    <2>1. ASSUME NEW d \in DOMAIN requests'
          PROVE  /\ requests'[d].arg \in IF requests'[d].op = "complete" THEN Logins ELSE Tokens
                 /\ requests'[d].session \in {0} \cup DOMAIN sessions
                 /\ requests'[d].token \in {NoToken} \cup Tokens
      <3>1. CASE d = n
        BY <1>1, <1>3, <3>1
      <3>2. CASE d # n
        BY <1>0, <1>3, <3>2 DEF IdentityTypeOK
      <3> QED BY <3>1, <3>2
    <2> QED BY <1>0, <1>3, <1>4, <2>1 DEF IdentityTypeOK
  <1>6. AppTypeOK'
    BY <1>0, <1>4 DEF AppTypeOK
  <1>7. PhasesFit'
    <2>1. ASSUME NEW d \in DOMAIN requests'
          PROVE  /\ requests'[d].at \in {"checked", "exchanging"} => requests'[d].op = "complete"
                 /\ requests'[d].at \in {"selecting", "replayed", "rotating", "revoked"} => requests'[d].op = "refresh"
                 /\ requests'[d].at = "found" => requests'[d].op = "logout"
                 /\ requests'[d].at \in {"replayed", "rotating", "found"} => requests'[d].session \in DOMAIN sessions
                 /\ requests'[d].at = "sent" => requests'[d].session = 0
      <3>1. CASE d = n
        BY <1>1, <1>3, <3>1
      <3>2. CASE d # n
        BY <1>3, <3>2 DEF PhasesFit
      <3> QED BY <3>1, <3>2
    <2> QED BY <1>4, <2>1 DEF PhasesFit
  <1>8. /\ \A d \in DOMAIN requests' : requests'[d].at \in {"exchanging", "rotating", "replayed", "revoked", "ok"} =>
              d \in DOMAIN requests /\ requests'[d] = requests[d]
        /\ \A d \in DOMAIN requests' : requests'[d].answer \in {"seen", "lost"} =>
              d \in DOMAIN requests /\ requests'[d] = requests[d]
    BY <1>1, <1>3
  <1>9. OneExchange'
    BY <1>4, <1>8 DEF OneExchange
  <1>10. RowIsLocked'
    BY <1>4, <1>8 DEF RowIsLocked
  <1>11. RevokedIsWritten'
    BY <1>4, <1>8 DEF RevokedIsWritten, At
  <1>12. RedeemedOnce'
    BY <1>4, <1>5 DEF RedeemedOnce
  <1>13. NewsIsNew'
    <2>1. ASSUME NEW d \in DOMAIN requests', Issued(d)'
          PROVE  d \in DOMAIN requests /\ requests'[d] = requests[d] /\ Issued(d)
      BY <1>8, <2>1 DEF Issued
    <2>2. ASSUME NEW d \in DOMAIN requests', Issued(d)', requests'[d].answer = "awaited",
                 NEW e \in DOMAIN requests', requests'[e].op = "refresh"
          PROVE  requests'[e].arg # requests'[d].token
      <3>1. d \in DOMAIN requests /\ requests'[d] = requests[d] /\ Issued(d)
        BY <2>1, <2>2
      <3>2. CASE e = n
        BY <1>1, <1>3, <2>2, <3>1, <3>2 DEF NewsIsNew
      <3>3. CASE e # n
        BY <1>3, <2>2, <3>1, <3>3 DEF NewsIsNew
      <3> QED BY <3>2, <3>3
    <2>3. ASSUME NEW d \in DOMAIN requests', Issued(d)'
          PROVE  /\ requests'[d].token \in Tokens
                 /\ \A e \in DOMAIN requests' : Issued(e)' /\ requests'[e].token = requests'[d].token => e = d
                 /\ requests'[d].answer = "awaited" => keychain # requests'[d].token
      BY <2>1, <2>3 DEF NewsIsNew
    <2> QED BY <1>4, <2>2, <2>3 DEF NewsIsNew, Issued
  <1>14. PresentedAgain'
    <2>1. ASSUME NEW d \in DOMAIN requests', requests'[d].op = "refresh", requests'[d].answer = "seen"
          PROVE  requests'[d].at \in Finals /\ (requests'[d].at = "ok" => keychain # requests'[d].arg)
      BY <1>8, <2>1 DEF PresentedAgain
    <2>2. ASSUME NEW d \in DOMAIN requests', NEW e \in DOMAIN requests', requests'[d].op = "refresh",
                 requests'[e].op = "refresh", requests'[e].arg = requests'[d].arg, d < e
          PROVE  requests'[d].answer = "lost" \/ requests'[d].at \in {"denied", "revoked", "dead"}
      <3>1. d \in DOMAIN requests /\ requests'[d] = requests[d]
        BY <1>3, <2>2
      <3>2. CASE e = n
        <4>1. op = "refresh" /\ requests[d].op = "refresh" /\ requests[d].arg = keychain
          BY <1>1, <1>3, <2>2, <3>1, <3>2
        <4>2. requests[d].answer \in {"seen", "lost"}
          <5>1. requests[d].answer # "awaited"
            BY <3>1, <4>1 DEF Awaits
          <5> QED BY <1>0, <3>1, <5>1, StateFacts DEF Requests
        <4> QED BY <3>1, <4>1, <4>2 DEF PresentedAgain, Finals
      <3>3. CASE e # n
        BY <1>3, <2>2, <3>1, <3>3 DEF PresentedAgain
      <3> QED BY <3>2, <3>3
    <2> QED BY <1>4, <2>1, <2>2 DEF PresentedAgain
  <1>15. SpentByRefresh'
    BY <1>3, <1>4 DEF SpentByRefresh, At
  <1>16. \A z : AnswerWasLost(z) => AnswerWasLost(z)'
    BY <1>3, <1>4 DEF AnswerWasLost
  <1>17. ReplayFollowsLoss'
    BY <1>8, <1>16 DEF ReplayFollowsLoss
  <1>18. StaysSignedIn'
    BY <1>3, <1>4, <1>6 DEF StaysSignedIn
  <1> QED BY <1>7, <1>9, <1>10, <1>11, <1>12, <1>13, <1>14, <1>15, <1>17, <1>18

(* The client has an answer, or gives up on it: what it saves from now on  *)
(* is what it had, nothing, or the token the answer brought.               *)
LEMMA AnswerInv ==
  ASSUME AccountsInv, ServiceStays, AppTypeOK',
         NEW c \in DOMAIN requests, requests[c].answer = "awaited",
         NEW becomes \in {"seen", "lost"}, Answer(c, becomes),
         becomes = "seen" => requests[c].at \in Finals,
         \/ keychain' \in {keychain, NoToken}
         \/ keychain' = requests[c].token /\ Issued(c),
         requests[c].op = "refresh" /\ becomes = "seen" /\ requests[c].at = "ok" => keychain' = requests[c].token
  PROVE  AccountsInv'
  <1> USE DEF AccountsInv, IdentityInv
  <1>0. IdentityTypeOK /\ AppTypeOK
    BY Zenon DEF RedeemedOnce, StaysSignedIn
  <1>1. /\ requests' \in Seq(Requests) /\ DOMAIN requests' = DOMAIN requests
        /\ requests'[c] = [op |-> requests[c].op, arg |-> requests[c].arg, at |-> requests[c].at,
                           session |-> requests[c].session, token |-> requests[c].token, answer |-> becomes]
        /\ \A d \in DOMAIN requests \ {c} : requests'[d] = requests[d]
    <2>1. requests \in Seq(Requests) /\ becomes \in {"awaited", "seen", "lost"}
      BY <1>0 DEF IdentityTypeOK
    <2> QED BY <2>1, AnswerFacts
  <1>2. /\ requests'[c].answer = becomes
        /\ \A d \in DOMAIN requests :
             /\ requests'[d].op = requests[d].op /\ requests'[d].arg = requests[d].arg
             /\ requests'[d].at = requests[d].at /\ requests'[d].session = requests[d].session
             /\ requests'[d].token = requests[d].token
             /\ d # c => requests'[d].answer = requests[d].answer
    BY <1>1
  <1>3. Tokens' = Tokens /\ UNCHANGED <<login, sessions, spent, granted>>
    BY DEF Tokens, ServiceStays
  <1>4. IdentityTypeOK'
    <2>1. \A d \in DOMAIN requests' :
            /\ requests'[d].arg \in IF requests'[d].op = "complete" THEN Logins ELSE Tokens'
            /\ requests'[d].session \in {0} \cup DOMAIN sessions'
            /\ requests'[d].token \in {NoToken} \cup Tokens'
      <3>1. \A d \in DOMAIN requests :
              /\ requests[d].arg \in IF requests[d].op = "complete" THEN Logins ELSE Tokens
              /\ requests[d].session \in {0} \cup DOMAIN sessions
              /\ requests[d].token \in {NoToken} \cup Tokens
        BY <1>0 DEF IdentityTypeOK
      <3> QED BY <1>1, <1>2, <1>3, <3>1
    <2>2. /\ login' \in [Logins -> {"none", "counted", "open", "lapsed", "consumed"}]
          /\ sessions' \in Seq([token : Nat, revoked : BOOLEAN, lapsed : BOOLEAN])
          /\ granted' \in Seq([session : Nat, for : Logins \cup Nat]) /\ spent' \subseteq Tokens'
          /\ \A z \in DOMAIN sessions' : sessions'[z].token \in Tokens'
          /\ \A t \in Tokens' : granted'[t].session \in DOMAIN sessions' /\ granted'[t].for \in Logins \cup Tokens'
      BY <1>0, <1>3 DEF IdentityTypeOK
    <2> QED BY <1>1, <2>1, <2>2 DEF IdentityTypeOK
  <1>5. PhasesFit' /\ OneExchange' /\ RowIsLocked' /\ RevokedIsWritten'
    BY <1>1, <1>2, <1>3 DEF PhasesFit, OneExchange, RowIsLocked, RevokedIsWritten, At
  <1>6. RedeemedOnce'
    BY <1>3, <1>4 DEF RedeemedOnce
  <1>7. \A t \in Tokens : t # NoToken
    BY <1>0, StateFacts DEF Tokens, NoToken
  <1>8. NewsIsNew'
    <2>1. \A d \in DOMAIN requests : Issued(d)' <=> Issued(d)
      BY <1>2 DEF Issued
    <2>2. ASSUME NEW d \in DOMAIN requests, Issued(d), requests'[d].answer = "awaited"
          PROVE  keychain' # requests[d].token
      <3>1. d # c /\ requests[d].answer = "awaited" /\ requests[d].token \in Tokens /\ keychain # requests[d].token
        BY <1>2, <2>2 DEF NewsIsNew
      <3>2. CASE keychain' \in {keychain, NoToken}
        BY <1>7, <3>1, <3>2
      <3>3. CASE keychain' = requests[c].token /\ Issued(c)
        BY <2>2, <3>1, <3>3 DEF NewsIsNew
      <3> QED BY <3>2, <3>3
    <2>3. \A d \in DOMAIN requests : requests'[d].answer = "awaited" => requests[d].answer = "awaited"
      BY <1>2
    <2> QED BY <1>1, <1>2, <1>3, <2>1, <2>2, <2>3 DEF NewsIsNew
  <1>9. PresentedAgain'
    <2>1. ASSUME NEW d \in DOMAIN requests, requests[d].op = "refresh", requests'[d].answer = "seen"
          PROVE  requests[d].at \in Finals /\ (requests[d].at = "ok" => keychain' # requests[d].arg)
      <3>1. CASE d = c
        BY <1>2, <2>1, <3>1 DEF NewsIsNew, Issued
      <3>2. CASE d # c
        <4>1. requests[d].at \in Finals /\ (requests[d].at = "ok" => keychain # requests[d].arg)
          BY <1>2, <2>1, <3>2 DEF PresentedAgain
        <4>2. requests[d].arg \in Tokens
          BY <1>0, <2>1 DEF IdentityTypeOK
        <4>3. keychain' # requests[d].arg \/ keychain' = keychain
          BY <1>7, <2>1, <4>2 DEF NewsIsNew
        <4> QED BY <4>1, <4>3
      <3> QED BY <3>1, <3>2
    <2>2. ASSUME NEW d \in DOMAIN requests, NEW e \in DOMAIN requests, requests[d].op = "refresh",
                 requests[e].op = "refresh", requests[e].arg = requests[d].arg, d < e
          PROVE  requests'[d].answer = "lost" \/ requests[d].at \in {"denied", "revoked", "dead"}
      <3>1. requests[d].answer = "lost" \/ requests[d].at \in {"denied", "revoked", "dead"}
        BY <2>2 DEF PresentedAgain
      <3> QED BY <1>2, <3>1
    <2> QED BY <1>1, <1>2, <2>1, <2>2 DEF PresentedAgain
  <1>10. SpentByRefresh'
    BY <1>1, <1>2, <1>3 DEF SpentByRefresh, At
  <1>11. \A z : AnswerWasLost(z) => AnswerWasLost(z)'
    BY <1>1, <1>2, <1>3 DEF AnswerWasLost
  <1>12. ReplayFollowsLoss'
    BY <1>1, <1>2, <1>11 DEF ReplayFollowsLoss
  <1>13. StaysSignedIn'
    <2>1. ASSUME NEW z \in DOMAIN sessions', sessions'[z].revoked
          PROVE \E d \in DOMAIN requests' :
                   \/ requests'[d].op = "logout" /\ requests'[d].session = z
                   \/ /\ requests'[d].op = "refresh" /\ requests'[d].answer = "lost"
                      /\ granted'[requests'[d].arg].session = z
      <3>1. (\E d \in DOMAIN requests : requests[d].op = "logout" /\ requests[d].session = z) \/ AnswerWasLost(z)
        BY <1>3, <2>1 DEF StaysSignedIn, AnswerWasLost
      <3>2. CASE \E d \in DOMAIN requests : requests[d].op = "logout" /\ requests[d].session = z
        BY <1>1, <1>2, <3>2
      <3>3. CASE AnswerWasLost(z)'
        BY <3>3 DEF AnswerWasLost
      <3> QED BY <1>11, <3>1, <3>2, <3>3
    <2> QED BY <2>1 DEF StaysSignedIn
  <1> QED BY <1>5, <1>6, <1>8, <1>9, <1>10, <1>12, <1>13

(* The client's own affairs: what it has saved and asked stays. *)
LEMMA OwnInv ==
  ASSUME AccountsInv, AppTypeOK', UNCHANGED <<identityVars, keychain>>
  PROVE  AccountsInv'
  <1> USE DEF AccountsInv, IdentityInv
  <1>1. UNCHANGED <<login, sessions, spent, granted, requests, keychain>> /\ Tokens' = Tokens
    BY DEF identityVars, Tokens
  <1>2. IdentityTypeOK' /\ PhasesFit' /\ OneExchange' /\ RowIsLocked' /\ RevokedIsWritten'
    BY <1>1 DEF RedeemedOnce, IdentityTypeOK, PhasesFit, OneExchange, RowIsLocked, RevokedIsWritten, At
  <1>3. RedeemedOnce'
    BY <1>1, <1>2 DEF RedeemedOnce
  <1>4. NewsIsNew' /\ PresentedAgain' /\ SpentByRefresh' /\ ReplayFollowsLoss'
    BY <1>1 DEF NewsIsNew, Issued, PresentedAgain, SpentByRefresh, At, ReplayFollowsLoss, AnswerWasLost
  <1>5. StaysSignedIn'
    BY <1>1 DEF StaysSignedIn
  <1> QED BY <1>2, <1>3, <1>4, <1>5

(* Every step of the client preserves the invariant. *)
LEMMA AppStepInv ==
  ASSUME AccountsInv, AppStep
  PROVE  AccountsInv'
  <1>0. IdentityTypeOK /\ AppTypeOK
    BY DEF AccountsInv, IdentityInv, RedeemedOnce, StaysSignedIn
  <1>1. Cardinality({}) <= 1 /\ \A l \in Logins : Cardinality({l}) <= 1
    <2>1. Cardinality({}) = 0 /\ \A l \in Logins : Cardinality({l}) = 1
      BY FS_EmptySet, FS_Singleton, Zenon
    <2> QED BY <2>1
  <1>2. ServiceStays \/ UNCHANGED identityVars => Tokens' = Tokens
    BY DEF Tokens, ServiceStays, identityVars
  <1>3. ASSUME NEW l \in Logins, LoginStarts(l)
        PROVE  AccountsInv'
    <2>1. AppTypeOK'
      BY <1>0, <1>1, <1>2, <1>3 DEF LoginStarts, AppTypeOK
    <2> QED BY <1>3, <2>1, OwnInv DEF LoginStarts
  <1>4. CASE CancelLogin \/ LoginFails \/ AccessExpires
    <2>1. AppTypeOK'
      BY <1>0, <1>1, <1>2, <1>4 DEF CancelLogin, LoginFails, AccessExpires, AppTypeOK
    <2> QED BY <1>4, <2>1, OwnInv DEF CancelLogin, LoginFails, AccessExpires
  <1>5. CASE CodePosted
    <2>1. PICK l \in Logins : Sends(Call("complete", l, "sent", 0))
      BY <1>0, <1>5 DEF CodePosted, AppTypeOK
    <2> QED BY <1>5, <2>1, SendInv DEF CodePosted
  <1>6. CASE RestoreStarts
    <2>1. keychain \in Tokens
      BY <1>0, <1>6 DEF RestoreStarts, AppTypeOK
    <2> QED BY <1>6, <2>1, SendInv DEF RestoreStarts
  <1>7. CASE LogoutStarts
    <2>1. keychain \in Tokens
      BY <1>0, <1>7 DEF LogoutStarts, AppTypeOK
    <2> QED BY <1>7, <2>1, SendInv DEF LogoutStarts
  <1>8. ASSUME NEW s \in DOMAIN sessions, LogoutByVoice(s)
        PROVE  AccountsInv'
    <2>1. sessions[s].token \in Tokens
      BY <1>0 DEF IdentityTypeOK
    <2> QED BY <1>8, <2>1, SendInv DEF LogoutByVoice
  <1>9. ASSUME NEW c \in DOMAIN requests,
               LoginAnswered(c) \/ RestoreAnswered(c) \/ LogoutAnswered(c) \/ AnswerLost(c)
        PROVE  AccountsInv'
    <2>1. requests[c].answer = "awaited" /\ ServiceStays
      BY <1>9 DEF LoginAnswered, RestoreAnswered, LogoutAnswered, AnswerLost, Finished
    <2>2. requests[c].token \in {NoToken} \cup Tokens /\ requests[c].op \in {"complete", "refresh", "logout"}
      BY <1>0, StateFacts DEF IdentityTypeOK, Requests
    <2>3. CASE LoginAnswered(c)
      <3>1. AppTypeOK'
        BY <1>0, <1>1, <1>2, <2>1, <2>2, <2>3 DEF LoginAnswered, Accept, AppTypeOK
      <3>2. PICK becomes \in {"seen", "lost"} : Answer(c, becomes)
        BY <2>3 DEF LoginAnswered
      <3>3. /\ requests[c].at \in Finals /\ requests[c].op = "complete"
            /\ keychain' = keychain \/ (keychain' = requests[c].token /\ Issued(c))
        BY <2>3 DEF LoginAnswered, Finished, Accept, Issued
      <3> QED BY <2>1, <3>1, <3>2, <3>3, AnswerInv
    <2>4. CASE RestoreAnswered(c)
      <3>1. AppTypeOK'
        BY <1>0, <1>1, <1>2, <2>1, <2>2, <2>4 DEF RestoreAnswered, Accept, AppTypeOK
      <3>2. /\ requests[c].at \in Finals /\ requests[c].op = "refresh" /\ Answer(c, "seen")
            /\ IF requests[c].at = "ok" THEN keychain' = requests[c].token /\ Issued(c) ELSE keychain' = keychain
        BY <2>4 DEF RestoreAnswered, Finished, Accept, Issued
      <3> QED BY <2>1, <3>1, <3>2, AnswerInv
    <2>5. CASE LogoutAnswered(c)
      <3>1. AppTypeOK'
        BY <1>0, <1>1, <1>2, <2>1, <2>2, <2>5 DEF LogoutAnswered, Cleared, AppTypeOK
      <3>2. /\ requests[c].at \in Finals /\ requests[c].op = "logout" /\ Answer(c, "seen")
            /\ keychain' \in {keychain, NoToken}
        BY <2>5 DEF LogoutAnswered, Finished, Cleared
      <3> QED BY <2>1, <3>1, <3>2, AnswerInv
    <2>6. CASE AnswerLost(c)
      <3>1. AppTypeOK'
        BY <1>0, <1>1, <1>2, <2>1, <2>2, <2>6 DEF AnswerLost, AppTypeOK
      <3>2. Answer(c, "lost") /\ keychain' \in {keychain, NoToken}
        BY <2>6 DEF AnswerLost
      <3> QED BY <2>1, <3>1, <3>2, AnswerInv
    <2> QED BY <1>9, <2>3, <2>4, <2>5, <2>6
  <1> QED BY <1>3, <1>4, <1>5, <1>6, <1>7, <1>8, <1>9 DEF AppStep

(* Every step of the two, and in the beginning nothing has happened. *)
LEMMA AccountsNextInv ==
  ASSUME AccountsInv, [AccountsNext]_<<identityVars, appVars>>
  PROVE  AccountsInv'
  <1>1. CASE UNCHANGED <<identityVars, appVars>>
    <2>1. AppTypeOK'
      BY <1>1 DEF AccountsInv, StaysSignedIn, AppTypeOK, Tokens, identityVars, appVars
    <2> QED BY <1>1, <2>1, OwnInv DEF appVars
  <1>2. CASE AppStep
    BY <1>2, AppStepInv
  <1>3. CASE ServiceStep /\ UNCHANGED appVars
    BY <1>3, LapseInv, CompleteInv, OpenSessionInv, FailsInv, LookUpInv, RevokeInv, FindInv, RotateTokenInv
       DEF ServiceStep
  <1> QED BY <1>1, <1>2, <1>3 DEF AccountsNext

LEMMA AccountsInitInv == AccountsInit => AccountsInv
  <1> SUFFICES ASSUME AccountsInit PROVE AccountsInv
    OBVIOUS
  <1>1. /\ login = [l \in Logins |-> "none"] /\ sessions = <<>> /\ spent = {} /\ granted = <<>> /\ requests = <<>>
        /\ keychain = NoToken /\ fresh = FALSE /\ authenticated = FALSE /\ signingIn = {} /\ wanted = FALSE
    BY DEF AccountsInit, IdentityInit, AppInit
  <1>2. Tokens = {} /\ DOMAIN sessions = {} /\ DOMAIN requests = {}
    BY <1>1 DEF Tokens
  <1>3. IdentityTypeOK
    BY <1>1, <1>2 DEF IdentityTypeOK
  <1>4. AppTypeOK
    <2>1. Cardinality({}) = 0
      BY FS_EmptySet, Zenon
    <2>2. signingIn \subseteq Logins /\ Cardinality(signingIn) <= 1
      <3>1. Cardinality(signingIn) = 0
        BY <1>1, <2>1, Zenon
      <3> QED BY <1>1, <3>1
    <2> QED BY <1>1, <2>2, Zenon DEF AppTypeOK
  <1>5. RedeemedOnce
    BY <1>1, <1>2, <1>3 DEF RedeemedOnce
  <1>6. PhasesFit /\ OneExchange /\ RowIsLocked /\ RevokedIsWritten
    BY <1>2 DEF PhasesFit, OneExchange, RowIsLocked, RevokedIsWritten
  <1>7. NewsIsNew /\ PresentedAgain /\ SpentByRefresh /\ ReplayFollowsLoss /\ StaysSignedIn
    BY <1>1, <1>2, <1>4 DEF NewsIsNew, PresentedAgain, SpentByRefresh, ReplayFollowsLoss, StaysSignedIn
  <1> QED BY <1>5, <1>6, <1>7 DEF AccountsInv, IdentityInv

-----------------------------------------------------------------------------
(* What a request of the service and the client know at each step, for any *)
(* logins and any number of requests: of those who found a login open one  *)
(* exchanges it, a rotation has its row, and a token on its way to the     *)
(* client was never presented (IdentityService.java, AccountSession.swift). *)
THEOREM AccountsInvariant == AccountsSpec => []AccountsInv
  <1> QED BY AccountsInitInv, AccountsNextInv, PTL DEF AccountsSpec

(* A login gives one session, a refresh token one successor, and a session *)
(* has the token issued last, however requests overlap and fail            *)
(* (IdentityService.java 23-42).                                           *)
THEOREM TokensAreRedeemedOnce == AccountsSpec => []RedeemedOnce
  <1>1. AccountsInv => RedeemedOnce
    BY DEF AccountsInv, IdentityInv
  <1> QED BY <1>1, AccountsInvariant, PTL

(* After a logout, or the refusal of a replay, was answered, no token of   *)
(* the session works, whichever renewal was under way                      *)
(* (IdentityService.java 35, 47-52).                                       *)
THEOREM RevocationIsFinal == AccountsSpec => []RevokedForGood
  <1>1. ASSUME AccountsInv PROVE RevokedForGood
    <2>1. ASSUME NEW c \in DOMAIN requests, requests[c].at = "revoked" \/ At(c, "logout", "ok"),
                 NEW t \in Tokens, granted[t].session = requests[c].session, Introspects(t)
          PROVE  FALSE
      <3>1. PICK s \in DOMAIN sessions : sessions[s].token = t /\ Active(s)
        BY <2>1 DEF Introspects
      <3>2. s = requests[c].session
        BY <1>1, <2>1, <3>1 DEF AccountsInv, IdentityInv, RedeemedOnce
      <3> QED BY <1>1, <2>1, <3>1, <3>2 DEF AccountsInv, IdentityInv, RevokedIsWritten, Active
    <2> QED BY <2>1 DEF RevokedForGood
  <1> QED BY <1>1, AccountsInvariant, PTL

(* The client is signed out by a logout only, unless the answer of a       *)
(* renewal was lost on its way (AccountSession.swift 57-65,                *)
(* IdentityService.java 35).                                               *)
THEOREM ClientStaysSignedIn == AccountsSpec => []StaysSignedIn
  <1>1. AccountsInv => StaysSignedIn
    BY DEF AccountsInv
  <1> QED BY <1>1, AccountsInvariant, PTL

-----------------------------------------------------------------------------
(* The profile service.                                                    *)

(* Versions are natural numbers, the first of them 1. *)
LEMMA VersionsAreNats ==
  /\ Versions \subseteq Nat \ {0} /\ 1 \in Versions
  /\ Cardinality(OperationKeys) \in Nat
  BY ProfileAssumption, FS_CardinalityType DEF Versions

(* The initial state satisfies the inductive invariant. *)
LEMMA ProfileInitInv == ProfileInit => ProfileInv
  <1> SUFFICES ASSUME ProfileInit PROVE ProfileInv
    OBVIOUS
  <1> USE DEF ProfileInit
  <1>1. ProfileTypeOK
    BY VersionsAreNats DEF ProfileTypeOK, Profiles, Result
  <1>2. profile.version = 1 + Cardinality(DOMAIN operations)
    BY FS_EmptySet DEF Result
  <1>3. \A u \in Updates : update[u].at = "none"
    BY DEF NotYet
  <1> QED BY <1>1, <1>2, <1>3 DEF ProfileInv, OneHasTheRow, ReadIsCurrent, NothingIsLater, UpdatedInOrder

(* The steps that leave profile and ledger as they are: one update asks,   *)
(* reads under the lock, fails, or is answered from the ledger.            *)
LEMMA LedgerStaysInv ==
  ASSUME ProfileInv, UNCHANGED <<profile, operations>>, NEW u \in Updates,
         NEW new \in UpdateRecords,
         update' = [update EXCEPT ![u] = new],
         new.at = "locked" => new.result = profile /\ \A v \in Updates : update[v].at # "locked",
         new.at = "answered" => /\ new.key \in DOMAIN operations
                                /\ new.result = operations[new.key].result
                                /\ new.payload = operations[new.key].hash
  PROVE  ProfileInv'
  <1> USE DEF ProfileInv
  <1>1. update'[u] = new /\ \A v \in Updates \ {u} : update'[v] = update[v]
    BY DEF UpdatedInOrder, ProfileTypeOK, UpdateRecords
  <1>2. ProfileTypeOK'
    BY DEF UpdatedInOrder, ProfileTypeOK, UpdateRecords
  <1>3. OneHasTheRow' /\ ReadIsCurrent'
    BY <1>1 DEF OneHasTheRow, ReadIsCurrent
  <1>4. NothingIsLater' /\ UpdatedInOrder'
    BY <1>1, <1>2 DEF NothingIsLater, UpdatedInOrder
  <1> QED BY <1>3, <1>4

(* The write: the next version of what was read, which is still the        *)
(* profile, and a key the ledger did not have.                             *)
LEMMA WriteInv ==
  ASSUME ProfileInv, NEW u \in Updates, WriteProfile(u),
         update[u].result.version = update[u].payload.expected
  PROVE  ProfileInv'
  <1> DEFINE k == update[u].key
             written == Result(update[u].result.version + 1, k)
             entry == [hash |-> update[u].payload, result |-> written]
             new == [update[u] EXCEPT !.at = "answered", !.result = written]
  <1> USE DEF ProfileInv
  <1>1. /\ update[u].at = "locked" /\ k \in OperationKeys /\ k \notin DOMAIN operations
        /\ update[u].payload \in Payloads /\ update[u].result = profile
        /\ profile \in Profiles /\ profile.version \in Nat
    BY VersionsAreNats DEF WriteProfile, ReadIsCurrent, UpdatedInOrder, ProfileTypeOK, NotYet, UpdateRecords, Profiles
  <1>2. /\ profile' = written
        /\ operations' = [i \in DOMAIN operations \cup {k} |-> IF i = k THEN entry ELSE operations[i]]
        /\ update' = [update EXCEPT ![u] = new]
    BY DEF WriteProfile, Becomes, UpdatedInOrder, ProfileTypeOK
  <1>3. /\ IsFiniteSet(DOMAIN operations)
        /\ Cardinality(DOMAIN operations \cup {k}) = Cardinality(DOMAIN operations) + 1
        /\ Cardinality(DOMAIN operations \cup {k}) <= Cardinality(OperationKeys)
    BY <1>1, ProfileAssumption, FS_Subset, FS_AddElement DEF UpdatedInOrder, ProfileTypeOK
  <1>4. written.version = profile.version + 1 /\ written.by = k /\ written \in Profiles
    BY <1>1, <1>3, VersionsAreNats, FS_CardinalityType DEF Result, Profiles, Versions, UpdatedInOrder
  <1>5. /\ update'[u] = new /\ new.at = "answered" /\ new.key = k /\ new.result = written
        /\ new.payload = update[u].payload
        /\ \A v \in Updates \ {u} : update'[v] = update[v] /\ update[v].at # "locked"
    <2>1. update[u] \in UpdateRecords
      BY <1>1 DEF UpdatedInOrder, ProfileTypeOK, NotYet
    <2>2. update'[u] = new /\ \A v \in Updates \ {u} : update'[v] = update[v]
      BY <1>2 DEF UpdatedInOrder, ProfileTypeOK
    <2> QED BY <1>1, <2>1, <2>2 DEF OneHasTheRow, UpdateRecords
  <1>6. /\ DOMAIN operations' = DOMAIN operations \cup {k}
        /\ operations'[k] = entry
        /\ \A i \in DOMAIN operations : operations'[i] = operations[i]
    BY <1>1, <1>2
  <1>7. entry \in [hash : Payloads, result : Profiles]
    BY <1>1, <1>4
  <1>8. ProfileTypeOK'
    <2>1. new \in UpdateRecords
      <3>1. update[u] \in UpdateRecords
        BY <1>1 DEF UpdatedInOrder, ProfileTypeOK, NotYet
      <3> HIDE DEF written
      <3> QED BY <1>4, <3>1 DEF UpdateRecords
    <2>2. operations' \in [DOMAIN operations' -> [hash : Payloads, result : Profiles]]
      BY <1>2, <1>6, <1>7 DEF UpdatedInOrder, ProfileTypeOK
    <2> HIDE DEF new, written, entry
    <2> QED BY <1>1, <1>2, <1>4, <1>6, <2>1, <2>2 DEF UpdatedInOrder, ProfileTypeOK
  <1> HIDE DEF written, entry, new, k
  <1>9. OneHasTheRow' /\ ReadIsCurrent'
    BY <1>5 DEF OneHasTheRow, ReadIsCurrent
  <1>10. \A i \in DOMAIN operations : /\ operations[i].result.version \in Nat
                                      /\ operations'[i].result.version < profile'.version
    BY <1>1, <1>2, <1>4, <1>6, VersionsAreNats DEF NothingIsLater, UpdatedInOrder, ProfileTypeOK, Profiles
  <1>11. NothingIsLater'
    BY <1>1, <1>2, <1>4, <1>6, <1>10 DEF NothingIsLater, entry
  <1>12. UpdatedInOrder'
    <2>1. profile'.version = 1 + Cardinality(DOMAIN operations')
      BY <1>1, <1>2, <1>3, <1>4, <1>6, FS_CardinalityType DEF UpdatedInOrder
    <2>2. ASSUME NEW i \in DOMAIN operations'
          PROVE  /\ operations'[i].result = Result(operations'[i].hash.expected + 1, i)
                 /\ operations'[i].result.version = profile'.version => profile'.by = i
                 /\ \A l \in DOMAIN operations' :
                      operations'[i].result.version = operations'[l].result.version => i = l
      <3>1. operations'[k].result.version = profile'.version
        BY <1>2, <1>6 DEF entry
      <3>2. CASE i = k
        BY <1>1, <1>2, <1>4, <1>6, <1>10, <3>1, <3>2 DEF entry, written
      <3>3. CASE i \in DOMAIN operations
        BY <1>1, <1>2, <1>4, <1>6, <1>10, <3>1, <3>3 DEF UpdatedInOrder
      <3> QED BY <1>6, <3>2, <3>3
    <2>3. ASSUME NEW v \in Updates, update'[v].at = "answered"
          PROVE  /\ update'[v].key \in DOMAIN operations'
                 /\ update'[v].result = operations'[update'[v].key].result
                 /\ update'[v].payload = operations'[update'[v].key].hash
      <3>1. CASE v = u
        BY <1>5, <1>6, <3>1 DEF entry
      <3>2. CASE v # u
        BY <1>5, <1>6, <2>3, <3>2 DEF UpdatedInOrder
      <3> QED BY <3>1, <3>2
    <2> QED BY <1>8, <2>1, <2>2, <2>3 DEF UpdatedInOrder
  <1> QED BY <1>9, <1>11, <1>12

(* What an update becomes is a record of an update again. *)
LEMMA BecomesRecord ==
  ASSUME ProfileTypeOK, NEW u \in Updates, update[u] \in UpdateRecords,
         NEW at \in {"asked", "locked", "answered", "failed"}, NEW result \in Profiles,
         Becomes(u, at, result)
  PROVE  LET new == [at |-> at, key |-> update[u].key, payload |-> update[u].payload, result |-> result]
         IN  new \in UpdateRecords /\ update' = [update EXCEPT ![u] = new]
  <1> DEFINE new == [at |-> at, key |-> update[u].key, payload |-> update[u].payload, result |-> result]
  <1>1. new \in UpdateRecords
    BY DEF UpdateRecords
  <1>2. update' = [update EXCEPT ![u] = new]
    <2>1. update' = [v \in Updates |-> IF v = u THEN new ELSE update[v]]
      <3> DEFINE r == update[u]
      <3>2. [r EXCEPT !.at = at] = [at |-> at, key |-> r.key, payload |-> r.payload, result |-> r.result]
        <4>1. r \in UpdateRecords
          OBVIOUS
        <4> HIDE DEF r
        <4> QED BY <4>1 DEF UpdateRecords
      <3>3. [[r EXCEPT !.at = at] EXCEPT !.result = result] = new
        <4> DEFINE q == [r EXCEPT !.at = at]
        <4>1. /\ q \in UpdateRecords /\ q.at = at
              /\ q.key = r.key /\ q.payload = r.payload
          BY <3>2 DEF UpdateRecords
        <4> HIDE DEF q
        <4>2. [q EXCEPT !.result = result] = new
          BY <4>1 DEF UpdateRecords
        <4> QED BY <4>2 DEF q
      <3>4. [update EXCEPT ![u].at = at] = [v \in Updates |-> IF v = u THEN [r EXCEPT !.at = at] ELSE update[v]]
        BY DEF ProfileTypeOK
      <3>5. update' = [[update EXCEPT ![u].at = at] EXCEPT ![u].result = result]
        BY DEF Becomes
      <3>6. update' = [v \in Updates |-> IF v = u THEN [[r EXCEPT !.at = at] EXCEPT !.result = result] ELSE update[v]]
        BY <3>4, <3>5
      <3> QED BY <3>3, <3>6
    <2> HIDE DEF new
    <2> QED BY <2>1 DEF ProfileTypeOK
  <1> QED BY <1>1, <1>2

(* Every step preserves the inductive invariant. *)
LEMMA ProfileNextInv == ProfileInv /\ [ProfileNext]_profileVars => ProfileInv'
  <1> SUFFICES ASSUME ProfileInv, [ProfileNext]_profileVars PROVE ProfileInv'
    OBVIOUS
  <1> USE DEF ProfileInv
  <1>0. /\ update \in [Updates -> {NotYet} \cup UpdateRecords] /\ profile \in Profiles
        /\ \A u \in Updates : update[u].at # "none" => update[u] \in UpdateRecords
    BY DEF UpdatedInOrder, ProfileTypeOK, NotYet
  <1>1. CASE UNCHANGED profileVars
    BY <1>1 DEF profileVars, OneHasTheRow, ReadIsCurrent, NothingIsLater, UpdatedInOrder, ProfileTypeOK
  <1>2. ASSUME NEW u \in Updates, NEW k \in OperationKeys, NEW p \in Payloads, AskUpdate(u, k, p)
        PROVE  ProfileInv'
    <2> DEFINE new == [at |-> "asked", key |-> k, payload |-> p, result |-> profile]
    <2>1. new \in UpdateRecords
      BY <1>0 DEF UpdateRecords
    <2>2. update' = [update EXCEPT ![u] = new] /\ UNCHANGED <<profile, operations>>
      BY <1>2 DEF AskUpdate
    <2> QED BY <2>1, <2>2, LedgerStaysInv
  <1>3. ASSUME NEW u \in Updates, ReadProfile(u) PROVE ProfileInv'
    <2> DEFINE new == [at |-> "locked", key |-> update[u].key, payload |-> update[u].payload, result |-> profile]
    <2>1. update[u] \in UpdateRecords /\ Becomes(u, "locked", profile) /\ UNCHANGED <<profile, operations>>
      BY <1>0, <1>3 DEF ReadProfile
    <2>2. new \in UpdateRecords /\ update' = [update EXCEPT ![u] = new]
      BY <1>0, <2>1, BecomesRecord DEF UpdatedInOrder
    <2> HIDE DEF new
    <2>3. new.at = "locked" /\ new.result = profile /\ \A v \in Updates : update[v].at # "locked"
      BY <1>3 DEF new, ReadProfile
    <2> QED BY <2>1, <2>2, <2>3, LedgerStaysInv
  <1>4. ASSUME NEW u \in Updates, RepeatUpdate(u) PROVE ProfileInv'
    <2>1. update[u] \in UpdateRecords /\ update[u].key \in DOMAIN operations
      BY <1>0, <1>4 DEF RepeatUpdate
    <2>2. operations[update[u].key].result \in Profiles
      BY <2>1 DEF UpdatedInOrder, ProfileTypeOK
    <2> DEFINE same == operations[update[u].key].hash = update[u].payload
               new == [at |-> IF same THEN "answered" ELSE "failed",
                       key |-> update[u].key, payload |-> update[u].payload,
                       result |-> IF same THEN operations[update[u].key].result ELSE profile]
    <2>3. new \in UpdateRecords
      BY <1>0, <2>1, <2>2 DEF UpdateRecords
    <2>4. update' = [update EXCEPT ![u] = new] /\ UNCHANGED <<profile, operations>>
      BY <1>0, <1>4, <2>1 DEF RepeatUpdate, Becomes, UpdateRecords
    <2> QED BY <2>1, <2>3, <2>4, LedgerStaysInv
  <1>5. ASSUME NEW u \in Updates, WriteProfile(u) PROVE ProfileInv'
    <2>1. CASE update[u].result.version = update[u].payload.expected
      BY <1>5, <2>1, WriteInv
    <2>2. CASE update[u].result.version # update[u].payload.expected
      <3> DEFINE new == [at |-> "failed", key |-> update[u].key, payload |-> update[u].payload,
                         result |-> profile]
      <3>1. new \in UpdateRecords /\ update' = [update EXCEPT ![u] = new] /\ UNCHANGED <<profile, operations>>
        BY <1>0, <1>5, <2>2 DEF WriteProfile, Becomes, UpdateRecords
      <3> QED BY <3>1, LedgerStaysInv
    <2> QED BY <2>1, <2>2
  <1>6. ASSUME NEW u \in Updates, UpdateFails(u) PROVE ProfileInv'
    <2> DEFINE new == [at |-> "failed", key |-> update[u].key, payload |-> update[u].payload,
                       result |-> profile]
    <2>1. update[u] \in UpdateRecords /\ Becomes(u, "failed", profile) /\ UNCHANGED <<profile, operations>>
      BY <1>0, <1>6 DEF UpdateFails
    <2>2. new \in UpdateRecords /\ update' = [update EXCEPT ![u] = new]
      BY <1>0, <2>1, BecomesRecord DEF UpdatedInOrder
    <2> HIDE DEF new
    <2>3. new.at = "failed"
      BY DEF new
    <2> QED BY <2>1, <2>2, <2>3, LedgerStaysInv
  <1> QED BY <1>1, <1>2, <1>3, <1>4, <1>5, <1>6 DEF ProfileNext

(* The inductive invariant holds in every reachable state. *)
THEOREM ProfileInvariant == ProfileSpec => []ProfileInv
  BY ProfileInitInv, ProfileNextInv, PTL DEF ProfileSpec

(* The operations took effect one after the other, each once and on the    *)
(* version it had seen; an answer is the result of its operation.          *)
THEOREM UpdatesInOrder == ProfileSpec => []UpdatedInOrder
  <1>1. ProfileInv => UpdatedInOrder
    BY DEF ProfileInv
  <1> QED BY <1>1, ProfileInvariant, PTL

(* The ledger only grows, the profile only advances: a result that was     *)
(* given stays the answer to its key.                                      *)
THEOREM LedgerIsForGood ==
  ProfileSpec => [][/\ profile'.version >= profile.version
                    /\ \A k \in DOMAIN operations :
                         k \in DOMAIN operations' /\ operations'[k] = operations[k]]_profileVars
  <1> DEFINE Grows == /\ profile'.version >= profile.version
                      /\ \A k \in DOMAIN operations :
                           k \in DOMAIN operations' /\ operations'[k] = operations[k]
  <1>1. ASSUME ProfileInv, ProfileNext PROVE Grows
    <2>1. profile.version \in Nat
      BY <1>1, VersionsAreNats DEF ProfileInv, UpdatedInOrder, ProfileTypeOK, Profiles
    <2>2. CASE UNCHANGED <<profile, operations>>
      BY <2>1, <2>2
    <2>3. ASSUME NEW u \in Updates, WriteProfile(u),
                 update[u].result.version = update[u].payload.expected
          PROVE  Grows
      <3>1. update[u].result = profile
        BY <1>1, <2>3 DEF WriteProfile, ProfileInv, ReadIsCurrent
      <3> QED BY <2>1, <2>3, <3>1 DEF WriteProfile, Result
    <2> QED BY <1>1, <2>2, <2>3 DEF ProfileNext, AskUpdate, ReadProfile, RepeatUpdate, WriteProfile, UpdateFails
  <1>2. ProfileInv /\ [ProfileNext]_profileVars => [Grows]_profileVars
    BY <1>1
  <1> QED BY <1>2, ProfileInvariant, PTL DEF ProfileSpec

================================================================================
