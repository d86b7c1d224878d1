------------------------------- MODULE Identity -------------------------------
(***************************************************************************)
(* The identity service, apps/mcp-identity IdentityService.java, over its  *)
(* PostgreSQL database: logins, account sessions and the tokens that renew *)
(* them.  A call is the way of one request through the service: the steps  *)
(* are its statements, or its transactions where nothing can come between. *)
(*                                                                         *)
(* Tokens are numbered as they are issued; the access token and the        *)
(* refresh token issued together are one number.  A row selected FOR       *)
(* UPDATE is locked until its transaction ends; who waits for it looks     *)
(* again at what was committed.  Identities, devices and what the provider *)
(* says of a user are abstracted to whether the service accepts them.      *)
(***************************************************************************)
EXTENDS Integers, Sequences, FiniteSets

CONSTANTS
    Logins,     \* login transactions
    MaxLogins,  \* open ones of a device (5)
    MaxRequests    \* bound of the model: requests

ASSUME IdentityAssumption ==
    /\ MaxLogins \in Nat /\ MaxRequests \in Nat
    /\ \A l \in Logins : l \notin Nat  \* a login is no token

VARIABLES
    login,     \* the login transactions
    sessions,  \* the account sessions: the token each has, and whether it ended
    spent,     \* consumed_refresh_tokens
    granted,    \* by token: its session, and what it was issued for
    requests      \* the calls made, and what became of their answer

identityVars == <<login, sessions, spent, granted, requests>>

-----------------------------------------------------------------------------
Tokens == 1..Len(granted)
Underway == {"sent", "checked", "exchanging", "selecting", "replayed", "rotating", "found"}
Finals == {"ok", "denied", "revoked", "dead"}
NoToken == 0

Requests ==
    [op : {"complete", "refresh", "logout"}, arg : Logins \cup Nat, at : Underway \cup Finals,
     session : Nat, token : Nat, answer : {"awaited", "seen", "lost"}]

IdentityTypeOK ==
    /\ login \in [Logins -> {"none", "counted", "open", "lapsed", "consumed"}]
    /\ sessions \in Seq([token : Nat, revoked : BOOLEAN, lapsed : BOOLEAN])
    /\ granted \in Seq([session : Nat, for : Logins \cup Nat])
    /\ requests \in Seq(Requests)
    /\ spent \subseteq Tokens
    /\ \A s \in DOMAIN sessions : sessions[s].token \in Tokens
    /\ \A t \in Tokens : granted[t].session \in DOMAIN sessions /\ granted[t].for \in Logins \cup Tokens
    /\ \A c \in DOMAIN requests :
         /\ requests[c].arg \in IF requests[c].op = "complete" THEN Logins ELSE Tokens
         /\ requests[c].session \in {0} \cup DOMAIN sessions
         /\ requests[c].token \in {NoToken} \cup Tokens

IdentityInit ==
    /\ login = [l \in Logins |-> "none"]
    /\ sessions = <<>> /\ spent = {} /\ granted = <<>> /\ requests = <<>>

Call(op, arg, at, s) ==
    [op |-> op, arg |-> arg, at |-> at, session |-> s, token |-> NoToken, answer |-> "awaited"]

At(c, op, phase) == requests[c].op = op /\ requests[c].at = phase
Turns(c, phase) == requests' = [requests EXCEPT ![c].at = phase]
Finds(c, phase, s) == requests' = [requests EXCEPT ![c].at = phase, ![c].session = s]

\* A transaction has the row of the session.
Locked(s) == \E c \in DOMAIN requests : requests[c].at = "rotating" /\ requests[c].session = s

Active(s) == ~sessions[s].revoked /\ ~sessions[s].lapsed

\* introspect: the access token is the session's.
Introspects(t) == \E s \in DOMAIN sessions : sessions[s].token = t /\ Active(s)

-----------------------------------------------------------------------------
(* begin: the open logins of the device are counted, then one is inserted. *)

Open == {l \in Logins : login[l] = "open"}
LoginBecomes(l, from, to) == login[l] = from /\ login' = [login EXCEPT ![l] = to]

BeginCounts(l) ==
    /\ Cardinality(Open) < MaxLogins
    /\ LoginBecomes(l, "none", "counted")
    /\ UNCHANGED <<sessions, spent, granted, requests>>

BeginInserts(l) ==
    /\ LoginBecomes(l, "counted", "open")
    /\ UNCHANGED <<sessions, spent, granted, requests>>

\* Ten minutes later.
LoginLapses(l) ==
    /\ LoginBecomes(l, "open", "lapsed")
    /\ UNCHANGED <<sessions, spent, granted, requests>>

-----------------------------------------------------------------------------
(* complete: the login is consumed, the code exchanged outside of any      *)
(* transaction, the session inserted.                                      *)

CheckLogin(c) ==
    /\ At(c, "complete", "sent")
    /\ Turns(c, IF login[requests[c].arg] = "open" THEN "checked" ELSE "denied")
    /\ UNCHANGED <<login, sessions, spent, granted>>

\* Mutant: UPDATE without AND consumed=FALSE.
ConsumeAnyway(c) ==
    /\ At(c, "complete", "checked")
    /\ Turns(c, "exchanging") /\ login' = [login EXCEPT ![requests[c].arg] = "consumed"]
    /\ UNCHANGED <<sessions, spent, granted>>

\* Only one of those that found it open; it may lapse in between.
Consume(c) ==
    /\ At(c, "complete", "checked")
    /\ IF login[requests[c].arg] # "consumed"
       THEN Turns(c, "exchanging") /\ login' = [login EXCEPT ![requests[c].arg] = "consumed"]
       ELSE Turns(c, "denied") /\ UNCHANGED login
    /\ UNCHANGED <<sessions, spent, granted>>

\* issued: a new token for what it was issued for.
Issue(c, s) ==
    /\ granted' = Append(granted, [session |-> s, for |-> requests[c].arg])
    /\ requests' = [requests EXCEPT ![c].at = "ok", ![c].session = s, ![c].token = Len(granted) + 1]

OpenSession(c) ==
    /\ At(c, "complete", "exchanging")
    /\ sessions' = Append(sessions, [token |-> Len(granted) + 1, revoked |-> FALSE, lapsed |-> FALSE])
    /\ Issue(c, Len(sessions) + 1)
    /\ UNCHANGED <<login, spent>>

\* The provider or the service refuses, or an expiry has passed.
Denied(c) ==
    /\ requests[c].at \in {"exchanging", "rotating"}
    /\ Turns(c, "denied")
    /\ UNCHANGED <<login, sessions, spent, granted>>

-----------------------------------------------------------------------------
(* refresh: one transaction, with the call of the provider in it.          *)

LookUp(c) ==
    /\ At(c, "refresh", "sent")
    /\ IF requests[c].arg \in spent
       THEN Finds(c, "replayed", granted[requests[c].arg].session)
       ELSE Turns(c, "selecting")
    /\ UNCHANGED <<login, sessions, spent, granted>>

Revokes(s) == sessions' = [sessions EXCEPT ![s].revoked = TRUE]

\* Mutant: what a replay revokes is rolled back with the denial.
ReplayRollsBack(c) ==
    /\ At(c, "refresh", "replayed") /\ ~Locked(requests[c].session)
    /\ Turns(c, "revoked")
    /\ UNCHANGED <<login, sessions, spent, granted>>

Replay(c) ==
    /\ At(c, "refresh", "replayed") /\ ~Locked(requests[c].session)
    /\ Revokes(requests[c].session) /\ Turns(c, "revoked")
    /\ UNCHANGED <<login, spent, granted>>

Select(c) ==
    /\ At(c, "refresh", "selecting")
    /\ LET found == {s \in DOMAIN sessions : sessions[s].token = requests[c].arg}
       IN  /\ \A s \in found : ~Locked(s)
           /\ \/ \E s \in found :
                   /\ Active(s)
                   /\ Finds(c, "rotating", s)
              \/ (\A s \in found : ~Active(s)) /\ Turns(c, "denied")
    /\ UNCHANGED <<login, sessions, spent, granted>>

\* The provider has answered; the token is consumed, its successor issued.
RotateToken(c) ==
    /\ At(c, "refresh", "rotating")
    /\ spent' = spent \cup {requests[c].arg}
    /\ sessions' = [sessions EXCEPT ![requests[c].session].token = Len(granted) + 1]
    /\ Issue(c, requests[c].session)
    /\ UNCHANGED login

SessionLapses(s) ==
    /\ ~sessions[s].lapsed
    /\ sessions' = [sessions EXCEPT ![s].lapsed = TRUE]
    /\ UNCHANGED <<login, spent, granted, requests>>

-----------------------------------------------------------------------------
(* logoutRefresh, by the token, and logout, by the session: statements of  *)
(* their own.  Whether the provider revokes what it issued is ignored.     *)

Find(c) ==
    /\ At(c, "logout", "sent")
    /\ LET found == {s \in DOMAIN sessions : sessions[s].token = requests[c].arg}
       IN  \/ \E s \in found : Finds(c, "found", s)
           \/ found = {} /\ Turns(c, "denied")
    /\ UNCHANGED <<login, sessions, spent, granted>>

Revoke(c) ==
    /\ At(c, "logout", "found") /\ ~Locked(requests[c].session)
    /\ Revokes(requests[c].session) /\ Turns(c, "ok")
    /\ UNCHANGED <<login, spent, granted>>

\* The service or its database connection ends; a transaction is rolled back.
ServiceFails(c) ==
    /\ requests[c].at \in Underway
    /\ Turns(c, "dead")
    /\ UNCHANGED <<login, sessions, spent, granted>>

ServiceStep ==
    \/ \E l \in Logins : BeginCounts(l) \/ BeginInserts(l) \/ LoginLapses(l)
    \/ \E s \in DOMAIN sessions : SessionLapses(s)
    \/ \E c \in DOMAIN requests :
         \/ CheckLogin(c) \/ Consume(c) \/ OpenSession(c) \/ Denied(c)
         \/ LookUp(c) \/ Replay(c) \/ Select(c) \/ RotateToken(c)
         \/ Find(c) \/ Revoke(c) \/ ServiceFails(c)

-----------------------------------------------------------------------------
(* However calls overlap, fail and repeat, a login gives one session and a *)
(* refresh token one successor, and a session has the token issued last;   *)
(* the tokens that have a successor are the consumed ones                  *)
(* (IdentityService.java 23-42).                                           *)
RedeemedOnce ==
    /\ IdentityTypeOK
    /\ \A t, u \in Tokens : granted[t].for = granted[u].for => t = u
    /\ spent = {granted[t].for : t \in Tokens} \ Logins
    /\ \A s \in DOMAIN sessions : granted[sessions[s].token].session = s /\ sessions[s].token \notin spent

(* When a logout, or the refusal of a replay, has been answered, no token  *)
(* of that session works, then or later, one that a renewal under way at   *)
(* the time issues included (IdentityService.java 35, 47-52).              *)
RevokedForGood ==
    \A c \in DOMAIN requests :
        requests[c].at = "revoked" \/ At(c, "logout", "ok") =>
            \A t \in Tokens : granted[t].session = requests[c].session => ~Introspects(t)

-----------------------------------------------------------------------------
(* Why they hold: what a request knows at each of its steps.               *)
PhasesFit ==
    \A c \in DOMAIN requests :
        /\ requests[c].at \in {"checked", "exchanging"} => requests[c].op = "complete"
        /\ requests[c].at \in {"selecting", "replayed", "rotating", "revoked"} => requests[c].op = "refresh"
        /\ requests[c].at = "found" => requests[c].op = "logout"
        /\ requests[c].at \in {"replayed", "rotating", "found"} => requests[c].session \in DOMAIN sessions
        /\ requests[c].at = "sent" => requests[c].session = 0

\* Whose login is being exchanged has consumed it, alone, and nothing came of it yet.
OneExchange ==
    /\ \A t \in Tokens : granted[t].for \in Logins => login[granted[t].for] = "consumed"
    /\ \A c \in DOMAIN requests : requests[c].at = "exchanging" =>
         /\ login[requests[c].arg] = "consumed"
         /\ \A t \in Tokens : granted[t].for # requests[c].arg
         /\ \A d \in DOMAIN requests :
              requests[d].at = "exchanging" /\ requests[d].arg = requests[c].arg => d = c

\* The row of a rotation is locked: its token stays, and it is not revoked.
RowIsLocked ==
    \A c \in DOMAIN requests : requests[c].at = "rotating" =>
        /\ sessions[requests[c].session].token = requests[c].arg
        /\ ~sessions[requests[c].session].revoked
        /\ \A d \in DOMAIN requests :
             requests[d].at = "rotating" /\ requests[d].session = requests[c].session => d = c

RevokedIsWritten ==
    \A c \in DOMAIN requests : requests[c].at = "revoked" \/ At(c, "logout", "ok") =>
        requests[c].session \in DOMAIN sessions /\ sessions[requests[c].session].revoked

IdentityInv == PhasesFit /\ OneExchange /\ RowIsLocked /\ RevokedIsWritten /\ RedeemedOnce

=============================================================================
