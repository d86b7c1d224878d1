----------------------------- MODULE MCAgentPipe -----------------------------
(***************************************************************************)
(* AgentPipe, one agent session from the gateway to the agent, and Gateway, *)
(* which has the sessions of several clients and what they share.  No       *)
(* variable is in both: what the gateway needs of a session is that its     *)
(* Close returns, CloseIsReturned, and one of the two moves in a behaviour. *)
(*                                                                         *)
(* In the pipe, channels and sockets of one position: two commands and two *)
(* events fill any channel, with one more waiting in front of it.  In the  *)
(* gateway, two clients of either protocol ask for one slot, so that one   *)
(* is refused, or has the slot the other gave back.                        *)
(***************************************************************************)
EXTENDS AgentPipe, Gateway, TLC

VARIABLE part

PersonalAndAccount == [a \in Agents |-> IF a = "account" THEN "v2" ELSE "v1"]

\* The part that does not move has one initial state; of the two symmetric
\* ones in which the clients differ in their protocol there is one.
MCInit ==
    /\ part \in {"pipe", "gateway"}
    /\ Init /\ GatewayInit
    /\ part = "pipe" => version = [c \in Clients |-> "v1"]
    /\ part = "gateway" => version # ("c1" :> "v2" @@ "c2" :> "v1")

MCNext ==
    /\ UNCHANGED part
    /\ \/ part = "pipe" /\ Next /\ UNCHANGED gatewayStateVars
       \/ part = "gateway" /\ GatewayNext /\ UNCHANGED vars

\* AgentPipe's Fairness for the one; the other's goroutines go on, too: each of
\* its waits has a deadline, or waits for a goroutine of the same client.  Go
\* chooses at random among the ready cases of a select: none that is ready
\* again and again is passed over for ever.
MCFairness ==
    /\ WF_vars(part = "pipe" /\ GatewayStep) /\ WF_vars(part = "pipe" /\ ReaderStep)
    /\ WF_vars(part = "pipe" /\ HandlerStep) /\ WF_vars(part = "pipe" /\ CommandReaderStep)
    /\ WF_vars(part = "pipe" /\ RuntimeStep)
    /\ \A c \in Clients :
         /\ WF_gatewayStateVars(part = "gateway" /\ SessionStep(c))
         /\ SF_gatewayStateVars(part = "gateway" /\ Notice(c))
         /\ SF_gatewayStateVars(part = "gateway" /\ InputCase(c))
         /\ WF_gatewayStateVars(part = "gateway" /\ StartLate(c))
         /\ WF_gatewayStateVars(part = "gateway" /\ ListenerStep(c))

MCSpec == MCInit /\ [][MCNext]_<<part, vars, gatewayStateVars>> /\ MCFairness

=============================================================================
