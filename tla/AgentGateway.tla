---------------------------- MODULE AgentGateway ----------------------------
(***************************************************************************)
(* The WebSocket gateway that the OpenClaw and the Hermes adapter each     *)
(* keep (GatewayHandle and run_gateway in agent/openclaw.rs and            *)
(* agent/hermes.rs).  open() starts a task that owns one socket; calls     *)
(* reach it through a command queue and wait for the answer the task hands *)
(* back.  A gateway is remembered after it is closed, because its task is  *)
(* only aborted: it may still take a step or two.                          *)
(***************************************************************************)
EXTENDS AgentCalls, SequencesExt

VARIABLES
  gateways,  \* every gateway opened so far
  gateway    \* the one the handle holds, 0 for none

gatewayVars == <<gateways, gateway>>

Command ==
  [kind : {"request"}, prompt : 0 .. submits] \cup
  [kind : {"active"}, session : Session \cup {None}] \cup
  [kind : {"close"}]

(* `events` is the channel its events go to, 0 for none; `wire` the requests *)
(* the other side has not answered, each by its prompt (0 without one).      *)
(* `state`, `handshake` and `active` are OpenClaw's alone.                   *)
Gateway ==
  [events : Nat, task : {"dialing", "open", "ended"}, aborted : BOOLEAN,
   commands : Seq(Command), wire : Seq(0 .. submits),
   state : {"pending", "connected", "failed"},
   handshake : {"none", "asked", "accepted", "rejected", "done"},
   active : Session \cup {None}]

GatewayTypeOK ==
  /\ gateways \in Seq(Gateway)
  /\ gateway \in 0 .. Len(gateways)

GatewayInit == gateways = <<>> /\ gateway = 0

NewGateway(events) ==
  [events |-> events, task |-> "dialing", aborted |-> FALSE, commands |-> <<>>, wire |-> <<>>,
   state |-> "pending", handshake |-> "none", active |-> None]

(* The handle's gateway still listens to commands. *)
Reachable == gateway > 0 /\ gateways[gateway].task # "ended"

Enqueue(commands) ==
  IF Reachable THEN [gateways EXCEPT ![gateway].commands = @ \o commands] ELSE gateways

(* What disconnect() and close() leave behind. *)
Closed ==
  IF Reachable
  THEN [gateways EXCEPT ![gateway].commands = Append(@, [kind |-> "close"]),
                        ![gateway].aborted = TRUE]
  ELSE gateways

Connect(first) ==
  /\ BeginConnect(first)
  /\ gateways' = Append(Closed, NewGateway(channel'))
  /\ gateway' = Len(gateways) + 1

Disconnect ==
  /\ CallDisconnect
  /\ gateways' = Closed /\ gateway' = 0

-----------------------------------------------------------------------------
(* A call's request. *)

Request == [kind |-> "request", prompt |-> call.prompt]

(* The call queues these commands, and waits if anyone listens. *)
Queues(commands, next) ==
  /\ gateways' = Enqueue(commands)
  /\ call' = [call EXCEPT !.step = next, !.reply = IF Reachable THEN "waiting" ELSE "dropped"]
  /\ UNCHANGED <<gateway, contact, view, prompts, bound>>

HasAnswer == call.reply \notin {"none", "waiting"}

Answered(r) == call.reply = r

RequestQueued(g) ==
  \E i \in DOMAIN gateways[g].commands : gateways[g].commands[i].kind = "request"

(* The call's own timeout, for a request that is on the wire. *)
RequestTimesOut ==
  /\ call.reply = "waiting" /\ ~RequestQueued(gateway)
  /\ Spend("fault")
  /\ Reply("dropped")
  /\ UNCHANGED <<gatewayVars, contact, view, prompts>>

-----------------------------------------------------------------------------
(* The task of gateway g. *)

Gate(g, new) == gateways' = [gateways EXCEPT ![g] = new] /\ UNCHANGED gateway

Owns(g) == g = gateway

(* The task is over: what waits on it is told so, its handshake as well. *)
Over(gw) ==
  [gw EXCEPT !.task = "ended", !.commands = <<>>, !.wire = <<>>,
             !.handshake = IF @ = "asked" THEN "rejected" ELSE @]

Drops(g) == IF Owns(g) THEN Reply("dropped") ELSE UNCHANGED call

Commanded(g, kind) ==
  gateways[g].task = "open" /\ gateways[g].commands # <<>> /\ Head(gateways[g].commands).kind = kind

Obeyed(g) == [gateways[g] EXCEPT !.commands = Tail(@)]

SendsRequest(g) ==
  /\ Commanded(g, "request")
  /\ \/ /\ Gate(g, [Obeyed(g) EXCEPT !.wire = Append(@, Head(gateways[g].commands).prompt)])
        /\ UNCHANGED callVars
     \/ /\ Spend("fault")
        /\ Gate(g, Obeyed(g))
        /\ IF Owns(g) THEN Reply("refused") ELSE UNCHANGED call
        /\ UNCHANGED <<contact, view, prompts>>

Closes(g) ==
  /\ Commanded(g, "close")
  /\ Gate(g, Over(gateways[g]))
  /\ UNCHANGED callVars

Aborts(g) ==
  /\ gateways[g].aborted /\ gateways[g].task # "ended"
  /\ Gate(g, Over(gateways[g]))
  /\ UNCHANGED callVars

(* The other side answers request i.  Only the newest can still be waited   *)
(* for: an older one has timed out.                                         *)
Answers(g, i, r) ==
  IF Owns(g) /\ i = Len(gateways[g].wire) /\ ~RequestQueued(g) THEN Reply(r) ELSE UNCHANGED call

Serves(g, i, r) ==
  /\ gateways[g].task = "open"
  /\ Gate(g, [gateways[g] EXCEPT !.wire = RemoveAt(@, i)])
  /\ Answers(g, i, r)
  /\ IF r = "ok" THEN Takes(gateways[g].wire[i]) ELSE UNCHANGED prompts
  /\ UNCHANGED <<contact, view, bound>>

(* The socket closes or fails. *)
Breaks(g, state) ==
  /\ gateways[g].task = "open" /\ Spend("fault")
  /\ Gate(g, [Over(gateways[g]) EXCEPT !.state = state])
  /\ Loses(gateways[g].events) /\ Drops(g)
  /\ UNCHANGED <<view, prompts>>
=============================================================================
