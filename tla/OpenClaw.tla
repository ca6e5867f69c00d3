------------------------------ MODULE OpenClaw ------------------------------
(***************************************************************************)
(* The OpenClaw adapter (agent/openclaw.rs).  A handshake task of its own  *)
(* answers the gateway's challenge, and nothing stops it when the gateway  *)
(* is closed.  One socket carries every session's frames, so `active`      *)
(* filters them.                                                           *)
(***************************************************************************)
EXTENDS AgentGateway

IsConnected == gateway > 0 /\ gateways[gateway].state = "connected"

IsOpen == Reachable

-----------------------------------------------------------------------------
(* The calls. *)

ClawConnect == Connect("connecting")

ClawClearSessionScope ==
  /\ Idle /\ Spend("call")
  /\ gateways' = Enqueue(<<[kind |-> "active", session |-> None]>>)
  /\ IF Reachable THEN UNCHANGED view ELSE scope' = {} /\ drawn' = {}
  /\ UNCHANGED <<gateway, call, contact, prompts>>

(* ensure_connected: a gateway that says it is connected is used as it is,  *)
(* one that is still opening is waited for, and a new one has no channel.   *)
Ensuring(op, s) ==
  /\ Begin(op, s, IF IsConnected THEN "asking" ELSE "connecting")
  /\ IF IsConnected \/ IsOpen THEN UNCHANGED gatewayVars
     ELSE gateways' = Append(gateways, NewGateway(0)) /\ gateway' = Len(gateways) + 1

ClawCallBegins ==
  \/ Ensuring("list", None)
  \/ \E s \in Session : \E op \in {"create", "resume"} : Ensuring(op, s)
  \/ Begin("interrupt", None, "asking") /\ UNCHANGED gatewayVars
  \/ Begin("respond", None, "asking") /\ UNCHANGED gatewayVars
  \/ \E s \in Session : BeginSubmit(s, "asking") /\ UNCHANGED gatewayVars

(* wait_connected, and its 20 seconds. *)
WaitConnected ==
  /\ At("connecting")
  /\ \/ IsConnected /\ IF call.op = "connect" THEN Return ELSE Goto("asking")
     \/ gateways[gateway].state = "failed" /\ Return
  /\ UNCHANGED gatewayVars

WaitTimesOut ==
  /\ At("connecting") /\ gateways[gateway].state = "pending"
  /\ Spend("fault")
  /\ call' = NoCall
  /\ UNCHANGED <<gatewayVars, contact, view, prompts>>

ClawAsks ==
  /\ At("asking") /\ call.op # "resume"
  /\ Queues(<<Request>>, "asked")

(* set_active_session, then sessions.messages.subscribe. *)
SubscribeToSession ==
  /\ \/ At("asking") /\ call.op = "resume"
     \/ At("asked") /\ call.op = "create" /\ Answered("ok")
  /\ Queues(<<[kind |-> "active", session |-> call.session], Request>>, "subscribing")

(* Only the answer that names idempotencyKey is asked again without it. *)
AsksAgain == HasAnswer /\ ~Answered("ok")

AsksLegacySend == Answered("unexpected")

AsksLegacy ==
  /\ \/ At("asked") /\ call.op = "submit" /\ AsksLegacySend
     \/ At("subscribing") /\ ~Answered("ok")
  /\ HasAnswer
  /\ Queues(<<Request>>, "legacy")

ClawReturns ==
  /\ HasAnswer
  /\ \/ At("asked") /\ call.op = "submit" /\ ~AsksLegacySend /\ Return
     \/ At("asked") /\ call.op = "create" /\ ~Answered("ok") /\ Return
     \/ At("asked") /\ call.op \in {"list", "interrupt", "respond"} /\ Return
     \/ At("legacy") /\ call.op = "submit" /\ Return
     \/ At("legacy") /\ call.op # "submit" /\ ReturnSession
     \/ At("subscribing") /\ Answered("ok") /\ ReturnSession
  /\ UNCHANGED gatewayVars

-----------------------------------------------------------------------------
(* The tasks of gateway g. *)

ClawDials(g) ==
  /\ gateways[g].task = "dialing"
  /\ \/ Gate(g, [gateways[g] EXCEPT !.task = "open"]) /\ UNCHANGED callVars
     \/ /\ Spend("fault")
        /\ Gate(g, [Over(gateways[g]) EXCEPT !.state = "failed"])
        /\ Loses(gateways[g].events) /\ Drops(g)
        /\ UNCHANGED <<view, prompts>>

(* GatewayCommand::SetActive.  A scope that was cleared stays open until    *)
(* here; what was asked for since keeps its place in it.                    *)
SetsActive(g) ==
  /\ Commanded(g, "active")
  /\ LET s == Head(gateways[g].commands).session
         later == {c \in ToSet(Tail(gateways[g].commands)) : c.kind = "active"} IN
     /\ Gate(g, [Obeyed(g) EXCEPT !.active = s])
     /\ IF Owns(g) /\ s = None
        THEN drawn' = {} /\ scope' = scope \cap ({call.session} \cup {c.session : c \in later})
        ELSE UNCHANGED view
  /\ UNCHANGED <<call, contact, prompts, bound>>

(* connect.challenge: signed and sent back, or not one that can be. *)
Challenged(g) ==
  LET gw == gateways[g] IN
  /\ gw.task = "open" /\ gw.handshake = "none"
  /\ \/ Gate(g, [gw EXCEPT !.handshake = "asked"]) /\ UNCHANGED callVars
     \/ /\ Spend("fault")
        /\ Gate(g, [gw EXCEPT !.handshake = "done", !.state = "failed"])
        /\ Loses(gw.events)
        /\ UNCHANGED <<call, view, prompts>>

HandshakeAnswered(g) ==
  LET gw == gateways[g] IN
  /\ gw.task = "open" /\ gw.handshake = "asked"
  /\ \/ Gate(g, [gw EXCEPT !.handshake = "accepted"]) /\ UNCHANGED bound
     \/ Gate(g, [gw EXCEPT !.handshake = "rejected", !.state = "failed"]) /\ Spend("fault")
  /\ UNCHANGED <<call, contact, view, prompts>>

(* The 15 seconds of the handshake, or an answer that is no hello. *)
HandshakeFails(g) ==
  /\ gateways[g].handshake \in {"asked", "accepted"} /\ Spend("fault")
  /\ Gate(g, [gateways[g] EXCEPT !.handshake = "rejected"])
  /\ UNCHANGED <<call, contact, view, prompts>>

(* The handshake's own task comes to its end. *)
HandshakeTold(g) ==
  LET gw == gateways[g] IN
  /\ \/ /\ gw.handshake = "accepted"
        /\ Gate(g, [gw EXCEPT !.handshake = "done", !.state = "connected"])
        /\ Greets(gw.events)
     \/ /\ gw.handshake = "rejected"
        /\ Gate(g, [gw EXCEPT !.handshake = "done", !.state = "failed"])
        /\ Loses(gw.events)
  /\ UNCHANGED <<call, view, prompts, bound>>

(* A gateway takes nothing before the handshake, and a legacy one refuses   *)
(* the parameter it does not know.                                          *)
ClawServes(g) ==
  \E i \in DOMAIN gateways[g].wire :
    \/ gateways[g].state = "connected" /\ Serves(g, i, "ok")
    \/ Serves(g, i, "refused")
    \/ gateways[g].wire[i] # 0 /\ Serves(g, i, "unexpected")

IsForActiveSession(gw, label) == BelongsToOpenSession({gw.active} \ {None}, label)

(* chat, session.message, session.tool and agent frames. *)
ClawFrame(g) ==
  LET gw == gateways[g] IN
  /\ gw.task = "open" /\ gw.state = "connected" /\ Spend("frame")
  /\ \E label \in Session \cup {None} : IsForActiveSession(gw, label) /\ Draws(gw.events, label)
  /\ UNCHANGED <<gatewayVars, call, contact, prompts>>

ClawBreaks(g) ==
  \/ Breaks(g, IF gateways[g].state = "pending" THEN "failed" ELSE gateways[g].state)
  \/ Breaks(g, "failed")

-----------------------------------------------------------------------------
ClawCallStep == WaitConnected \/ ClawAsks \/ SubscribeToSession \/ AsksLegacy \/ ClawReturns

ClawTaskStep(g) ==
  \/ ClawDials(g) \/ SendsRequest(g) \/ SetsActive(g) \/ Closes(g) \/ Aborts(g)
  \/ Challenged(g) \/ HandshakeAnswered(g) \/ HandshakeTold(g) \/ ClawServes(g)

OpenClawNext ==
  \/ ClawConnect \/ Disconnect \/ ClawClearSessionScope \/ ClawCallBegins \/ ClawCallStep
  \/ WaitTimesOut \/ RequestTimesOut
  \/ \E g \in DOMAIN gateways :
       ClawTaskStep(g) \/ HandshakeFails(g) \/ ClawFrame(g) \/ ClawBreaks(g)
=============================================================================
