------------------------------- MODULE Hermes -------------------------------
(***************************************************************************)
(* The Hermes adapter (agent/hermes.rs).  connect() does not wait for the  *)
(* socket; lists and histories are plain HTTP.  `subscribed` is every id   *)
(* the session on screen is known by.  It is shared with the tasks of the  *)
(* gateways, old and new, and one of their events adds to it.              *)
(***************************************************************************)
EXTENDS AgentGateway

VARIABLE subscribed

hermesVars == <<gatewayVars, subscribed>>

HermesTypeOK == GatewayTypeOK /\ subscribed \subseteq Session

HermesInit == GatewayInit /\ subscribed = {}

-----------------------------------------------------------------------------
HermesConnect == Connect("connected") /\ subscribed' = {}

HermesDisconnect == Disconnect /\ subscribed' = {}

HermesClearSessionScope == CallClearScope /\ subscribed' = {} /\ UNCHANGED gatewayVars

HermesCallBegins ==
  /\ \/ Begin("list", None, "http")
     \/ \E s \in Session : \E op \in {"create", "resume"} : Begin(op, s, "asking")
     \/ \E op \in {"interrupt", "respond"} : Begin(op, None, "asking")
     \/ \E s \in Session : BeginSubmit(s, "asking")
  /\ UNCHANGED hermesVars

HermesAsks == At("asking") /\ Queues(<<Request>>, "asked") /\ UNCHANGED subscribed

(* set_subscribed runs when the answer has come, and only then. *)
HermesOpens ==
  /\ At("asked") /\ Answered("ok") /\ call.op \in {"create", "resume"}
  /\ subscribed' = {call.session}
  /\ ReturnSession
  /\ UNCHANGED gatewayVars

HermesReturns ==
  /\ \/ call.step \in {"connected", "http"}
     \/ At("asked") /\ HasAnswer /\ ~(Answered("ok") /\ call.op \in {"create", "resume"})
  /\ Return
  /\ UNCHANGED hermesVars

-----------------------------------------------------------------------------
(* The task of gateway g. *)

HermesDials(g) ==
  LET gw == gateways[g] IN
  /\ gw.task = "dialing"
  /\ \/ Gate(g, [gw EXCEPT !.task = "open"]) /\ Greets(gw.events) /\ UNCHANGED <<call, bound>>
     \/ Gate(g, Over(gw)) /\ Loses(gw.events) /\ Drops(g) /\ Spend("fault")
  /\ UNCHANGED <<subscribed, view, prompts>>

HermesServes(g) ==
  /\ \E i \in DOMAIN gateways[g].wire : \E r \in {"ok", "refused"} : Serves(g, i, r)
  /\ UNCHANGED subscribed

(* session.info names the session the gateway put the client on. *)
SessionInfo(g) ==
  /\ gateways[g].task = "open" /\ Spend("frame")
  /\ \E s \in Session : subscribed' = subscribed \cup {s} /\ scope' = scope \cup {s}
  /\ UNCHANGED <<gatewayVars, call, contact, drawn, prompts>>

(* The message.*, clarify.request and tool frames. *)
HermesFrame(g) ==
  /\ gateways[g].task = "open" /\ Spend("frame")
  /\ \E label \in Session \cup {None} :
       BelongsToOpenSession(subscribed, label) /\ Draws(gateways[g].events, label)
  /\ UNCHANGED <<hermesVars, call, contact, prompts>>

HermesBreaks(g) == Breaks(g, gateways[g].state) /\ UNCHANGED subscribed

-----------------------------------------------------------------------------
HermesCallStep == HermesAsks \/ HermesOpens \/ HermesReturns

HermesTaskStep(g) ==
  \/ HermesDials(g) \/ HermesServes(g)
  \/ (SendsRequest(g) \/ Closes(g) \/ Aborts(g)) /\ UNCHANGED subscribed

HermesNext ==
  \/ HermesConnect \/ HermesDisconnect \/ HermesClearSessionScope \/ HermesCallBegins
  \/ HermesCallStep
  \/ RequestTimesOut /\ UNCHANGED subscribed
  \/ \E g \in DOMAIN gateways :
       HermesTaskStep(g) \/ SessionInfo(g) \/ HermesFrame(g) \/ HermesBreaks(g)
=============================================================================
