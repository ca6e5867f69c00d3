--------------------------- MODULE DesktopEvents ---------------------------
(***************************************************************************)
(* The adapters' streams and the pump that folds their events into the     *)
(* state (crates/desktop/src/events.rs, and the session filter of          *)
(* crates/core/src/agent/session_scope.rs as every adapter applies it).    *)
(***************************************************************************)
EXTENDS DesktopSend

(* A mutant: the lenient rule, which keeps everything while nothing is open. *)
BelongsToSession(scope, s) == scope = {} \/ s \in scope

(* The strict rule: a labelled frame belongs to the open session or nobody. *)
BelongsToOpenSession(scope, s) == s \in scope

-----------------------------------------------------------------------------
(* What an adapter's stream reports.  The socket is opened by a task of its  *)
(* own in some adapters, so Connected may follow the return of connect().    *)

Reports(i, event, b) ==
  /\ pumps' = Emit(pumps, backends[i].stream, event)
  /\ backends' = [backends EXCEPT ![i] = b]
  /\ UNCHANGED <<viewVars, connVars, enabled, turnVars, window, connects, retries, disconnects,
                 restarts, opens, scopes, delivers, stops, answers, historyVars, textVars>>

Opening(i) == backends[i].stream # 0 /\ ~backends[i].up

StreamConnects(i) ==
  /\ Opening(i)
  /\ Reports(i, Plain("Connected"), [backends[i] EXCEPT !.up = TRUE])
  /\ UNCHANGED budget

StreamFails(i) ==
  /\ Opening(i)
  /\ Spend("reject")
  /\ Reports(i, Plain("Failed"), [backends[i] EXCEPT !.stream = 0])

(* The socket closes, or reading from it fails. *)
StreamDrops(i) ==
  /\ backends[i].up
  /\ Spend("drop")
  /\ \E k \in {"Disconnected", "Failed"} :
       Reports(i, Plain(k), [backends[i] EXCEPT !.stream = 0, !.up = FALSE])

(* Turn traffic of a session: the gateway fans every session out, and the    *)
(* adapter's filter passes the open one's.                                   *)
StreamFrame(i, s, k) ==
  /\ backends[i].up
  /\ Exists(s)
  /\ Owner[s] = backends[i].kind
  /\ BelongsToOpenSession(backends[i].scope, s)
  /\ Spend("frame")
  /\ Reports(i, [kind |-> k, session |-> s], backends[i])

StreamQuestion(i, s) ==
  /\ backends[i].up
  /\ Exists(s)
  /\ Owner[s] = backends[i].kind
  /\ FansOutQuestions \/ BelongsToOpenSession(backends[i].scope, s)
  /\ Spend("question")
  /\ Reports(i, [kind |-> "Clarify", session |-> s], backends[i])

(* session.info is exempt from the filter, and widens it. *)
StreamSessionInfo(i, s) ==
  /\ AnnouncesSessions
  /\ backends[i].up
  /\ Exists(s)
  /\ Owner[s] = backends[i].kind
  /\ Spend("info")
  /\ Reports(i, [kind |-> "SessionInfo", session |-> s],
             [backends[i] EXCEPT !.scope = @ \cup {s}])

-----------------------------------------------------------------------------
(* handle(): one pump per channel, one event at a time. *)

TurnEvents == {"Delta", "Complete", "TurnFailed", "Clarify"}

(* A mutant: the events of a replaced stream count. *)
NeverReplaced(p) == FALSE

Stale(p) == connection_epoch # p.epoch

HeldOff(event) == event.kind \in TurnEvents /\ ~AcceptsTurnEvents

(* The pump's next event, if it is still this state's business. *)
Ready(p, kinds) ==
  /\ p.pc = "idle"
  /\ p.events # <<>>
  /\ ~Stale(p)
  /\ Head(p.events).kind \in kinds
  /\ ~HeldOff(Head(p.events))

Handled(p, pc) == pumps' = (pumps \ {p}) \cup {[p EXCEPT !.events = Tail(@), !.pc = pc]}

(* From a replaced stream, or turn traffic while a session is opening. *)
DropsEvent(p) ==
  /\ p.pc = "idle"
  /\ p.events # <<>>
  /\ Stale(p) \/ HeldOff(Head(p.events))
  /\ Handled(p, "idle")
  /\ UNCHANGED <<viewVars, connVars, enabled, turnVars, backends, window, connects, retries,
                 disconnects, restarts, opens, scopes, delivers, stops, answers, historyVars,
                 textVars, budget>>

HandleConnected(p) ==
  /\ Ready(p, {"Connected"})
  /\ Handled(p, "idle")
  /\ transport_ready' = TRUE
  /\ gateway_connecting' = FALSE
  /\ connection' = "Connected"
  /\ reconnecting' = FALSE
  /\ retry_attempt' = 0
  /\ UNCHANGED <<viewVars, connect_generation, connection_epoch, enabled, turnVars, backends,
                 window, connects, retries, disconnects, restarts, opens, scopes, delivers,
                 stops, answers, historyVars, textVars, budget>>

HandleSessionInfo(p) ==
  /\ Ready(p, {"SessionInfo"})
  /\ Handled(p, "idle")
  /\ live' = Head(p.events).session
  /\ transport_ready' = TRUE
  /\ UNCHANGED <<selected, stored, view_generation, origins, connection, gateway_connecting,
                 reconnecting, retry_attempt, connect_generation, connection_epoch, enabled,
                 turnVars, backends, window, connects, retries, disconnects, restarts, opens,
                 scopes, delivers, stops, answers, historyVars, textVars, budget>>

(* A question asked in another session is not this chat's to answer; with no *)
(* live session there is nothing to compare with.                            *)
HandleClarify(p) ==
  LET asked == Head(p.events).session IN
  /\ Ready(p, {"Clarify"})
  /\ Handled(p, "idle")
  /\ clarify' = IF live # None /\ asked # live /\ asked # stored THEN clarify ELSE asked
  /\ UNCHANGED <<viewVars, connVars, enabled, sending, stopping, turn_seq, queue, backends,
                 window, connects, retries, disconnects, restarts, opens, scopes, delivers,
                 stops, answers, historyVars, textVars, budget>>

(* Mutants: the subscription, or the question, outlives the stream. *)
KeepSubscription == UNCHANGED live
KeepQuestion == UNCHANGED clarify

DropSubscription == live' = None
DropQuestion == clarify' = None

HandleLost(p) ==
  LET failed == Head(p.events).kind = "Failed" IN
  /\ Ready(p, {"Disconnected", "Failed"})
  /\ Handled(p, IF enabled THEN "lost" ELSE "idle")
  /\ transport_ready' = FALSE
  /\ gateway_connecting' = FALSE
  /\ DropQuestion
  /\ DropSubscription
  /\ sending' = FALSE
  /\ connection' = IF failed THEN "Failed"
                   ELSE IF connection = "Connected" THEN "Disconnected" ELSE connection
  /\ UNCHANGED <<selected, stored, view_generation, origins, reconnecting, retry_attempt,
                 connect_generation, connection_epoch, enabled, stopping, turn_seq, queue,
                 backends, window, connects, retries, disconnects, restarts, opens, scopes,
                 delivers, stops, answers, historyVars, textVars, budget>>

(* Text, tools and attachments, and the end of the turn, folded into the     *)
(* conversation on screen.  A completion with no turn in flight runs no      *)
(* end-of-turn work; the failure that answers a stop adds no text.           *)
HandleTurn(p) ==
  LET event == Head(p.events)
      ends == event.kind = "TurnFailed" \/ (event.kind = "Complete" /\ sending)
  IN
  /\ Ready(p, {"Delta", "Complete", "TurnFailed"})
  /\ Handled(p, IF ends THEN "after" ELSE "idle")
  /\ origins' = IF event.kind = "TurnFailed" /\ stopping THEN origins
                ELSE origins \cup {event.session}
  /\ sending' = (sending /\ event.kind = "Delta")
  /\ UNCHANGED <<selected, stored, live, view_generation, connVars, enabled, stopping, turn_seq,
                 clarify, queue, backends, window, connects, retries, disconnects, restarts,
                 opens, scopes, delivers, stops, answers, historyVars, textVars, budget>>

-----------------------------------------------------------------------------
(* What the pump does after an event's region: stream_lost's two regions,    *)
(* or after_turn and the send it may end with.                               *)

PumpIs(p, pc) == pumps' = (pumps \ {p}) \cup {[p EXCEPT !.pc = pc]}

PumpStreamLost(p) ==
  /\ p.pc = "lost"
  /\ pumps' = (pumps \ {p}) \cup {[p EXCEPT !.pc = "retry", !.gen = connect_generation]}
  /\ UNCHANGED <<viewVars, connVars, enabled, turnVars, backends, window, connects, retries,
                 disconnects, restarts, opens, scopes, delivers, stops, answers, historyVars,
                 textVars, budget>>

PumpRetry(p) ==
  /\ p.pc = "retry"
  /\ ScheduleRetry(p.gen)
  /\ pumps' = (pumps \ {p}) \cup {[p EXCEPT !.pc = "idle", !.gen = 0]}
  /\ UNCHANGED <<viewVars, enabled, turnVars, backends, window, connects, disconnects,
                 restarts, opens, scopes, delivers, stops, answers, historyVars, textVars,
                 budget>>

PumpAfterTurn(p) ==
  /\ p.pc = "after"
  /\ AfterTurn
  /\ pumps' = (pumps \ {p}) \cup
              {[p EXCEPT !.pc = IF NextQueued = NoText THEN "idle" ELSE "send",
                         !.text = NextQueued]}
  /\ UNCHANGED <<viewVars, connVars, enabled, sending, turn_seq, backends, window, connects,
                 retries, disconnects, restarts, opens, scopes, delivers, stops, answers,
                 historyVars, textVars, budget>>

PumpSends(p) ==
  /\ p.pc = "send"
  /\ Send(p.text)
  /\ pumps' = (pumps \ {p}) \cup {[p EXCEPT !.pc = "idle", !.text = NoText]}
  /\ UNCHANGED <<viewVars, connVars, enabled, clarify, queue, backends, window, connects,
                 retries, disconnects, restarts, opens, scopes, stops, answers, historyVars,
                 textVars, budget>>
=============================================================================
