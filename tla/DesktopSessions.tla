-------------------------- MODULE DesktopSessions --------------------------
(***************************************************************************)
(* Which session is on screen, and attaching the connection to it          *)
(* (crates/desktop/src/sessions.rs).                                       *)
(***************************************************************************)
EXTENDS DesktopConnect

Exists(s) == s \in Listed \/ \E c \in created : c.session = s

(* A request on the adapter fails for free when its stream is gone, and as   *)
(* an outside event otherwise.                                               *)
RequestFails(i) ==
  IF backends[i].stream = 0 THEN UNCHANGED budget ELSE Spend("fail")

(* resume_session and create_session scope the adapter to the session. *)
Scoped(i, ids) == backends' = [backends EXCEPT ![i].scope = ids]

-----------------------------------------------------------------------------
(* The task open() spawns. *)

OpenIs(o, pc) == opens' = (opens \ {o}) \cup {[o EXCEPT !.pc = pc]}

OpenIsStale(o) == ~ViewIsCurrent(o.view, o.session)

(* Takes the current backend's lock and checks the view under it. *)
OpenAttach(o) ==
  /\ o.pc = "attach"
  /\ \/ /\ OpenIsStale(o)
        /\ opens' = opens \ {o}
        /\ UNCHANGED backends
     \/ /\ ~OpenIsStale(o)
        /\ Free(Current)
        /\ Held(Current, "begin")
        /\ opens' = (opens \ {o}) \cup {[o EXCEPT !.pc = "ensure", !.inst = Current]}
  /\ UNCHANGED <<viewVars, connVars, enabled, turnVars, window, pumps, connects, retries,
                 disconnects, restarts, scopes, delivers, stops, answers, historyVars,
                 textVars, budget>>

OpenEnsured(o) ==
  /\ o.pc = "ensure"
  /\ \/ /\ backends[o.inst].guard = "ok"
        /\ Held(o.inst, "held")
        /\ OpenIs(o, "history")
     \/ /\ backends[o.inst].guard = "failed"
        /\ Held(o.inst, "free")
        /\ OpenIs(o, "lost")
  /\ UNCHANGED <<viewVars, connVars, enabled, turnVars, window, pumps, connects, retries,
                 disconnects, restarts, scopes, delivers, stops, answers, historyVars,
                 textVars, budget>>

(* messages(): while no turn is in flight the fetched history replaces what  *)
(* is drawn; all of it is the session's own.                                 *)
OpenHistory(o) ==
  /\ o.pc = "history"
  /\ \/ /\ OpenIsStale(o)
        /\ opens' = opens \ {o}
        /\ Held(o.inst, "free")
        /\ UNCHANGED <<origins, budget>>
     \/ /\ ~OpenIsStale(o)
        /\ OpenIs(o, "resume")
        /\ origins' = IF sending THEN origins ELSE {}
        /\ UNCHANGED <<backends, budget>>
     \/ /\ ~OpenIsStale(o)
        /\ RequestFails(o.inst)
        /\ OpenIs(o, "resume")
        /\ UNCHANGED <<origins, backends>>
  /\ UNCHANGED <<selected, stored, live, view_generation, connVars, enabled, turnVars, window,
                 pumps, connects, retries, disconnects, restarts, scopes, delivers, stops,
                 answers, historyVars, textVars>>

(* The last check before resume_session, and the resume itself. *)
OpenResume(o) ==
  /\ o.pc = "resume"
  /\ \/ /\ OpenIsStale(o)
        /\ opens' = opens \ {o}
        /\ Held(o.inst, "free")
        /\ UNCHANGED budget
     \/ /\ ~OpenIsStale(o)
        /\ Scoped(o.inst, {o.session})
        /\ OpenIs(o, "resumed")
        /\ UNCHANGED budget
     \/ /\ ~OpenIsStale(o)
        /\ RequestFails(o.inst)
        /\ OpenIs(o, "refused")
        /\ UNCHANGED backends
  /\ UNCHANGED <<viewVars, connVars, enabled, turnVars, window, pumps, connects, retries,
                 disconnects, restarts, scopes, delivers, stops, answers, historyVars,
                 textVars>>

(* The outcome is applied only to the view that asked; a scope set for a     *)
(* view that became a blank chat is taken back.                              *)
OpenResumed(o) ==
  /\ o.pc \in {"resumed", "refused"}
  /\ opens' = opens \ {o}
  /\ IF OpenIsStale(o)
     THEN /\ backends' = [backends EXCEPT ![o.inst].guard = "free",
                                          ![o.inst].scope = IF selected = None THEN {} ELSE @]
          /\ UNCHANGED <<live, stored, transport_ready>>
     ELSE /\ Held(o.inst, "free")
          /\ IF o.pc = "resumed"
             THEN live' = o.session /\ stored' = o.session /\ transport_ready' = TRUE
             ELSE UNCHANGED <<live, stored, transport_ready>>
  /\ UNCHANGED <<selected, view_generation, origins, connection, gateway_connecting,
                 reconnecting, retry_attempt, connect_generation, connection_epoch, enabled,
                 turnVars, window, pumps, connects, retries, disconnects, restarts, scopes,
                 delivers, stops, answers, historyVars, textVars, budget>>

(* stream_lost(): reads the generation in one region, schedules in another. *)
OpenStreamLost(o) ==
  /\ o.pc = "lost"
  /\ opens' = (opens \ {o}) \cup {[o EXCEPT !.pc = "retry", !.gen = connect_generation]}
  /\ UNCHANGED <<viewVars, connVars, enabled, turnVars, backends, window, pumps, connects,
                 retries, disconnects, restarts, scopes, delivers, stops, answers,
                 historyVars, textVars, budget>>

OpenRetry(o) ==
  /\ o.pc = "retry"
  /\ ScheduleRetry(o.gen)
  /\ opens' = opens \ {o}
  /\ UNCHANGED <<viewVars, enabled, turnVars, backends, window, pumps, connects, disconnects,
                 restarts, scopes, delivers, stops, answers, historyVars, textVars, budget>>

(* The task clear_scope_if_blank spawns. *)
ClearScope(t) ==
  /\ t \in scopes
  /\ Free(t.inst)
  /\ scopes' = scopes \ {t}
  /\ IF ViewIsCurrent(t.view, None) THEN Scoped(t.inst, {}) ELSE UNCHANGED backends
  /\ UNCHANGED <<viewVars, connVars, enabled, turnVars, window, pumps, connects, retries,
                 disconnects, restarts, opens, delivers, stops, answers, historyVars,
                 textVars, budget>>

-----------------------------------------------------------------------------
(* Commands. *)

OpenSession(s) ==
  /\ WindowIdle
  /\ Exists(s)
  /\ Owner[s] = kind
  /\ Spend("open")
  /\ Open(s)
  /\ UNCHANGED <<connVars, enabled, backends, window, pumps, connects, retries, disconnects,
                 restarts, scopes, delivers, stops, answers>>

(* new_chat: also what removing the session on screen and clearing the cache *)
(* end in.  clear_scope_if_blank is a region of its own.                     *)
NewChat ==
  /\ WindowIdle
  /\ Spend("new")
  /\ AdvanceView
  /\ ReturnPendingToComposer
  /\ selected' = None
  /\ stored' = None
  /\ live' = None
  /\ origins' = {}
  /\ sending' = FALSE
  /\ clarify' = None
  /\ stopping' = FALSE
  /\ WindowIs("scope", NoText)
  /\ UNCHANGED <<connVars, enabled, turn_seq, backends, pumps, connects, retries, disconnects,
                 restarts, opens, scopes, delivers, stops, answers, historyVars, typed>>

WindowClearsScope ==
  /\ window.pc = "scope"
  /\ ClearScopeIfBlank
  /\ WindowIs("idle", NoText)
  /\ UNCHANGED <<viewVars, connVars, enabled, turnVars, backends, pumps, connects, retries,
                 disconnects, restarts, opens, delivers, stops, answers, historyVars,
                 textVars, budget>>

(* A list request that fails: refresh() is called after every connect, turn  *)
(* and "sessions changed", so it may fail whenever the client is connected.  *)
ListFails ==
  /\ connection = "Connected"
  /\ Spend("fail")
  /\ connection' = "Degraded"
  /\ UNCHANGED <<viewVars, transport_ready, gateway_connecting, reconnecting, retry_attempt,
                 connect_generation, connection_epoch, enabled, turnVars, backends, window,
                 pumps, connects, retries, disconnects, restarts, opens, scopes, delivers,
                 stops, answers, historyVars, textVars>>
=============================================================================
