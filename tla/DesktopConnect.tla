--------------------------- MODULE DesktopConnect ---------------------------
(***************************************************************************)
(* Connecting, disconnecting, switching backends and coming back after a   *)
(* drop (crates/desktop/src/connect.rs).                                   *)
(***************************************************************************)
EXTENDS DesktopState

(* connect(): the region every caller runs.  A connect in flight that is    *)
(* not a scheduled retry owns the work.                                     *)
Connect ==
  IF connection = "Connecting" /\ ~reconnecting
  THEN UNCHANGED <<connVars, connects>>
  ELSE /\ reconnecting' = FALSE
       /\ connection' = "Connecting"
       /\ transport_ready' = FALSE
       /\ connect_generation' = connect_generation + 1
       /\ connects' = connects \cup {[gen |-> connect_generation + 1, pc |-> "probe",
                                      inst |-> 0, session |-> None]}
       /\ UNCHANGED <<gateway_connecting, retry_attempt, connection_epoch>>

(* The region of schedule_retry. *)
ScheduleRetry(gen) ==
  IF connect_generation # gen \/ ~enabled
  THEN UNCHANGED <<connVars, retries>>
  ELSE /\ retry_attempt' = retry_attempt + 1
       /\ reconnecting' = TRUE
       /\ retries' = retries \cup {[gen |-> gen, attempt |-> retry_attempt, pc |-> "sleep"]}
       /\ UNCHANGED <<connection, transport_ready, gateway_connecting,
                      connect_generation, connection_epoch>>

(* clear_scope_if_blank: reads the backend and the view, leaves the rest to a task. *)
ClearScopeIfBlank == scopes' = scopes \cup {[view |-> view_generation, inst |-> Current]}

(* open(): show a session, and spawn the task that attaches it when the     *)
(* backend's switch is on.                                                  *)
Open(s) ==
  /\ AdvanceView
  /\ ReturnPendingToComposer
  /\ selected' = s
  /\ stored' = s
  /\ live' = None
  /\ clarify' = None
  /\ stopping' = FALSE
  /\ sending' = FALSE
  /\ origins' = {}
  /\ opened' = opened \cup {s}
  /\ opens' = IF enabled
              THEN opens \cup {[view |-> view_generation + 1, session |-> s, inst |-> 0,
                                gen |-> 0, pc |-> "attach"]}
              ELSE opens
  /\ UNCHANGED <<turn_seq, delivered, created, typed>>

-----------------------------------------------------------------------------
(* The connect task. *)

ConnectIs(c, pc) == connects' = (connects \ {c}) \cup {[c EXCEPT !.pc = pc]}

(* A mutant: a connect that was overtaken goes on. *)
NeverOvertaken(c) == FALSE

Overtaken(c) == connect_generation # c.gen

(* ensure_running and probe, then the region that reads their outcome.      *)
ConnectProbed(c) ==
  /\ c.pc = "probe"
  /\ \/ /\ Overtaken(c)
        /\ connects' = connects \ {c}
        /\ UNCHANGED <<connVars, budget>>
     \/ /\ ~Overtaken(c)
        /\ ConnectIs(c, "attach")
        /\ UNCHANGED <<connVars, budget>>
     \/ /\ ~Overtaken(c)
        /\ Spend("fail")
        /\ connection' = "Failed"
        /\ ConnectIs(c, "retry")
        /\ UNCHANGED <<transport_ready, gateway_connecting, reconnecting, retry_attempt,
                       connect_generation, connection_epoch>>
  /\ UNCHANGED <<viewVars, enabled, turnVars, backends, window, pumps, retries, disconnects,
                 restarts, opens, scopes, delivers, stops, answers, historyVars, textVars>>

(* The current backend's lock, and the check under it. *)
ConnectAttach(c) ==
  /\ c.pc = "attach"
  /\ \/ /\ Overtaken(c)
        /\ connects' = connects \ {c}
        /\ UNCHANGED backends
     \/ /\ ~Overtaken(c)
        /\ Free(Current)
        /\ Held(Current, "begin")
        /\ connects' = (connects \ {c}) \cup {[c EXCEPT !.pc = "ensure", !.inst = Current]}
  /\ UNCHANGED <<viewVars, connVars, enabled, turnVars, window, pumps, retries, disconnects,
                 restarts, opens, scopes, delivers, stops, answers, historyVars, textVars,
                 budget>>

(* ensure_stream has returned; the lock is dropped either way. *)
ConnectEnsured(c) ==
  /\ c.pc = "ensure"
  /\ backends[c.inst].guard \in {"ok", "failed"}
  /\ Held(c.inst, "free")
  /\ ConnectIs(c, IF backends[c.inst].guard = "ok" THEN "reopen" ELSE "retry")
  /\ UNCHANGED <<viewVars, connVars, enabled, turnVars, window, pumps, retries, disconnects,
                 restarts, opens, scopes, delivers, stops, answers, historyVars, textVars,
                 budget>>

ConnectRetry(c) ==
  /\ c.pc = "retry"
  /\ ScheduleRetry(c.gen)
  /\ connects' = connects \ {c}
  /\ UNCHANGED <<viewVars, enabled, turnVars, backends, window, pumps, disconnects, restarts,
                 opens, scopes, delivers, stops, answers, historyVars, textVars, budget>>

(* Which conversation to come back to, read in one region ... *)
ConnectReopen(c) ==
  /\ c.pc = "reopen"
  /\ connects' = (connects \ {c}) \cup {[c EXCEPT !.pc = "open", !.session = selected]}
  /\ UNCHANGED <<viewVars, connVars, enabled, turnVars, backends, window, pumps, retries,
                 disconnects, restarts, opens, scopes, delivers, stops, answers, historyVars,
                 textVars, budget>>

(* A mutant: a blank chat is reopened as well. *)
ReopensAnything(s) == TRUE

Reopens(s) == s # None

(* ... and opened in another. *)
ConnectOpen(c) ==
  /\ c.pc = "open"
  /\ connects' = connects \ {c}
  /\ IF Reopens(c.session)
     THEN Open(c.session) /\ UNCHANGED scopes
     ELSE ClearScopeIfBlank /\ UNCHANGED <<viewVars, turnVars, opens, historyVars, textVars>>
  /\ UNCHANGED <<connVars, enabled, backends, window, pumps, retries, disconnects, restarts,
                 delivers, stops, answers, budget>>

-----------------------------------------------------------------------------
(* ensure_stream, run by whichever task holds the adapter's lock. *)

EnsureBegin(i) ==
  /\ backends[i].guard = "begin"
  /\ \/ /\ transport_ready
        /\ Held(i, "ok")
        /\ UNCHANGED <<connVars, pumps, budget>>
     \/ /\ ~transport_ready               \* "Missing Hermes session token"
        /\ Spend("fail")
        /\ connection' = "Failed"
        /\ Held(i, "failed")
        /\ UNCHANGED <<transport_ready, gateway_connecting, reconnecting, retry_attempt,
                       connect_generation, connection_epoch, pumps>>
     \/ /\ ~transport_ready
        /\ gateway_connecting' = TRUE
        /\ connection' = IF connection = "Connected" THEN connection ELSE "Connecting"
        /\ connection_epoch' = connection_epoch + 1
        /\ pumps' = pumps \cup {[epoch |-> connection_epoch + 1, events |-> <<>>,
                                 pc |-> "idle", gen |-> 0, text |-> NoText]}
        /\ backends' = [backends EXCEPT ![i].guard = "dial", ![i].channel = connection_epoch + 1]
        /\ UNCHANGED <<transport_ready, reconnecting, retry_attempt, connect_generation, budget>>
  /\ UNCHANGED <<viewVars, enabled, turnVars, window, connects, retries, disconnects, restarts,
                 opens, scopes, delivers, stops, answers, historyVars, textVars>>

(* The adapter closes its own stream.  A socket's last word is Disconnected; *)
(* an aborted event task (OpenCode, the CLI) says nothing.                   *)
LastWord(i) == pumps' \in {pumps, Emit(pumps, backends[i].stream, Plain("Disconnected"))}

(* The epoch is read in a region of its own, then the adapter connects: it   *)
(* closes the stream it had, forgets the session it was scoped to, and opens *)
(* one that reports to the new channel.                                      *)
EnsureDial(i) ==
  LET b == backends[i]
      dialled == [b EXCEPT !.epoch = connection_epoch, !.up = FALSE, !.scope = {}]
  IN
  /\ b.guard = "dial"
  /\ LastWord(i)
  /\ \/ /\ backends' = [backends EXCEPT ![i] = [dialled EXCEPT !.guard = "dialled",
                                                               !.stream = b.channel]]
        /\ UNCHANGED budget
     \/ /\ Spend("fail")
        /\ backends' = [backends EXCEPT ![i] = [dialled EXCEPT !.guard = "refused",
                                                               !.stream = 0]]
  /\ UNCHANGED <<viewVars, connVars, enabled, turnVars, window, connects, retries, disconnects,
                 restarts, opens, scopes, delivers, stops, answers, historyVars, textVars>>

EnsureSettle(i) ==
  LET b == backends[i] IN
  /\ b.guard \in {"dialled", "refused"}
  /\ IF connection_epoch # b.epoch
     THEN /\ Held(i, "failed")            \* "the connection was replaced"
          /\ UNCHANGED connVars
     ELSE /\ gateway_connecting' = FALSE
          /\ transport_ready' = (b.guard = "dialled")
          /\ connection' = IF b.guard = "dialled" THEN connection ELSE "Failed"
          /\ Held(i, IF b.guard = "dialled" THEN "ok" ELSE "failed")
          /\ UNCHANGED <<reconnecting, retry_attempt, connect_generation, connection_epoch>>
  /\ UNCHANGED <<viewVars, enabled, turnVars, window, pumps, connects, retries, disconnects,
                 restarts, opens, scopes, delivers, stops, answers, historyVars, textVars,
                 budget>>

-----------------------------------------------------------------------------
(* A mutant: a connection that failed, rather than dropped, is not retried. *)
RetryIfDropped(r) == connect_generation = r.gen /\ connection = "Disconnected"

StillWanted(r) == connect_generation = r.gen /\ reconnecting

(* The retry timer: one region checks, connect() runs in the next. *)
RetryFires(r) ==
  /\ r.pc = "sleep"
  /\ retries' = IF StillWanted(r)
                THEN (retries \ {r}) \cup {[r EXCEPT !.pc = "connect"]}
                ELSE retries \ {r}
  /\ UNCHANGED <<viewVars, connVars, enabled, turnVars, backends, window, pumps, connects,
                 disconnects, restarts, opens, scopes, delivers, stops, answers, historyVars,
                 textVars, budget>>

RetryConnects(r) ==
  /\ r.pc = "connect"
  /\ Connect
  /\ retries' = retries \ {r}
  /\ UNCHANGED <<viewVars, enabled, turnVars, backends, window, pumps, disconnects, restarts,
                 opens, scopes, delivers, stops, answers, historyVars, textVars, budget>>

(* A mutant: an adapter is closed without waiting for whoever uses it. *)
ClosesUnlocked(i) == i \in disconnects

ClosesLocked(i) == i \in disconnects /\ Free(i)

(* The task that disconnects an adapter once its lock is free. *)
AdapterDisconnects(i) ==
  /\ ClosesLocked(i)
  /\ disconnects' = disconnects \ {i}
  /\ LastWord(i)
  /\ backends' = [backends EXCEPT ![i].stream = 0, ![i].up = FALSE, ![i].scope = {}]
  /\ UNCHANGED <<viewVars, connVars, enabled, turnVars, window, connects, retries, restarts,
                 opens, scopes, delivers, stops, answers, historyVars, textVars, budget>>

-----------------------------------------------------------------------------
(* Commands of the window thread. *)

WindowIdle == window.pc = "idle"

WindowIs(pc, text) == window' = [pc |-> pc, text |-> text]

(* "start", "connect" and a refresh of a dead transport, with the switch on. *)
CommandConnect ==
  /\ WindowIdle
  /\ enabled
  /\ Spend("connect")
  /\ Connect
  /\ UNCHANGED <<viewVars, enabled, turnVars, backends, window, pumps, retries, disconnects,
                 restarts, opens, scopes, delivers, stops, answers, historyVars, textVars>>

(* disable_backend of the active kind: the switch and disconnect().  The two *)
(* regions are one step: only schedule_retry reads the switch without the    *)
(* generation, and after either region it does nothing.                      *)
DisableBackend ==
  /\ WindowIdle
  /\ Spend("disconnect")
  /\ enabled' = FALSE
  /\ AdvanceView
  /\ connect_generation' = connect_generation + 1
  /\ connection_epoch' = connection_epoch + 1
  /\ transport_ready' = FALSE
  /\ gateway_connecting' = FALSE
  /\ reconnecting' = FALSE
  /\ retry_attempt' = 0
  /\ live' = None
  /\ connection' = "Disconnected"
  /\ clarify' = None
  /\ stopping' = FALSE
  /\ sending' = FALSE
  /\ disconnects' = disconnects \cup {Current}
  /\ UNCHANGED <<selected, stored, origins, turn_seq, queue, backends, window, pumps, connects,
                 retries, restarts, opens, scopes, delivers, stops, answers, historyVars,
                 textVars>>

(* switch_backend: another kind, or the same one after it was switched off.  *)
SwitchBackend(k) ==
  /\ WindowIdle
  /\ k # kind \/ ~enabled
  /\ Spend("switch")
  /\ enabled' = TRUE
  /\ AdvanceView
  /\ connect_generation' = connect_generation + 1
  /\ connection_epoch' = connection_epoch + 1
  /\ transport_ready' = FALSE
  /\ gateway_connecting' = FALSE
  /\ reconnecting' = FALSE
  /\ retry_attempt' = 0
  /\ connection' = "Disconnected"
  /\ selected' = None
  /\ stored' = None
  /\ live' = None
  /\ origins' = {}
  /\ sending' = FALSE
  /\ clarify' = None
  /\ stopping' = FALSE
  /\ ReturnPendingToComposer
  /\ disconnects' = disconnects \cup {Current}
  /\ backends' = Append(backends, NewAdapter(k))
  /\ WindowIs("connect", NoText)
  /\ UNCHANGED <<turn_seq, pumps, connects, retries, restarts, opens, scopes, delivers, stops,
                 answers, historyVars, typed>>

(* ... and the connect() it ends with. *)
WindowConnects ==
  /\ window.pc = "connect"
  /\ Connect
  /\ WindowIs("idle", NoText)
  /\ UNCHANGED <<viewVars, enabled, turnVars, backends, pumps, retries, disconnects, restarts,
                 opens, scopes, delivers, stops, answers, historyVars, textVars, budget>>

(* apply_workspace: the managed server is restarted in another directory,    *)
(* never while a reply is being written; the connection follows it.          *)
ApplyWorkspace ==
  /\ WindowIdle
  /\ enabled
  /\ ~sending
  /\ Spend("workspace")
  /\ restarts' = restarts \cup {"restart"}
  /\ UNCHANGED <<viewVars, connVars, enabled, turnVars, backends, window, pumps, connects,
                 retries, disconnects, opens, scopes, delivers, stops, answers, historyVars,
                 textVars>>

ServerRestarted ==
  /\ "restart" \in restarts
  /\ restarts' = (restarts \ {"restart"}) \cup {"connect"}
  /\ transport_ready' = FALSE
  /\ connection_epoch' = connection_epoch + 1
  /\ live' = None
  /\ UNCHANGED <<selected, stored, view_generation, origins, connection, gateway_connecting,
                 reconnecting, retry_attempt, connect_generation, enabled, turnVars, backends,
                 window, pumps, connects, retries, disconnects, opens, scopes, delivers, stops,
                 answers, historyVars, textVars, budget>>

RestartConnects ==
  /\ "connect" \in restarts
  /\ Connect
  /\ restarts' = restarts \ {"connect"}
  /\ UNCHANGED <<viewVars, enabled, turnVars, backends, window, pumps, retries, disconnects,
                 opens, scopes, delivers, stops, answers, historyVars, textVars, budget>>
=============================================================================
