---------------------------- MODULE MobileClient ----------------------------
(***************************************************************************)
(* The phone's bridge put together (crates/mobile/src/client.rs): Dart's   *)
(* commands, what the agents and the network do, and what the bridge       *)
(* promises.                                                               *)
(***************************************************************************)
EXTENDS MobileTasks

commandOnly == <<agents, restored, pumps, opens, catchups, sends>>

SavedSession ==
  IF settings.saved # None /\ settings.saved.backend = settings.kind
  THEN settings.saved.id ELSE None

(* Client::connect, and the pump it starts. *)
NewPump(i) ==
  [gen |-> generation + 1, inst |-> i, saved |-> SavedSession, session |-> None,
   inbox |-> <<>>, pc |-> "attempt"]

LeavesAlone(force) == live /\ (~force \/ view.conv.sending)

Connects(force) ==
  IF LeavesAlone(force) THEN UNCHANGED <<atomics, pumps, slot, adapters>>
  ELSE /\ wanted' = TRUE /\ live' = FALSE /\ generation' = generation + 1
       /\ TakesBackend(settings.kind)
       /\ pumps' = pumps \cup {NewPump(BackendFor(settings.kind))}

(* report_settings, when the app starts. *)
Launches ==
  /\ ui = "launch" /\ ui' = "idle"
  /\ IF settings.enabled = settings.kind THEN Connects(FALSE)
     ELSE UNCHANGED <<atomics, pumps, slot, adapters>>
  /\ UNCHANGED <<settings, screen, opens, catchups, sends, closes, scopes, agents, restored,
                 prompt, budget>>

(* Dart's connect() is configure and then connect. *)
Configures(k) ==
  /\ ui = "idle" /\ Spend("connect")
  /\ settings' = [settings EXCEPT !.kind = k, !.enabled = k]
  /\ IF k = view.backend THEN UNCHANGED screen ELSE SwitchesTo(None, k)
  /\ ui' = "connect"
  /\ UNCHANGED <<adapters, slot, atomics, tasks, agents, restored, prompt>>

ConnectCommand ==
  /\ ui = "connect" /\ ui' = "idle"
  /\ Connects(FALSE)
  /\ UNCHANGED <<settings, screen, opens, catchups, sends, closes, scopes, agents, restored,
                 prompt, budget>>

EnsureConnected ==
  /\ ui = "idle" /\ Spend("ensure")
  /\ \E force \in BOOLEAN : Connects(force)
  /\ UNCHANGED <<settings, screen, opens, catchups, sends, closes, scopes, ui, agents, restored,
                 prompt>>

DisconnectCommand ==
  /\ ui = "idle" /\ Spend("disconnect")
  /\ wanted' = FALSE /\ live' = FALSE /\ generation' = generation + 1
  /\ settings' = [settings EXCEPT !.enabled = IF @ = settings.kind THEN None ELSE @]
  /\ TakesBackend(settings.kind)
  /\ closes' = closes \cup {BackendFor(settings.kind)}
  /\ UNCHANGED <<screen, pumps, opens, catchups, sends, scopes, ui, agents, restored, prompt>>

DisconnectTask(i) ==
  /\ i \in closes /\ FreeAdapter(i)
  /\ Disconnects(i)
  /\ closes' = closes \ {i}
  /\ UNCHANGED <<settings, slot, atomics, screen, pumps, opens, catchups, sends, scopes, ui,
                 agents, restored, prompt, budget>>

Refresh ==
  /\ ui = "idle" /\ Spend("refresh") /\ view.stored # None
  /\ TakesBackend(settings.kind)
  /\ catchups' = catchups \cup {CatchupOf(view.stored, BackendFor(settings.kind), 0)}
  /\ UNCHANGED <<settings, atomics, screen, pumps, opens, sends, closes, scopes, ui, agents,
                 restored, prompt>>

OpenSession(s) ==
  /\ ui = "idle" /\ Spend("open")
  /\ Owner[s] = settings.kind
  /\ s \in Listed \/ \E p \in DOMAIN taken : taken[p] = s
  /\ settings' = [settings EXCEPT !.saved = [backend |-> settings.kind, id |-> s]]
  /\ TakesBackend(settings.kind)
  /\ opens' = opens \cup {[session |-> s, inst |-> BackendFor(settings.kind), by |-> 0,
                           view |-> 0, got |-> {}, pc |-> "start"]}
  /\ UNCHANGED <<atomics, screen, pumps, catchups, sends, closes, scopes, ui, agents, restored,
                 prompt>>

NewSession ==
  /\ ui = "idle" /\ Spend("new")
  /\ SwitchesTo(None, view.backend)
  /\ settings' = [settings EXCEPT !.saved = None]
  /\ TakesBackend(settings.kind)
  /\ scopes' = scopes \cup {[view |-> view.gen + 1, inst |-> BackendFor(settings.kind)]}
  /\ UNCHANGED <<atomics, pumps, opens, catchups, sends, closes, ui, agents, restored, prompt>>

ClearsScope(t) ==
  /\ t \in scopes /\ FreeAdapter(t.inst)
  /\ IF IsCurrent(t.view, None) THEN SetScope(t.inst, None) ELSE UNCHANGED adapters
  /\ scopes' = scopes \ {t}
  /\ UNCHANGED <<settings, slot, atomics, screen, pumps, opens, catchups, sends, closes, ui,
                 agents, restored, prompt, budget>>

(* A second prompt for a blank chat, before the first has made its session. *)
SentAgain == Key(view) = None /\ \E d \in sends : d.view = view.gen

(* Refused unless connected and the last reply is complete. *)
Send ==
  /\ ui = "idle" /\ Spend(IF SentAgain THEN "again" ELSE "text")
  /\ live /\ ~view.conv.sending
  /\ prompt' = prompt + 1
  /\ Shows([view EXCEPT !.conv = [shown |-> @.shown \cup {prompt + 1}, sending |-> TRUE]])
  /\ TakesBackend(settings.kind)
  /\ sends' = sends \cup {[prompt |-> prompt + 1, view |-> view.gen,
                           inst |-> BackendFor(settings.kind), live |-> view.live,
                           stored |-> view.stored, session |-> None, pc |-> "lock"]}
  /\ UNCHANGED <<settings, atomics, pumps, opens, catchups, closes, scopes, ui, agents, restored>>

Interrupt ==
  /\ ui = "idle" /\ Spend("interrupt")
  /\ Shows(FinishTurn)
  /\ TakesBackend(settings.kind)
  /\ UNCHANGED <<settings, atomics, tasks, ui, agents, restored, prompt>>

CommandNext ==
  \/ Launches \/ ConnectCommand \/ EnsureConnected \/ DisconnectCommand \/ Refresh
  \/ \E k \in Kind : Configures(k)
  \/ \E s \in Session : OpenSession(s)
  \/ NewSession \/ Send \/ Interrupt

-----------------------------------------------------------------------------
(* The agents and the network.                                              *)

Delivers(i, e) ==
  pumps' = {IF p.inst = i /\ p.gen = adapters[i].stream
            THEN [p EXCEPT !.inbox = Append(@, e)] ELSE p : p \in pumps}

(* A turn ends; whoever is scoped to its session hears of it. *)
TurnEnds(s) ==
  /\ s \in running /\ running' = running \ {s}
  /\ \/ \E i \in DOMAIN adapters :
          adapters[i].stream # 0 /\ adapters[i].scope = s /\ Delivers(i, "done")
     \/ /\ \A i \in DOMAIN adapters : adapters[i].stream = 0 \/ adapters[i].scope # s
        /\ UNCHANGED pumps
  /\ UNCHANGED <<settings, adapters, slot, atomics, screen, opens, catchups, sends, closes,
                 scopes, ui, taken, restored, prompt, budget>>

Announces(i) ==
  /\ Spend("info")
  /\ adapters[i].stream # 0 /\ adapters[i].scope # None
  /\ Delivers(i, adapters[i].scope)
  /\ UNCHANGED <<settings, adapters, slot, atomics, screen, opens, catchups, sends, closes,
                 scopes, ui, agents, restored, prompt>>

(* The stream goes, with or without a last word. *)
Drops(i) ==
  /\ Spend("drop")
  /\ adapters[i].stream # 0
  /\ adapters' = [adapters EXCEPT ![i].stream = 0]
  /\ Delivers(i, "failed") \/ UNCHANGED pumps
  /\ UNCHANGED <<settings, slot, atomics, screen, opens, catchups, sends, closes, scopes, ui,
                 agents, restored, prompt>>

WorldNext ==
  \/ \E s \in Session : TurnEnds(s)
  \/ \E i \in DOMAIN adapters : Announces(i) \/ Drops(i)
  \/ \E p \in pumps : PumpFails(p)

LateTaskNext == (\E i \in closes : DisconnectTask(i)) \/ (\E t \in scopes : ClearsScope(t))

Next ==
  \/ CommandNext \/ WorldNext
  \/ PumpNext \/ OpenNext \/ CatchupNext \/ SendNext \/ LateTaskNext

(* The runtime polls every task, Dart ends what it began, nobody else must. *)
Fairness ==
  /\ WF_vars(PumpNext) /\ WF_vars(OpenNext) /\ WF_vars(CatchupNext) /\ WF_vars(SendNext)
  /\ WF_vars(LateTaskNext) /\ WF_vars(ConnectCommand)

Spec == Init /\ [][Next]_vars

FairSpec == Spec /\ Fairness
-----------------------------------------------------------------------------
(* What it promises.                                                        *)

(* A prompt goes to the conversation that was on screen when it was typed,  *)
(* and a session is made for it only when that was a blank chat: send() and *)
(* its task.                                                                *)
GoesWhereTyped(d, s) ==
  IF d.stored # None THEN s = d.stored
  ELSE IF d.live # None THEN s = d.live
  ELSE s \notin Listed /\ \A p \in DOMAIN taken : taken[p] # s

PromptStaysInItsConversation ==
  [][\A d \in sends : d.prompt \in DOMAIN taken' \ DOMAIN taken
                       => GoesWhereTyped(d, taken'[d.prompt])]_vars

(* A late history or resume never puts one session's prompts into another's *)
(* transcript, on screen, parked or in the cache: open_on, catch_up_history.*)
TranscriptsAreTheirOwn ==
  /\ \A p \in view.conv.shown \cap DOMAIN taken : taken[p] = Key(view)
  /\ \A k \in DOMAIN parked \cap Session :
       \A p \in parked[k].shown \cap DOMAIN taken : taken[p] = k
  /\ \A k \in DOMAIN archive : \A p \in archive[k] \cap DOMAIN taken : taken[p] = k[2]

(* Going from one conversation to another loses nothing of either, also     *)
(* when what is parked is evicted: switch_to.                               *)
Kept(s) ==
  IF Key(view) = s THEN view.conv.shown
  ELSE IF s \in DOMAIN parked /\ parked[s].shown # {} THEN parked[s].shown
  ELSE archive[<<view.backend, s>>]

TranscriptSurvives ==
  [][view'.gen # view.gen /\ view'.backend = view.backend
       => \A s \in Session : Kept(s) \subseteq Kept(s)']_vars

(* What was given back to the composer is in no transcript any more and no  *)
(* task is still about to send it, so it can be sent again without being    *)
(* there twice.  Only a prompt an agent took although the call failed is    *)
(* both given back and, with the next history, in its transcript again:     *)
(* restore_prompt.                                                          *)
RestoredIsGone ==
  LET given == restored \ DOMAIN taken IN
  /\ given \cap view.conv.shown = {}
  /\ \A k \in DOMAIN parked : parked[k].shown \cap given = {}
  /\ \A k \in DOMAIN archive : archive[k] \cap given = {}
  /\ \A d \in sends : d.prompt \notin restored

(* The pump of the connection the app is on hears the agent. *)
Online ==
  \E p \in pumps : /\ p.gen = generation
                   /\ p.pc \in {"resume", "resumed", "open", "catchup", "drain"}
                   /\ adapters[p.inst].stream = p.gen

(* A connection the user closed stays closed: disconnect.                   *)
ClosedStaysClosed ==
  ~wanted /\ pumps = {} /\ closes = {} => ~live /\ \A i \in DOMAIN adapters : adapters[i].stream = 0

(* As long as the user wants to be connected, the client is or gets there,  *)
(* whatever pumps of older connections still do: pump.                      *)
PhoneComesBack == wanted ~> (live /\ Online) \/ ~wanted

(* A turn whose stream is gone does not leave its spinner turning, also      *)
(* when the client is back before the agent is done: pump.                  *)
SpinnerStops == (view.conv.sending /\ ~Online) ~> ~(view.conv.sending /\ wanted)
=============================================================================
