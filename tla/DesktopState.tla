---------------------------- MODULE DesktopState ----------------------------
(***************************************************************************)
(* The state of the desktop client core (crates/desktop/src/state.rs and   *)
(* client.rs): one `State` behind one mutex, the tasks spawned on the tokio *)
(* runtime, and the backend adapters they talk to.                         *)
(*                                                                         *)
(* Every region of code that runs under one `shared.lock()` is one step.   *)
(* Between two regions of the same function anything else may run.  The    *)
(* backend mutex of an adapter (`Arc<AsyncMutex<Backend>>`) is held across *)
(* awaits; it is the field `guard` of the adapter's record.                *)
(*                                                                         *)
(* Abstractions.  A session's live id, stored id and key are one value.    *)
(* The transcript is `sending` plus the set of sessions whose frames were  *)
(* folded into it.  Texts are numbered in the order they are typed.  The   *)
(* sidebar list, the disk cache and the settings file are not here.        *)
(***************************************************************************)
EXTENDS Naturals, Sequences, FiniteSets

CONSTANTS
  Kind,              \* the kinds of backend (Hermes, OpenClaw, ...)
  Session,           \* every session any backend has or will create
  None,              \* no session
  Owner,             \* Owner[s]: the kind of backend that issued session s
  Listed,            \* the sessions that exist when the client starts
  AnnouncesSessions, \* the gateway sends session.info frames (Hermes)
  FansOutQuestions,  \* questions reach every client, unfiltered (OpenClaw approvals)
  Scenarios          \* the session the cache names at the start, and how often each
                     \* class of outside event may happen

Class == {"connect", "disconnect", "switch", "workspace", "open", "new", "text",
          "stop", "queue", "dismiss", "drop", "reject", "fail", "frame", "question", "info"}

ASSUME ConstantsAssumption ==
  /\ None \notin Session
  /\ Owner \in [Session -> Kind]
  /\ Listed \subseteq Session
  /\ AnnouncesSessions \in BOOLEAN
  /\ FansOutQuestions \in BOOLEAN
  /\ Scenarios \subseteq [launch : Listed \cup {None}, budget : [Class -> Nat]]

VARIABLES
  \* which conversation is on screen
  selected, stored, live, view_generation, origins,
  \* the connection
  connection, transport_ready, gateway_connecting, reconnecting,
  retry_attempt, connect_generation, connection_epoch, enabled,
  \* the turn, the question it asked and the prompts behind it
  sending, stopping, turn_seq, clarify, queue,
  \* the adapters, one per Arc<AsyncMutex<Backend>> ever made; the last is current
  backends,
  \* the window thread and the spawned tasks
  window, pumps, connects, retries, disconnects, restarts, opens, scopes,
  delivers, stops, answers,
  \* history, for the properties only
  typed, settled, delivered, created, opened,
  \* the bound on outside events
  budget

viewVars    == <<selected, stored, live, view_generation, origins>>
connVars    == <<connection, transport_ready, gateway_connecting, reconnecting,
                 retry_attempt, connect_generation, connection_epoch>>
turnVars    == <<sending, stopping, turn_seq, clarify, queue>>
historyVars == <<delivered, created, opened>>
textVars    == <<typed, settled>>

vars == <<viewVars, connVars, enabled, turnVars, backends, window, pumps, connects, retries,
          disconnects, restarts, opens, scopes, delivers, stops, answers,
          historyVars, textVars, budget>>

-----------------------------------------------------------------------------
(* Types. *)

SessionOrNone == Session \cup {None}

Connection == {"Disconnected", "Connecting", "Connected", "Degraded", "Failed"}

(* A prompt or an answer, with the session on screen when it was typed. *)
Text   == [id : Nat, home : SessionOrNone]
NoText == [id |-> 0, home |-> None]

Event ==
  [kind : {"Connected", "Disconnected", "Failed"}, session : {None}]
    \cup [kind : {"SessionInfo", "Delta", "Complete", "TurnFailed", "Clarify"}, session : Session]

(* An adapter.  `guard` is its mutex: free, held by a task, or held by one  *)
(* that is inside ensure_stream, which leaves "ok" or "failed" behind;      *)
(* `channel` is the epoch of the channel being opened and `epoch` the one   *)
(* ensure_stream read.  `stream` is the epoch the open stream reports to (0 *)
(* when there is none), `up` whether it has said Connected, `scope` the ids *)
(* its filter lets through.                                                 *)
Adapter == [kind : Kind,
            guard : {"free", "held", "begin", "dial", "dialled", "refused", "ok", "failed"},
            channel : Nat, epoch : Nat,
            stream : Nat, up : BOOLEAN, scope : SUBSET Session]

NewAdapter(k) == [kind |-> k, guard |-> "free", channel |-> 0, epoch |-> 0,
                  stream |-> 0, up |-> FALSE, scope |-> {}]

(* The window thread runs commands one at a time; `pc` is what the current  *)
(* one still has to do.                                                     *)
WindowThread == [pc : {"idle", "connect", "scope", "send", "answer", "stop", "after"},
                 text : Text]
Pump       == [epoch : Nat, events : Seq(Event),
               pc : {"idle", "lost", "retry", "after", "send"}, gen : Nat, text : Text]
ConnectTask == [gen : Nat, pc : {"probe", "attach", "ensure", "retry", "reopen", "open"},
               inst : Nat, session : SessionOrNone]
RetryTimer == [gen : Nat, attempt : Nat, pc : {"sleep", "connect"}]
OpenTask   == [view : Nat, session : Session, inst : Nat, gen : Nat,
               pc : {"attach", "ensure", "history", "resume", "resumed", "refused",
                     "lost", "retry"}]
ScopeTask  == [view : Nat, inst : Nat]
DeliverTask ==
  {d \in [text : Text, view : Nat, turn : Nat, home : SessionOrNone,
          inst : Nat, target : SessionOrNone,
          pc : {"check", "connect", "wait", "ready", "lock", "ensure", "resume",
                "resumed", "create", "created", "submit", "back"}] :
     d.pc \in {"resume", "resumed", "created", "submit"} => d.target \in Session}
StopTask == [turn : Nat, inst : Nat, live : SessionOrNone,
               pc : {"interrupt", "grace", "after", "send"}, text : Text]
AnswerTask == [text : Text, inst : Nat]
RestartTask == {"restart", "connect"}

-----------------------------------------------------------------------------
(* The rules of state.rs. *)

(* The Arc in state.backend is always the newest adapter. *)
Current == Len(backends)

kind == backends[Current].kind

AdvanceView == view_generation' = view_generation + 1

ViewIsCurrent(generation, expected) ==
  /\ generation = view_generation
  /\ selected = expected

AcceptsTurnEvents == live # None \/ stored = None

(* Another outside event of class c happens. *)
Spend(c) ==
  /\ budget[c] > 0
  /\ budget' = [budget EXCEPT ![c] = @ - 1]

(* Texts that reached a resting place: back in the composer, cancelled,     *)
(* acknowledged by the backend or given as an answer.                       *)
Settle(ids, where) == settled' = settled \cup {<<n, where>> : n \in ids}

QueuedIds == {queue[n].id : n \in DOMAIN queue}

(* A mutant: a conversation is left and its queue stays. *)
KeepPending == UNCHANGED <<queue, settled>>

(* return_pending_to_composer: every queued prompt goes back to the composer. *)
ReturnPendingToComposer ==
  /\ queue' = <<>>
  /\ Settle(QueuedIds, "composer")

(* An adapter reports an event on the channel of the given epoch. *)
Emit(ps, e, event) ==
  {IF p.epoch = e THEN [p EXCEPT !.events = Append(@, event)] ELSE p : p \in ps}

Plain(k) == [kind |-> k, session |-> None]

Free(i) == backends[i].guard = "free"

Held(i, g) == backends' = [backends EXCEPT ![i].guard = g]

-----------------------------------------------------------------------------
(* Client::new: nothing connected, the session the cache names on screen.   *)
Init ==
  /\ \E k \in Kind, start \in Scenarios :
       /\ backends = <<NewAdapter(k)>>
       /\ selected = start.launch
       /\ start.launch \in {s \in Listed : Owner[s] = k} \cup {None}
       /\ budget = start.budget
  /\ stored = selected
  /\ live = None
  /\ view_generation = 0
  /\ origins = {}
  /\ connection = "Disconnected"
  /\ transport_ready = FALSE
  /\ gateway_connecting = FALSE
  /\ reconnecting = FALSE
  /\ retry_attempt = 0
  /\ connect_generation = 0
  /\ connection_epoch = 0
  /\ enabled \in BOOLEAN
  /\ sending = FALSE
  /\ stopping = FALSE
  /\ turn_seq = 0
  /\ clarify = None
  /\ queue = <<>>
  /\ window = [pc |-> "idle", text |-> NoText]
  /\ pumps = {} /\ connects = {} /\ retries = {} /\ disconnects = {} /\ restarts = {}
  /\ opens = {} /\ scopes = {} /\ delivers = {} /\ stops = {} /\ answers = {}
  /\ typed = 0 /\ settled = {}
  /\ delivered = {} /\ created = {} /\ opened = {selected} \ {None}
=============================================================================
