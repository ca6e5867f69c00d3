---------------------------- MODULE MobileState ----------------------------
(***************************************************************************)
(* The state of the phone's bridge (crates/mobile/src/client.rs).  Dart's  *)
(* commands run on its platform thread; what they start are tasks on two   *)
(* worker threads.  What they share is behind the lock of OpenSession, the *)
(* atomics, and one async mutex per Backend.                               *)
(*                                                                         *)
(* Abstractions.  A session's live and stored id are one value.  Prompts   *)
(* are numbered, and of a transcript only the prompts in it are kept.      *)
(* push_transcript's save belongs to the step it follows.  Ids are opaque, *)
(* so any parked key may be the one that sorts first.                      *)
(***************************************************************************)
EXTENDS Naturals, Sequences, FiniteSets, Functions

CONSTANTS
  Kind, Session, None,
  Owner,         \* the backend a session belongs to
  Listed,        \* the sessions that exist at the start
  ParkedLimit,   \* PARKED_LIMIT
  Scenarios      \* what the settings hold at the start, whether the app is about to
                 \* start or is connected by then with a blank chat on screen, and how
                 \* often each class of outside event may happen

Class == {"connect", "ensure", "disconnect", "open", "new", "text", "again", "interrupt",
          "refresh", "drop", "fail", "info"}

Saved == [backend : Kind, id : Session]

Settings == [kind : Kind, enabled : Kind \cup {None}, saved : Saved \cup {None}]

ASSUME MobileAssumption ==
  /\ None \notin Session \cup Kind \cup Nat /\ Session \cap Nat = {}
  /\ Owner \in [Session -> Kind] /\ Listed \subseteq Session
  /\ ParkedLimit \in Nat
  /\ Scenarios \subseteq [settings : Settings, online : BOOLEAN, budget : [Class -> Nat]]

VARIABLES
  settings,    \* backend_kind, the backend that is enabled, last_session
  adapters,    \* every Backend made: its stream's pump, its scope, who holds its mutex
  slot,        \* the one in Client::backend, 0 for none
  live, wanted, generation,      \* the atomics
  view,        \* OpenSession: live_id, stored_id, generation, conversation, backend_id
  parked,      \* OpenSession::parked; a draft's key is a number
  archive,     \* the transcripts the cache holds, by backend and id
  pumps, opens, catchups, sends, closes, scopes,   \* the tasks
  ui,          \* the command Dart is about to send, if one follows another
  taken,       \* the prompts the agents took, and the session of each
  running,     \* the sessions in which an agent's turn runs
  restored,    \* the prompts given back to the composer
  prompt,      \* how many were typed
  budget

atomics == <<live, wanted, generation>>
screen  == <<view, parked, archive>>
tasks   == <<pumps, opens, catchups, sends, closes, scopes>>
agents  == <<taken, running>>
vars == <<settings, adapters, slot, atomics, screen, tasks, ui, agents, restored, prompt, budget>>

Conversation == [shown : SUBSET Nat, sending : BOOLEAN]
Blank == [shown |-> {}, sending |-> FALSE]

Event == {"connected", "done", "failed"} \cup Session

(* session is what a pump resumes; saved what it read when it was started. *)
Pump == [gen : Nat, inst : Nat, saved : Session \cup {None}, session : Session \cup {None},
         inbox : Seq(Event),
         pc : {"attempt", "close", "probe", "connect", "up", "resume", "resumed", "open",
               "catchup", "drain", "failed", "wait"}]

(* by is the pump that runs it, 0 for a command's own task. *)
OpenTask == [session : Session, inst : Nat, by : Nat, view : Nat, got : SUBSET Nat,
             pc : {"start", "history", "merge", "resume", "resumed", "unscope"}]
Catchup == [session : Session, inst : Nat, by : Nat, got : SUBSET Nat,
            pc : {"start", "fetch", "merge"}]
SendTask == [prompt : Nat, view : Nat, inst : Nat, live : Session \cup {None},
             stored : Session \cup {None}, session : Session \cup {None},
             pc : {"lock", "aim", "attach", "submit", "restore"}]

View == [live : Session \cup {None}, stored : Session \cup {None}, gen : Nat,
         conv : Conversation, backend : Kind]

Adapter == [kind : Kind, stream : Nat, scope : Session \cup {None}, guard : Nat]

BridgeTypeOK ==
  /\ settings \in Settings
  /\ live \in BOOLEAN /\ wanted \in BOOLEAN /\ generation \in Nat
  /\ ui \in {"launch", "connect", "idle"}

AdaptersTypeOK ==
  /\ adapters \in Seq(Adapter)
  /\ slot \in 0 .. Len(adapters) /\ closes \subseteq 1 .. Len(adapters)

ScreenTypeOK ==
  /\ view \in View
  /\ DOMAIN parked \subseteq Session \cup Nat
  /\ \A k \in DOMAIN parked : parked[k] \in Conversation
  /\ archive \in [Kind \X Session -> SUBSET Nat]

TasksTypeOK ==
  /\ \A p \in pumps : p \in Pump /\ (p.pc \in {"resume", "resumed"} => p.session \in Session)
  /\ opens \subseteq OpenTask /\ catchups \subseteq Catchup /\ sends \subseteq SendTask
  /\ \A d \in sends : /\ d.prompt \in 1 .. prompt
                      /\ d.pc \in {"attach", "submit"} => d.session \in Session
  /\ scopes \subseteq [view : Nat, inst : Nat]

HistoryTypeOK ==
  /\ DOMAIN taken \subseteq 1 .. prompt /\ \A p \in DOMAIN taken : taken[p] \in Session
  /\ running \subseteq Session
  /\ restored \subseteq 1 .. prompt /\ prompt \in Nat
  /\ budget \in [Class -> Nat]

TypeOK == BridgeTypeOK /\ AdaptersTypeOK /\ ScreenTypeOK /\ TasksTypeOK /\ HistoryTypeOK

Starting ==
  /\ adapters = <<>> /\ slot = 0 /\ pumps = {}
  /\ live = FALSE /\ wanted = FALSE /\ generation = 0
  /\ ui = "launch"

Connected ==
  /\ adapters = <<[kind |-> settings.kind, stream |-> 1, scope |-> None, guard |-> 0]>> /\ slot = 1
  /\ pumps = {[gen |-> 1, inst |-> 1, saved |-> None, session |-> None, inbox |-> <<>>,
               pc |-> "drain"]}
  /\ live = TRUE /\ wanted = TRUE /\ generation = 1
  /\ ui = "idle"

Init ==
  /\ \E s \in Scenarios :
       /\ settings = s.settings /\ budget = s.budget
       /\ IF s.online THEN Connected ELSE Starting
  /\ view = [live |-> None, stored |-> None, gen |-> 0, conv |-> Blank,
             backend |-> settings.kind]
  /\ parked = <<>> /\ archive = [k \in Kind \X Session |-> {}]
  /\ opens = {} /\ catchups = {} /\ sends = {} /\ closes = {} /\ scopes = {}
  /\ taken = <<>> /\ running = {} /\ restored = {} /\ prompt = 0

Spend(c) ==
  /\ budget[c] > 0
  /\ budget' = [budget EXCEPT ![c] = @ - 1]

-----------------------------------------------------------------------------
(* OpenSession.                                                             *)

Key(v) == IF v.stored # None THEN v.stored ELSE v.live

IsCurrent(gen, s) == view.gen = gen /\ Key(view) = s

AcceptsTurnEvents == view.live # None \/ view.stored = None

(* record_history: what is parked, and over it what is on screen. *)
RecordedParked(v, kept) ==
  [k \in DOMAIN archive |->
     IF k[1] = v.backend /\ k[2] \in DOMAIN kept THEN kept[k[2]].shown ELSE archive[k]]

Recorded(v, kept) ==
  [k \in DOMAIN archive |->
     IF k[1] # v.backend THEN archive[k]
     ELSE IF k[2] = Key(v) THEN v.conv.shown
     ELSE IF k[2] \in DOMAIN kept THEN kept[k[2]].shown ELSE archive[k]]

(* switch_to's first half: what was on screen is parked, and too much evicted. *)
OnlyItsKey(v) == IF v.conv.shown # {} THEN {Key(v)} ELSE {}

DraftKey(v) ==
  IF Key(v) # None THEN {Key(v)} ELSE IF v.conv.shown # {} THEN {v.gen + 1} ELSE {}

Without(kept, keys) == Restrict(kept, DOMAIN kept \ keys)

Parkings ==
  LET all == [k \in DOMAIN parked \cup DraftKey(view) |->
                IF k \in DraftKey(view) THEN view.conv ELSE parked[k]]
      excess == IF Cardinality(DOMAIN all) > ParkedLimit
                THEN Cardinality(DOMAIN all) - ParkedLimit ELSE 0
  IN {Without(all, gone) : gone \in {g \in SUBSET DOMAIN all : Cardinality(g) = excess}}

(* And its second: s comes back from where it was parked, or from the cache. *)
BroughtBack(kept, s) ==
  IF s \in DOMAIN kept /\ kept[s].shown # {} THEN kept[s]
  ELSE [shown |-> IF s = None THEN {} ELSE Recorded(view, parked)[<<view.backend, s>>],
        sending |-> s \in DOMAIN kept /\ kept[s].sending]

(* switch_to(s), the ids its callers then set, and the save that follows. *)
SwitchesTo(s, k) ==
  \E kept \in Parkings :
    /\ view' = [live |-> None, stored |-> s, gen |-> view.gen + 1,
                conv |-> BroughtBack(kept, s), backend |-> k]
    /\ parked' = IF k = view.backend THEN Without(kept, {s}) ELSE <<>>
    /\ archive' = Recorded(view, parked)

Shows(v) ==
  /\ view' = v /\ archive' = Recorded(v, parked)
  /\ UNCHANGED parked

(* merge_transcript: what the backend reports, and nothing else. *)
Merges(got) == Shows([view EXCEPT !.conv.shown = got])

FinishTurn == [view EXCEPT !.conv.sending = FALSE]

FinishesTurn == IF view.conv.sending THEN Shows(FinishTurn) ELSE UNCHANGED screen

-----------------------------------------------------------------------------
(* Backend, one call at a time.                                             *)

FreeAdapter(i) == adapters[i].guard = 0

SetScope(i, s) == adapters' = [adapters EXCEPT ![i].scope = s]

Disconnects(i) == adapters' = [adapters EXCEPT ![i].stream = 0, ![i].scope = None]

(* A request fails, of itself or because there is no stream. *)
CallFails(i) == IF adapters[i].stream = 0 THEN UNCHANGED budget ELSE Spend("fail")

(* messages(): a turn that runs may be in the history or not yet. *)
Histories(s) ==
  LET all == {p \in DOMAIN taken : taken[p] = s}
  IN IF s \in running THEN {all, all \ {p \in all : \A q \in all : q <= p}} ELSE {all}

(* Client::backend: the one for this kind, made when there is none. *)
BackendFor(k) ==
  IF slot # 0 /\ adapters[slot].kind = k THEN slot ELSE Len(adapters) + 1

TakesBackend(k) ==
  /\ slot' = BackendFor(k)
  /\ adapters' = IF BackendFor(k) \in DOMAIN adapters THEN adapters
                 ELSE Append(adapters, [kind |-> k, stream |-> 0, scope |-> None, guard |-> 0])
=============================================================================
