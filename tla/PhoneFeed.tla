----------------------------- MODULE PhoneFeed -----------------------------
(***************************************************************************)
(* How the phone's screen follows the core: the queue of events between    *)
(* the bridge (crates/mobile/src/client.rs) and the app, which polls it on *)
(* a timer and draws what it takes (app/lib/state.dart).  Whoever changes  *)
(* the conversation tells it in steps: the change under one lock, a        *)
(* snapshot under the same lock again, and its place in the queue under    *)
(* another.                                                                *)
(*                                                                         *)
(* Abstractions.  A text is its length.  The turn is Conversation's, told  *)
(* in one stream and to its end; a conversation that is left is kept (it   *)
(* is one of the last PARKED_LIMIT), and not come back to.                 *)
(***************************************************************************)
EXTENDS Integers, SequencesExt

CONSTANTS
  MaxQueued,   \* MAX_QUEUED_EVENTS
  FeedBudget   \* bound: sends, frames, calls, new chats and failed deliveries

(* A failed delivery has three events, and the pump may be about to push one: *)
(* the queue must have room for what the bridge says at once.                 *)
ASSUME FeedAssumption ==
  /\ MaxQueued \in Nat /\ MaxQueued >= 4
  /\ FeedBudget \in [{"send", "delta", "call", "new", "fail"} -> Nat]

VARIABLES
  conv,        \* OpenSession::conversation; `made` counts its ids, `changes` its changes
  delivering,  \* the prompts the agent has not taken yet
  telling,     \* what each of the bridge's threads has still to push
  feed,        \* Client::events
  app,         \* the app: the transcript it draws, and whether a turn runs
  pushed,      \* the newest change that was pushed, and whether a snapshot from before
               \* it was pushed since
  missed,      \* events fell out of the queue since the last prompt
  left         \* what is left of FeedBudget

feedVars == <<conv, delivering, telling, feed, app, pushed, missed, left>>

Entry == [id : Nat, by : {"user", "assistant"}, text : Nat, open : BOOLEAN, calls : Nat]

Screen == [entries : Seq(Entry), sending : BOOLEAN]

Notice ==
  [kind : {"snapshot", "composer_restore", "error"}] \cup
  [kind : {"assistant"}, id : Nat, text : Nat, change : Nat] \cup
  [kind : {"transcript"}, screen : Screen, change : Nat]

Snapshot == [kind |-> "snapshot"]
Restore  == [kind |-> "composer_restore"]
Failure  == [kind |-> "error"]

Teller == {"pump", "dart", "task"}

FeedTypeOK ==
  /\ conv \in [entries : Seq(Entry), sending : BOOLEAN, streamed : Nat, made : Nat, changes : Nat]
  /\ delivering \subseteq Nat
  /\ telling \in [Teller -> Seq(Notice)]
  /\ feed \in Seq(Notice) /\ Len(feed) <= MaxQueued
  /\ app \in Screen
  /\ pushed \in [newest : Nat, overtaken : BOOLEAN] /\ missed \in BOOLEAN
  /\ left \in [DOMAIN FeedBudget -> Nat]

FeedInit ==
  /\ conv = [entries |-> <<>>, sending |-> FALSE, streamed |-> 0, made |-> 0, changes |-> 0]
  /\ delivering = {} /\ telling = [t \in Teller |-> <<>>]
  /\ feed = <<>> /\ app = [entries |-> <<>>, sending |-> FALSE]
  /\ pushed = [newest |-> 0, overtaken |-> FALSE] /\ missed = FALSE
  /\ left = FeedBudget

-----------------------------------------------------------------------------
Uses(c) == left[c] > 0 /\ left' = [left EXCEPT ![c] = @ - 1]

Done(t) == telling[t] = <<>>

Tells(t, notices) == telling' = [telling EXCEPT ![t] = notices]

(* The conversation changes: `more` entries get ids of their own. *)
Becomes(entries, streamed, sending, more) ==
  conv' = [entries |-> entries, sending |-> sending, streamed |-> streamed,
           made |-> conv.made + more, changes |-> conv.changes + 1]

NewId == conv.made + 1

Streamed(id, text, calls) ==
  [id |-> id, by |-> "assistant", text |-> text, open |-> TRUE, calls |-> calls]

Closed(id, text) == [Streamed(id, text, 0) EXCEPT !.open = FALSE]

(* finish_turn: what streamed is closed, what stayed empty goes. *)
Closes(kept, m) ==
  IF m.by = "user" \/ m.text > 0 \/ m.calls > 0 THEN Append(kept, [m EXCEPT !.open = FALSE]) ELSE kept

Finished(entries) == FoldLeft(Closes, <<>>, entries)

(* complete_message, and, with no final text, finish_turn. *)
EndsWith(final) ==
  LET es == conv.entries
      active == SelectLastInSeq(es, LAMBDA m : m.open)
  IN Finished(IF final = 0 THEN es
              ELSE IF active # 0 /\ es[active].calls = 0 THEN [es EXCEPT ![active].text = final]
              ELSE Append(es, Closed(NewId, final)))

-----------------------------------------------------------------------------
(* The app's commands, on its one thread: it polls when none is under way.  *)

AppSends ==
  /\ Done("dart") /\ ~app.sending /\ ~conv.sending /\ Uses("send")
  /\ app' = [app EXCEPT !.sending = TRUE]
  /\ Becomes(conv.entries \o
               <<[id |-> NewId, by |-> "user", text |-> 1, open |-> FALSE, calls |-> 0],
                 Streamed(NewId + 1, 0, 0)>>, 0, TRUE, 2)
  /\ delivering' = delivering \cup {NewId}
  /\ missed' = FALSE
  /\ Tells("dart", <<Snapshot>>)
  /\ UNCHANGED <<feed, pushed>>

AppStartsChat ==
  /\ Done("dart") /\ Uses("new")
  /\ app' = [entries |-> <<>>, sending |-> FALSE]
  /\ Becomes(<<>>, 0, FALSE, 0)
  /\ Tells("dart", <<Snapshot>>)
  /\ UNCHANGED <<delivering, feed, pushed, missed>>

OnScreen == {conv.entries[i].id : i \in DOMAIN conv.entries}

Without(p) == RemoveAt(conv.entries, SelectInSeq(conv.entries, LAMBDA m : m.id = p))

(* restore_prompt, for a delivery that did not come about.  A prompt goes   *)
(* out when its snapshot is pushed; one that is not on screen was left.     *)
DeliveryFails ==
  /\ Done("task") /\ Uses("fail")
  /\ \E p \in delivering :
       /\ p \in OnScreen => Done("dart")
       /\ delivering' = delivering \ {p}
       /\ IF p \in OnScreen
          THEN Becomes(Finished(Without(p)), 0, FALSE, 0)
          ELSE UNCHANGED conv
  /\ Tells("task", <<Snapshot, Restore, Failure>>)
  /\ UNCHANGED <<feed, app, pushed, missed>>

-----------------------------------------------------------------------------
(* The pump folds an event of the turn: apply.                              *)

Folds ==
  /\ Done("pump") /\ Done("dart") /\ conv.sending
  /\ delivering' = delivering \ OnScreen
  /\ UNCHANGED <<feed, app, pushed, missed>>

(* Into entry i, or a new one when there is none. *)
PutsInto(i, entry, streamed) ==
  IF i = 0 THEN Becomes(Append(conv.entries, entry), streamed, TRUE, 1)
  ELSE Becomes([conv.entries EXCEPT ![i] = entry], streamed, TRUE, 0)

(* Streaming: what the turn streamed goes to the entry that streams text,   *)
(* and the app is told no more than its id and that text.                   *)
FoldsDelta ==
  LET i == SelectLastInSeq(conv.entries, LAMBDA m : m.open /\ m.calls = 0)
      text == conv.streamed + 1
      id == IF i = 0 THEN NewId ELSE conv.entries[i].id IN
  /\ Folds /\ Uses("delta")
  /\ PutsInto(i, Streamed(id, text, 0), text)
  /\ Tells("pump", <<[kind |-> "assistant", id |-> id, text |-> text, change |-> conv'.changes]>>)

(* Structure: the app is given the whole transcript. *)
FoldsCall ==
  LET i == SelectLastInSeq(conv.entries, LAMBDA m : m.open /\ m.text = 0)
      entry == IF i = 0 THEN Streamed(NewId, 0, 1) ELSE [conv.entries[i] EXCEPT !.calls = @ + 1] IN
  /\ Folds /\ Uses("call")
  /\ PutsInto(i, entry, conv.streamed)
  /\ Tells("pump", <<Snapshot>>)

FoldsEnd ==
  /\ Folds
  /\ \E final \in {0, conv.streamed} : Becomes(EndsWith(final), 0, FALSE, 1)
  /\ Tells("pump", <<Snapshot>>)
  /\ UNCHANGED left

-----------------------------------------------------------------------------
(* push_transcript, and push.                                               *)

Snapshots(t) ==
  /\ ~Done(t) /\ Head(telling[t]) = Snapshot
  /\ Tells(t, <<[kind |-> "transcript", change |-> conv.changes,
                 screen |-> [entries |-> conv.entries, sending |-> conv.sending]]>>
              \o Tail(telling[t]))
  /\ UNCHANGED <<conv, delivering, feed, app, pushed, missed, left>>

(* A delta takes the place of the one before it for the same entry. *)
Supersedes(e, queue) ==
  /\ e.kind = "assistant" /\ queue # <<>>
  /\ Last(queue).kind = "assistant" /\ Last(queue).id = e.id

Queued(e, queue) == Append(IF Supersedes(e, queue) THEN Front(queue) ELSE queue, e)

(* Mutant: the newest goes instead. *)
DropsNewest(queue) == IF Len(queue) > MaxQueued THEN Front(queue) ELSE queue

(* The oldest go when there is no room. *)
Capped(queue) == IF Len(queue) > MaxQueued THEN Tail(queue) ELSE queue

Pushes(t) ==
  /\ ~Done(t) /\ Head(telling[t]) # Snapshot
  /\ LET e == Head(telling[t]) IN
     /\ feed' = Capped(Queued(e, feed))
     /\ missed' = (missed \/ Len(Queued(e, feed)) > MaxQueued)
     /\ pushed' = IF "change" \notin DOMAIN e THEN pushed
                  ELSE IF e.change < pushed.newest
                       THEN [pushed EXCEPT !.overtaken = (@ \/ e.kind = "transcript")]
                  ELSE [newest |-> e.change,
                        overtaken |-> pushed.overtaken /\ e.kind = "assistant"]
  /\ Tells(t, Tail(telling[t]))
  /\ UNCHANGED <<conv, delivering, app, left>>

-----------------------------------------------------------------------------
(* Text for a message the app does not have is not drawn.                   *)
WithText(screen, id, text) ==
  [screen EXCEPT !.entries = [i \in DOMAIN @ |->
     IF @[i].id = id THEN [@[i] EXCEPT !.text = text] ELSE @[i]]]

DrawnOn(screen, e) ==
  CASE e.kind = "transcript" -> e.screen
    [] e.kind = "assistant" -> WithText(screen, e.id, e.text)
    [] e.kind = "error" -> [screen EXCEPT !.sending = FALSE]
    [] OTHER -> screen

AppPolls ==
  /\ Done("dart") /\ feed # <<>>
  /\ app' = FoldLeft(DrawnOn, app, feed)
  /\ feed' = <<>>
  /\ UNCHANGED <<conv, delivering, telling, pushed, missed, left>>

FeedNext ==
  \/ AppSends \/ AppStartsChat \/ AppPolls \/ DeliveryFails
  \/ FoldsDelta \/ FoldsCall \/ FoldsEnd
  \/ \E t \in Teller : Snapshots(t) \/ Pushes(t)

-----------------------------------------------------------------------------
AllTold == feed = <<>> /\ \A t \in Teller : Done(t)

(* However rarely the app polls, and whatever the queue coalesced or let go *)
(* of, it draws what the core has once it was told everything: each reply   *)
(* as it ended, and a turn in between as well, if it makes no call and      *)
(* nothing fell out of the queue (push, push_transcript, _applyAssistant).  *)
AppDrawsTheCore ==
  AllTold /\ ~pushed.overtaken
    /\ (conv.sending => ~missed /\ \A i \in DOMAIN conv.entries : conv.entries[i].calls = 0)
    => app.entries = conv.entries

(* "Anything else — a new message, a tool call, the end of the turn —       *)
(* arrives as a new transcript instead" (state.dart): text that follows a   *)
(* call is a new message, and does not.                                     *)
TextAfterCallIsDrawn ==
  AllTold /\ ~pushed.overtaken /\ ~missed => app.entries = conv.entries

(* "The prompt is recorded by the bridge, which owns the message list, and  *)
(* comes back in the snapshot that follows" (state.dart): a snapshot taken  *)
(* before a new chat may follow the new chat's own.                         *)
NewestSnapshotStays == AllTold => ~pushed.overtaken
=============================================================================
