----------------------------- MODULE AgentCalls -----------------------------
(***************************************************************************)
(* The caller's side of a Backend (agent/mod.rs).  Every operation takes   *)
(* `&mut self` and the frontends keep the Backend behind one async mutex,  *)
(* so there is one call at a time; `call` is the one in progress.  The     *)
(* other variables record what the caller asked for and what it can see of *)
(* the adapter; they are what AgentStream speaks about.                    *)
(*                                                                         *)
(* Abstractions.  A session's live id, stored id and key are one value.    *)
(* Prompts are numbered.  A list or history request is the op "list"; what *)
(* it returns is not looked at.                                            *)
(***************************************************************************)
EXTENDS Naturals, Sequences, FiniteSets

CONSTANTS
  Session,   \* the sessions an agent has or will create
  None       \* no session

ASSUME CallsAssumption == None \notin Session

VARIABLES
  call,      \* the call in progress
  channel, line, greeted, scope, drawn, posted,   \* as in AgentStream
  submits,   \* how many prompts were submitted so far
  bound      \* how often calls, prompts, frames and faults may still happen

contact  == <<channel, line, greeted>>
view     == <<scope, drawn>>
prompts  == <<posted, submits>>
callVars == <<call, contact, view, prompts, bound>>

Op == {"none", "connect", "create", "resume", "submit", "interrupt", "respond", "list"}
Replies == {"none", "waiting", "ok", "refused", "unexpected", "dropped"}
Steps == {"idle", "probing", "connecting", "connected", "http", "asking", "asked", "subscribing",
          "legacy", "known", "continuing", "posting", "taken", "naming", "stopping", "spawning",
          "failing", "sending"}

(* `step` is where the call is and `reply` what came back for the request *)
(* it waits on.                                                           *)
Call == [op : Op, session : Session \cup {None}, prompt : 0 .. submits, step : Steps,
         reply : Replies]

NewCall(op, s, p, step) ==
  [op |-> op, session |-> s, prompt |-> p, step |-> step, reply |-> "none"]

NoCall == NewCall("none", None, 0, "idle")

CallsTypeOK ==
  /\ call \in Call
  /\ channel \in Nat /\ line \in {"silent", "up", "lost", "closed"} /\ greeted \in BOOLEAN
  /\ scope \subseteq Session /\ drawn \subseteq Session \cup {None}
  /\ submits \in Nat /\ posted \in Seq(1 .. submits)
  /\ bound \in [{"call", "submit", "frame", "fault"} -> Nat]

CallsInit ==
  /\ call = NoCall
  /\ channel = 0 /\ line = "closed" /\ greeted = FALSE
  /\ scope = {} /\ drawn = {} /\ posted = <<>>
  /\ submits = 0

-----------------------------------------------------------------------------
Idle == call.step = "idle"
At(step) == call.step = step

Spend(c) ==
  /\ bound[c] > 0
  /\ bound' = [bound EXCEPT ![c] = @ - 1]

(* A call about session s, None for one about no session. *)
Begin(op, s, first) ==
  /\ Idle /\ Spend("call")
  /\ call' = NewCall(op, s, 0, first)
  /\ scope' = scope \cup ({s} \ {None})
  /\ UNCHANGED <<contact, drawn, prompts>>

BeginSubmit(s, first) ==
  /\ Idle /\ Spend("submit")
  /\ submits' = submits + 1
  /\ call' = NewCall("submit", s, submits', first)
  /\ scope' = scope \cup {s}
  /\ UNCHANGED <<contact, drawn, posted>>

BeginConnect(first) ==
  /\ Idle /\ Spend("call")
  /\ call' = NewCall("connect", None, 0, first)
  /\ channel' = channel + 1
  /\ line' = "silent" /\ greeted' = FALSE /\ scope' = {} /\ drawn' = {}
  /\ UNCHANGED prompts

(* The frontends stop listening to a channel before they disconnect it. *)
CallDisconnect ==
  /\ Idle /\ Spend("call")
  /\ line' = "closed" /\ scope' = {} /\ drawn' = {}
  /\ UNCHANGED <<call, channel, greeted, prompts>>

(* clear_session_scope, where it takes effect at once. *)
CallClearScope ==
  /\ Idle /\ Spend("call")
  /\ scope' = {} /\ drawn' = {}
  /\ UNCHANGED <<call, contact, prompts>>

Goto(step) ==
  /\ call' = [call EXCEPT !.step = step, !.reply = "none"]
  /\ UNCHANGED <<contact, view, prompts, bound>>

Return ==
  /\ call' = NoCall
  /\ UNCHANGED <<contact, view, prompts, bound>>

(* A call that opens a session returns it. *)
ReturnSession ==
  /\ call' = NoCall
  /\ scope' = {call.session} /\ drawn' = {}
  /\ UNCHANGED <<contact, prompts, bound>>

Reply(r) ==
  call' = IF call.reply = "waiting" THEN [call EXCEPT !.reply = r] ELSE call

-----------------------------------------------------------------------------
(* What the caller sees of a channel, if it is the newest one. *)

Newest(c) == c = channel /\ line # "closed"

Greets(c) ==
  /\ UNCHANGED channel
  /\ IF Newest(c) THEN line' = "up" /\ greeted' = TRUE ELSE UNCHANGED <<line, greeted>>

Loses(c) ==
  /\ UNCHANGED <<channel, greeted>>
  /\ line' = IF Newest(c) THEN "lost" ELSE line

Draws(c, s) ==
  /\ UNCHANGED scope
  /\ drawn' = IF Newest(c) THEN drawn \cup {s} ELSE drawn

(* The agent takes prompt p, 0 for a request without one. *)
Takes(p) ==
  /\ UNCHANGED submits
  /\ posted' = IF p = 0 THEN posted ELSE Append(posted, p)

(* Whether a labelled frame passes: session_scope.rs, belongs_to_open_session. *)
BelongsToOpenSession(ids, label) == label = None \/ label \in ids
=============================================================================
