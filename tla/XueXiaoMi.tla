----------------------------- MODULE XueXiaoMi -----------------------------
(***************************************************************************)
(* The adapter of the Xuexiaomi gateway (agent/xuexiaomi.rs).  There is no *)
(* event socket: the reply of a turn is the response to the request that   *)
(* started it, read by a task of its own.  A relayed conversation is a     *)
(* read-only snapshot; the first prompt into it continues it as a writable *)
(* copy, and every later request about it must find that copy.             *)
(*                                                                         *)
(* Abstractions.  The copies of a session are numbered from 1, and 0 is    *)
(* the session itself.  Models and attachments are left out.               *)
(***************************************************************************)
EXTENDS AgentCalls

CONSTANT Snapshot   \* the sessions the gateway reports as read-only

VARIABLES
  events,    \* the channel in Shared::events, 0 for none
  active,    \* Shared::active
  readOnly,  \* the keys of Shared::read_only, and in its values
  continued, \* the copy each was continued as, 0 for none
  loaded,    \* the sessions whose history was fetched since the connect
  copies,    \* the gateway's: how many copies each session has
  turns,     \* every turn this client started, and whether it is over
  running    \* Shared::running: the turn of each session, 0 for none

gatewayKeeps == <<copies, turns>>
xxmVars == <<events, active, readOnly, continued, loaded, copies, turns, running>>

(* `over` is the gateway's view of the turn, `task` the client's. *)
StreamedTurn ==
  [session : Session, target : Nat, events : Nat, over : BOOLEAN,
   task : {"streaming", "aborted", "ended"}]

XxmTypeOK ==
  /\ events \in Nat /\ active \in Session \cup {None}
  /\ readOnly \subseteq Session /\ continued \in [Session -> Nat]
  /\ loaded \subseteq Session /\ copies \in [Session -> Nat]
  /\ turns \in Seq(StreamedTurn)
  /\ running \in [Session -> 0 .. Len(turns)]

XxmInit ==
  /\ events = 0 /\ active = None /\ loaded = {}
  /\ readOnly = {} /\ continued = [s \in Session |-> 0]
  /\ copies = [s \in Session |-> 0]
  /\ turns = <<>> /\ running = [s \in Session |-> 0]

-----------------------------------------------------------------------------
(* entry(id).or_insert(None) for what an answer reports as read-only: a     *)
(* session already continued keeps its copy.                                *)
Learns(S) == readOnly' = readOnly \cup (S \cap Snapshot) /\ UNCHANGED continued

(* The session a prompt for s is sent to, and a stop. *)
Target(s) == continued[s]

StopsOriginal(s) == IF s \in Snapshot THEN 0 ELSE continued[s]

StopTarget(s) == continued[s]

(* disconnect(): every turn in `running` is aborted. *)
Drained ==
  [i \in DOMAIN turns |->
     IF turns[i].task = "streaming" /\ running[turns[i].session] = i
     THEN [turns[i] EXCEPT !.task = "aborted"] ELSE turns[i]]

Disconnects ==
  /\ turns' = Drained /\ running' = [s \in Session |-> 0]
  /\ events' = 0 /\ active' = None /\ loaded' = {}
  /\ UNCHANGED <<readOnly, continued, copies>>

XxmConnect == BeginConnect("probing") /\ Disconnects

XxmDisconnect == CallDisconnect /\ Disconnects

XxmClearSessionScope ==
  /\ CallClearScope
  /\ active' = None
  /\ UNCHANGED <<events, readOnly, continued, loaded, gatewayKeeps, running>>

(* probe and load_models answered, or not. *)
XxmProbed ==
  /\ At("probing")
  /\ \/ events' = channel /\ Greets(channel) /\ UNCHANGED bound
     \/ Spend("fault") /\ UNCHANGED <<events, contact>>
  /\ call' = NoCall
  /\ UNCHANGED <<active, readOnly, continued, loaded, gatewayKeeps, running, view, prompts>>

ContinuedEachTime(s) == s \in readOnly

(* writable_session: what it does first for a prompt. *)
IsContinuedFirst(s) == s \in readOnly /\ continued[s] = 0

(* create_session asks nobody, and resume_session only what it has not read. *)
XxmCallBegins ==
  /\ \/ Begin("list", None, "http")
     \/ \E s \in Session \ Snapshot : Begin("create", s, "known")
     \/ \E s \in Session : Begin("resume", s, IF s \in loaded THEN "known" ELSE "http")
     \/ events # 0 /\ \E s \in Session : Begin("interrupt", s, "http")
     \/ events # 0 /\ \E s \in Session :
          BeginSubmit(s, IF IsContinuedFirst(s) THEN "continuing" ELSE "posting")
  /\ UNCHANGED xxmVars

XxmOpens ==
  /\ At("known")
  /\ active' = call.session
  /\ ReturnSession
  /\ UNCHANGED <<events, readOnly, continued, loaded, gatewayKeeps, running>>

(* A list, or a history: the one resume_session reads, or one of its own. *)
XxmListed ==
  /\ At("http") /\ call.op = "list"
  /\ \/ Learns(Session) /\ UNCHANGED loaded
     \/ \E s \in Session : Learns({s}) /\ loaded' = loaded \cup {s}
  /\ Return
  /\ UNCHANGED <<events, active, gatewayKeeps, running>>

XxmResumed ==
  /\ At("http") /\ call.op = "resume"
  /\ Learns({call.session}) /\ loaded' = loaded \cup {call.session}
  /\ Goto("known")
  /\ UNCHANGED <<events, active, gatewayKeeps, running>>

(* The gateway ends the turn of the session it is asked to stop. *)
Interrupted == At("http") /\ call.op = "interrupt"

XxmInterrupts ==
  /\ Interrupted
  /\ turns' = [i \in DOMAIN turns |->
       IF turns[i].session = call.session /\ turns[i].target = StopTarget(call.session)
       THEN [turns[i] EXCEPT !.over = TRUE] ELSE turns[i]]
  /\ Return
  /\ UNCHANGED <<events, active, readOnly, continued, loaded, copies, running>>

(* writable_session. *)
Continues ==
  /\ At("continuing")
  /\ copies' = [copies EXCEPT ![call.session] = @ + 1]
  /\ continued' = [continued EXCEPT ![call.session] = copies'[call.session]]
  /\ Goto("posting")
  /\ UNCHANGED <<events, active, readOnly, loaded, turns, running>>

(* POST api/chat: the gateway takes a prompt, unless it is for the snapshot. *)
Refuses == call.session \in Snapshot /\ Target(call.session) = 0

Posts ==
  /\ At("posting")
  /\ IF Refuses THEN call' = NoCall /\ UNCHANGED prompts
     ELSE call' = [call EXCEPT !.step = "taken"] /\ Takes(call.prompt)
  /\ UNCHANGED <<xxmVars, contact, view, bound>>

(* Its answer starts the task that reads the turn; an earlier one's is      *)
(* aborted.                                                                 *)
StartsTurn ==
  LET s == call.session
      others == [i \in DOMAIN turns |->
        IF i = running[s] /\ turns[i].task = "streaming"
        THEN [turns[i] EXCEPT !.task = "aborted"] ELSE turns[i]] IN
  /\ At("taken")
  /\ turns' = Append(others, [session |-> s, target |-> Target(s), events |-> events,
                              over |-> FALSE, task |-> "streaming"])
  /\ running' = [running EXCEPT ![s] = Len(turns')]
  /\ loaded' = loaded \cup {s}
  /\ call' = NoCall /\ Draws(events, s)
  /\ UNCHANGED <<events, active, readOnly, continued, copies, contact, prompts, bound>>

(* A request fails, or its answer is lost: then a copy may have been made.  *)
XxmRequestFails ==
  /\ call.step \in {"http", "continuing", "posting", "taken"} /\ Spend("fault")
  /\ call' = NoCall
  /\ \/ UNCHANGED copies
     \/ At("continuing") /\ copies' = [copies EXCEPT ![call.session] = @ + 1]
  /\ UNCHANGED <<events, active, readOnly, continued, loaded, turns, running, contact, view, prompts>>

-----------------------------------------------------------------------------
(* stream_turn, the task of turn i. *)

Reading(i) == turns[i].task # "ended"

OnScreen(s) == BelongsToOpenSession({active} \ {None}, s)

(* delta and attachment frames. *)
TurnFrame(i) ==
  /\ Reading(i) /\ Spend("frame")
  /\ OnScreen(turns[i].session)
  /\ Draws(turns[i].events, turns[i].session)
  /\ UNCHANGED <<xxmVars, call, contact, prompts>>

(* done, error, a broken stream, or one that just ends: the last frame, and *)
(* the session's entry in `running`, whosever it is by now.                 *)
TurnEnds(i) ==
  /\ Reading(i)
  /\ turns' = [turns EXCEPT ![i].task = "ended", ![i].over = TRUE]
  /\ running' = [running EXCEPT ![turns[i].session] = 0]
  /\ IF OnScreen(turns[i].session)
     THEN Draws(turns[i].events, turns[i].session) ELSE UNCHANGED view
  /\ UNCHANGED <<events, active, readOnly, continued, loaded, copies, call, contact, prompts, bound>>

TurnAborts(i) ==
  /\ turns[i].task = "aborted"
  /\ turns' = [turns EXCEPT ![i].task = "ended"]
  /\ UNCHANGED <<events, active, readOnly, continued, loaded, copies, running, callVars>>

-----------------------------------------------------------------------------
XxmCallStep ==
  XxmProbed \/ XxmOpens \/ XxmListed \/ XxmResumed \/ XxmInterrupts \/ Continues \/ Posts
  \/ StartsTurn

XxmTaskStep(i) == TurnEnds(i) \/ TurnAborts(i)

XueXiaoMiNext ==
  \/ XxmConnect \/ XxmDisconnect \/ XxmClearSessionScope \/ XxmCallBegins
  \/ XxmCallStep \/ XxmRequestFails
  \/ \E i \in DOMAIN turns : XxmTaskStep(i) \/ TurnFrame(i)

-----------------------------------------------------------------------------
(* A conversation that was continued stays one conversation: every turn     *)
(* this client started in it went to the same copy, whatever was listed,    *)
(* failed or reconnected in between (writable_session, read_only).          *)
OneCopyPerSession ==
  \A i, j \in DOMAIN turns : turns[i].session = turns[j].session => turns[i].target = turns[j].target

(* Stopping a session stops its turns, also those that run in its copy      *)
(* (interrupt); a property of steps.                                        *)
StopReachesTheTurn ==
  Interrupted /\ ~Interrupted' /\ bound' = bound =>
    \A i \in DOMAIN turns : turns[i].session = call.session => turns'[i].over
=============================================================================
