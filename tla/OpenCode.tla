------------------------------ MODULE OpenCode ------------------------------
(***************************************************************************)
(* The OpenCode and MiMoCode adapter (agent/opencode.rs): plain HTTP for   *)
(* the calls, one SSE task for the events of every session.  The task and  *)
(* the calls share `shared`: the session on screen, who asked which        *)
(* permission, and what the reply being streamed has shown so far.         *)
(*                                                                         *)
(* Abstractions.  The agent runs one turn at a time, `turn`; its reply is  *)
(* one text part, the numbers 1, 2, ... in order, and a report of it       *)
(* carries what it grew by (`delta`) or the whole part (mimo's form).      *)
(* What the agent tells reaches a stream at once.                          *)
(***************************************************************************)
EXTENDS AgentCalls, StreamMerge

CONSTANT ReplyLength   \* how long a reply can get

VARIABLES
  streams,     \* every SSE task started so far
  configured,  \* current_config is set
  shared,
  turn,        \* the agent's: its session, how much of the reply there is and was told
  bubble,      \* what the chat on screen has taken of that reply
  missed,      \* it took a chunk that does not begin where, or before, what it had ended
  questions,   \* the permission requests the frontend shows
  asked,       \* the agent's: the session each permission request came from
  answers      \* the agent's: the session each answer was sent to

codeVars == <<streams, configured, shared, turn, bubble, missed, questions, asked, answers>>

Request == 1 .. 2

Stream ==
  [events : Nat, task : {"opening", "open", "ended"}, aborted : BOOLEAN]

Turn == [session : Session \cup {None}, said : 0 .. ReplyLength, told : 0 .. ReplyLength]

CodeTypeOK ==
  /\ streams \in Seq(Stream) /\ configured \in BOOLEAN
  /\ shared \in [active : Session \cup {None}, permissions : [Request -> Session \cup {None}],
                 known : BOOLEAN, text : 0 .. ReplyLength]
  /\ turn \in Turn /\ bubble \in Seq(1 .. ReplyLength) /\ missed \in BOOLEAN
  /\ questions \subseteq Request
  /\ asked \in [Request -> Session \cup {None}]
  /\ answers \in [Request -> Session \cup {None}]

Nobody == [r \in Request |-> None]

Cleared == [active |-> None, permissions |-> Nobody, known |-> FALSE, text |-> 0]

NoTurn == [session |-> None, said |-> 0, told |-> 0]

CodeInit ==
  /\ streams = <<>> /\ configured = FALSE /\ shared = Cleared
  /\ turn = NoTurn /\ bubble = <<>> /\ missed = FALSE
  /\ questions = {} /\ asked = Nobody /\ answers = Nobody

agentVars == <<turn, asked, answers>>
chatVars == <<bubble, missed>>
screenVars == <<chatVars, questions>>

-----------------------------------------------------------------------------
(* The calls. *)

Aborted == [i \in DOMAIN streams |-> [streams[i] EXCEPT !.aborted = TRUE]]

(* The chat starts anew: another session's, or a turn was begun in it. *)
Anew == bubble' = <<>> /\ missed' = FALSE

(* A chat that loses its stream ends the turn it is in, if it is in one. *)
MayEndTurn == Anew \/ UNCHANGED chatVars

(* The frontend drops the questions of a stream it leaves. *)
LeavesScreen == MayEndTurn /\ questions' = {}

(* disconnect() comes first; the stream starts when the probe is answered. *)
CodeConnect ==
  /\ BeginConnect("probing")
  /\ streams' = Aborted /\ configured' = FALSE /\ shared' = Cleared
  /\ LeavesScreen /\ UNCHANGED agentVars

CodeProbed ==
  /\ At("probing")
  /\ \/ /\ streams' = Append(streams, [events |-> channel, task |-> "opening", aborted |-> FALSE])
        /\ configured' = TRUE
        /\ Return
     \/ /\ Spend("fault")
        /\ call' = NoCall
        /\ UNCHANGED <<streams, configured, contact, view, prompts>>
  /\ UNCHANGED <<shared, agentVars, screenVars>>

CodeDisconnect ==
  /\ CallDisconnect
  /\ streams' = Aborted /\ configured' = FALSE /\ shared' = Cleared
  /\ LeavesScreen /\ UNCHANGED agentVars

CodeClearSessionScope ==
  /\ CallClearScope
  /\ shared' = [shared EXCEPT !.active = None]
  /\ Anew
  /\ UNCHANGED <<streams, configured, agentVars, questions>>

(* Everything but an answer begins with its request; submit and interrupt   *)
(* need a connect to have succeeded, and submit takes the screen first.     *)
CodeCallBegins ==
  /\ \/ /\ \/ Begin("list", None, "http")
           \/ \E s \in Session : \E op \in {"create", "resume"} : Begin(op, s, "http")
           \/ configured /\ Begin("interrupt", None, "http")
        /\ UNCHANGED <<shared, chatVars>>
     \/ /\ configured
        /\ \E s \in Session :
             BeginSubmit(s, "http") /\ shared' = [shared EXCEPT !.active = s]
        /\ Anew
  /\ UNCHANGED <<streams, configured, agentVars, questions>>

SessionOnScreen(r) == IF r \in questions THEN shared.active ELSE None

Asker(r) == IF shared.permissions[r] # None THEN shared.permissions[r] ELSE shared.active

(* respond_to_interaction: to the session that asked, else the one on screen. *)
CodeResponds ==
  \E r \in Request :
    /\ configured /\ r \in questions /\ Asker(r) # None
    /\ Begin("respond", None, "http")
    /\ answers' = [answers EXCEPT ![r] = Asker(r)]
    /\ shared' = [shared EXCEPT !.permissions[r] = None]
    /\ questions' = questions \ {r}
    /\ UNCHANGED <<streams, configured, turn, chatVars, asked>>

(* The session opened is on screen; another one has a chat of its own.     *)
CodeAnswered ==
  /\ At("http")
  /\ \/ /\ call.op \in {"create", "resume"}
        /\ shared' = [shared EXCEPT !.active = call.session]
        /\ IF shared.active = call.session THEN MayEndTurn ELSE Anew
        /\ ReturnSession
     \/ /\ call.op \notin {"create", "resume"}
        /\ call' = NoCall /\ Takes(call.prompt)
        /\ UNCHANGED <<shared, chatVars, contact, view, bound>>
     \/ /\ Spend("fault")
        /\ call' = NoCall
        /\ UNCHANGED <<shared, chatVars, contact, view, prompts>>
  /\ UNCHANGED <<streams, configured, agentVars, questions>>

-----------------------------------------------------------------------------
(* The SSE task t. *)

Task(t, state) == streams' = [streams EXCEPT ![t].task = state]

(* The channel is told that its stream is gone. *)
Ends(t) ==
  /\ Task(t, "ended") /\ Loses(streams[t].events) /\ Spend("fault")
  /\ IF Newest(streams[t].events) THEN MayEndTurn ELSE UNCHANGED chatVars

CodeOpens(t) ==
  /\ streams[t].task = "opening"
  /\ \/ Task(t, "open") /\ Greets(streams[t].events) /\ UNCHANGED <<bound, chatVars>>
     \/ Ends(t)
  /\ UNCHANGED <<configured, shared, agentVars, questions, call, view, prompts>>

CodeBreaks(t) ==
  /\ streams[t].task = "open"
  /\ Ends(t)
  /\ UNCHANGED <<configured, shared, agentVars, questions, call, view, prompts>>

CodeAborts(t) ==
  /\ streams[t].aborted /\ streams[t].task # "ended"
  /\ Task(t, "ended")
  /\ UNCHANGED <<configured, shared, agentVars, screenVars, callVars>>

(* A frame labelled s reaches handle_event_json and passes its filter. *)
Passes(t, s) ==
  /\ streams[t].task = "open" /\ Spend("frame")
  /\ BelongsToOpenSession({shared.active} \ {None}, s)
  /\ Draws(streams[t].events, s)
  /\ UNCHANGED <<streams, configured, call, contact, prompts>>

(* message.updated: a reply this client has not seen has its ids noted; the *)
(* chat opens a bubble for it.                                              *)
MessageUpdated(t) ==
  /\ turn.session # None
  /\ Passes(t, turn.session)
  /\ shared' = [shared EXCEPT !.known = TRUE]
  /\ UNCHANGED <<agentVars, screenVars>>

(* The reply from where `from` ended, and what the chat does with it when   *)
(* this is the stream it listens to.                                        *)
Piece(from) == [i \in 1 .. turn.said - from |-> from + i]

Shows(t, from) ==
  IF Newest(streams[t].events) /\ from < turn.said
  THEN /\ bubble' = MergeStreamChunk(bubble, Piece(from))
       /\ missed' = (missed \/ from > Len(bubble))
  ELSE UNCHANGED chatVars

(* message.part.updated: what the part grew by since the agent last told,   *)
(* or the whole of it, of which what goes beyond the text last seen counts. *)
PartUpdated(t) ==
  /\ turn.session # None /\ shared.known
  /\ Passes(t, turn.session)
  /\ \/ /\ turn.told < turn.said
        /\ Shows(t, turn.told)
        /\ UNCHANGED shared
     \/ /\ Shows(t, shared.text)
        /\ shared' = [shared EXCEPT !.text = turn.said]
  /\ turn' = IF Newest(streams[t].events) THEN [turn EXCEPT !.told = turn.said] ELSE turn
  /\ UNCHANGED <<asked, answers, questions>>

(* permission.updated; the agent labels it with the session that asks. *)
PermissionUpdated(t) ==
  \E r \in Request, s \in Session :
    /\ asked[r] = None
    /\ Passes(t, s)
    /\ asked' = [asked EXCEPT ![r] = s]
    /\ shared' = [shared EXCEPT !.permissions[r] = s]
    /\ questions' = IF Newest(streams[t].events) THEN questions \cup {r} ELSE questions
    /\ UNCHANGED <<turn, chatVars, answers>>

(* The other frames change nothing here: session.error, tools, unlabelled ones. *)
OtherFrame(t) ==
  /\ Passes(t, None)
  /\ UNCHANGED <<shared, agentVars, screenVars>>

-----------------------------------------------------------------------------
(* The agent: a turn starts, its reply grows, whoever listens; and it ends  *)
(* with session.idle, which the streams that are open hear.                 *)

TurnStarts ==
  /\ turn.session = None
  /\ \E s \in Session : turn' = [NoTurn EXCEPT !.session = s]
  /\ UNCHANGED <<streams, configured, shared, screenVars, asked, answers, callVars>>

ReplyGrows ==
  /\ turn.session # None /\ turn.said < ReplyLength
  /\ turn' = [turn EXCEPT !.said = @ + 1]
  /\ UNCHANGED <<streams, configured, shared, screenVars, asked, answers, callVars>>

(* The stream the chat listens to takes the reports of the turn. *)
Heard ==
  /\ shared.active = turn.session
  /\ \E t \in DOMAIN streams : streams[t].task = "open" /\ Newest(streams[t].events)

(* An increment is told to nobody who takes it, and not told again. *)
PartUnheard ==
  /\ turn.told < turn.said
  /\ ~(Heard /\ shared.known)
  /\ turn' = [turn EXCEPT !.told = turn.said]
  /\ UNCHANGED <<streams, configured, shared, screenVars, asked, answers, callVars>>

(* The next reply has ids of its own, which `shared` does not know, and a    *)
(* bubble of its own.                                                       *)
TurnEnds ==
  /\ turn' = NoTurn
  /\ shared' = [shared EXCEPT !.text = 0, !.known = FALSE]
  /\ Anew

TurnEndsUnheard ==
  /\ turn.session # None /\ ~Heard
  /\ TurnEnds
  /\ UNCHANGED <<streams, configured, questions, asked, answers, callVars>>

SessionIdle(t) ==
  /\ turn.session # None
  /\ Passes(t, turn.session)
  /\ TurnEnds
  /\ UNCHANGED <<questions, asked, answers>>

-----------------------------------------------------------------------------
CodeCallStep == CodeProbed \/ CodeAnswered

CodeTaskStep(t) == CodeOpens(t) \/ CodeAborts(t)

CodeFrame(t) ==
  MessageUpdated(t) \/ PartUpdated(t) \/ PermissionUpdated(t) \/ OtherFrame(t) \/ SessionIdle(t)

OpenCodeNext ==
  \/ CodeConnect \/ CodeDisconnect \/ CodeClearSessionScope \/ CodeCallBegins \/ CodeResponds
  \/ CodeCallStep \/ TurnStarts \/ ReplyGrows \/ PartUnheard \/ TurnEndsUnheard
  \/ \E t \in DOMAIN streams : CodeTaskStep(t) \/ CodeBreaks(t) \/ CodeFrame(t)

-----------------------------------------------------------------------------
(* An answer to a permission request goes to the session that asked it,    *)
(* whichever is on screen when it is given (respond_to_interaction).       *)
AnswerGoesToAsker == \A r \in Request : answers[r] # None => answers[r] = asked[r]

(* The reply is drawn from its start, in order and nothing of it twice,      *)
(* though a report may hold the growth or all of it, mixed as the agent      *)
(* likes, and the stream may be replaced between two of them: an increment   *)
(* leaves text_by_part_id alone, a whole part is measured against it, and    *)
(* merge_stream_chunk takes both (opencode.rs:557-581).  Unless a piece that *)
(* came before was missed: what the chat takes then has a hole in it.        *)
ReplyShownOnce ==
  missed \/ (Len(bubble) <= turn.said /\ bubble = [i \in 1 .. Len(bubble) |-> i])

(* "A chunk that already covers (or is covered by) the buffer is merged      *)
(* instead of concatenated" (chat.rs:45-46), also after a hole: nothing is   *)
(* drawn twice.                                                              *)
NothingDrawnTwice == \A i, j \in DOMAIN bubble : bubble[i] = bubble[j] => i = j
=============================================================================
