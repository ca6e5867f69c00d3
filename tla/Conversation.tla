---------------------------- MODULE Conversation ----------------------------
(***************************************************************************)
(* Conversation (core/src/chat.rs): the messages of one chat, folded from  *)
(* the events of its turns.  A backend may tell one reply over several     *)
(* streams at once, in increments, snapshots, repeats and replays.         *)
(*                                                                         *)
(* A text is a sequence of parts <<turn, n>>, each longer than the four    *)
(* characters an overlap needs: part 0 is the prompt, 1..ReplyParts the    *)
(* reply, the next one an error.  Left out: ids and times of messages, the *)
(* files of prompts, and what a frontend is told to redraw.                *)
(***************************************************************************)
EXTENDS Integers, SequencesExt, StreamMerge

CONSTANTS
  Sources,      \* DeltaSource, in its order
  ToolCalls,    \* a call with one of its statuses
  Files,        \* attachments a reply may carry
  MaxTurns,     \* bound: prompts sent
  ReplyParts    \* bound: parts of a reply

ASSUME ConversationAssumption ==
  /\ Sources \in Seq(STRING) /\ MaxTurns \in Nat /\ ReplyParts \in Nat \ {0}

VARIABLES
  messages, streams, sending,  \* Conversation
  turn,      \* the backend: the turn in flight, or the last one
  told,      \* how many parts of its reply each stream has told
  ends,      \* how often its end was told
  answered,  \* turns whose reply is in the backend's history
  late,      \* turns the backend told text or a call of after their end
  mixed      \* turns that made a call after text

convVars == <<messages, streams, sending, turn, told, ends, answered, late, mixed>>

Turn == 1..MaxTurns
Source == ToSet(Sources)
Prompt(t) == << <<t, 0>> >>
Reply(t) == [i \in 1..ReplyParts |-> <<t, i>>]
Error(t) == << <<t, ReplyParts + 1>> >>
Text == Seq(Turn \X (0..(ReplyParts + 1)))

Message == [by : {"user", "assistant"}, text : Text, streaming : BOOLEAN,
            calls : SUBSET ToolCalls, files : SUBSET Files]

Said(who, text) ==
  [by |-> who, text |-> text, streaming |-> FALSE, calls |-> {}, files |-> {}]
Placeholder == [Said("assistant", <<>>) EXCEPT !.streaming = TRUE]

Silent == [s \in Source |-> <<>>]

ConversationTypeOK ==
  /\ messages \in Seq(Message)
  /\ streams \in [Source -> Text]
  /\ sending \in BOOLEAN
  /\ turn \in 0..MaxTurns /\ told \in [Source -> 0..ReplyParts] /\ ends \in 0..2
  /\ answered \subseteq Turn /\ late \subseteq Turn /\ mixed \subseteq Turn

ConversationInit ==
  /\ messages = <<>> /\ streams = Silent /\ sending = FALSE
  /\ turn = 0 /\ told = [s \in Source |-> 0] /\ ends = 0
  /\ answered = {} /\ late = {} /\ mixed = {}

-----------------------------------------------------------------------------
(* The streams of a reply.                                                  *)

(* The most complete one; of two as complete, the later source's. *)
BestStreamText(bs) ==
  LET best == SelectLastInSeq(Sources, LAMBDA s : \A r \in Source : Len(bs[r]) <= Len(bs[s]))
  IN IF best = 0 THEN <<>> ELSE bs[Sources[best]]

-----------------------------------------------------------------------------
(* The message list.                                                        *)

IsReply(m) == m.by = "assistant"
IsOpen(m) == IsReply(m) /\ m.streaming
IsEmptyShell(m) ==
  IsReply(m) /\ ~m.streaming /\ m.text = <<>> /\ m.calls = {} /\ m.files = {}
IsFileOnly(m) == IsReply(m) /\ m.text = <<>> /\ m.files # {}

TurnStart(ms) == SelectLastInSeq(ms, LAMBDA m : m.by = "user") + 1
ThisTurn(ms) == {ms[i] : i \in TurnStart(ms)..Len(ms)}

(* The messages at the positions in is. *)
Those(ms, is) ==
  FoldLeft(LAMBDA kept, i : IF i \in is THEN Append(kept, ms[i]) ELSE kept, <<>>, [i \in DOMAIN ms |-> i])

Pruned(ms) == Those(ms, {i \in DOMAIN ms : ~IsEmptyShell(ms[i])})

Stopped(ms) == [i \in DOMAIN ms |-> IF IsReply(ms[i]) THEN [ms[i] EXCEPT !.streaming = FALSE] ELSE ms[i]]

FinishTurn(ms) ==
  /\ messages' = Pruned(Stopped(ms))
  /\ streams' = Silent
  /\ sending' = FALSE

(* Mutant: the final reply is always a message of its own. *)
CompleteApart(final) ==
  FinishTurn(IF final = <<>> THEN Stopped(messages)
             ELSE Append(Stopped(messages), Said("assistant", final)))

CompleteMessage(final) ==
  LET active == SelectLastInSeq(messages, IsOpen)
      stopped == Stopped(messages)
  IN FinishTurn(IF final = <<>> THEN stopped
                ELSE IF active # 0 /\ messages[active].calls = {}
                  THEN [stopped EXCEPT ![active].text = final]
                  ELSE Append(stopped, Said("assistant", final)))

(* What is told goes into message i, or into a new one when there is none. *)
Bubble(i) == IF i = 0 THEN Placeholder ELSE messages[i]
PutInto(i, m) == messages' = IF i = 0 THEN Append(messages, m) ELSE [messages EXCEPT ![i] = m]

-----------------------------------------------------------------------------
(* A frontend's own steps.                                                  *)

tellerVars == <<turn, told, ends, answered, late, mixed>>

BeginTurnWithPlaceholder ==
  /\ ~sending /\ turn < MaxTurns
  /\ messages' = messages \o <<Said("user", Prompt(turn + 1)), Placeholder>>
  /\ streams' = Silent /\ sending' = TRUE
  /\ turn' = turn + 1 /\ told' = [s \in Source |-> 0] /\ ends' = 0
  /\ UNCHANGED <<answered, late, mixed>>

(* The user stopped the turn, or its stream is gone. *)
GivesUp == sending /\ FinishTurn(messages) /\ UNCHANGED tellerVars

-----------------------------------------------------------------------------
(* The events of the turn, as a backend may report them: apply.             *)

(* Bound: one event is told after the end.                                  *)
Talks ==
  /\ turn > 0
  /\ sending \/ late = {}
  /\ late' = IF sending THEN late ELSE {turn}

StartMessage ==
  /\ Talks /\ sending
  /\ messages' = IF messages # <<>> /\ IsOpen(Last(messages)) THEN messages
                 ELSE Append(messages, Placeholder)
  /\ UNCHANGED <<streams, sending, turn, told, ends, answered, mixed>>

(* The next part, with as much before it as the backend likes; or nothing new. *)
Chunk(s) ==
  {SubSeq(Reply(turn), i, j) : i \in 1..(told[s] + 1), j \in {told[s], told[s] + 1} \cap 1..ReplyParts}
    \ {<<>>}

ApplyDelta(s) == \E chunk \in Chunk(s) :
  /\ Talks
  /\ told' = [told EXCEPT ![s] = Last(chunk)[2]]
  /\ streams' = [streams EXCEPT ![s] = MergeStreamChunk(@, chunk)]
  /\ LET i == SelectLastInSeq(messages, LAMBDA m : IsOpen(m) /\ m.calls = {})
     IN PutInto(i, [Bubble(i) EXCEPT !.text = BestStreamText(streams')])
  /\ UNCHANGED <<sending, turn, ends, answered, mixed>>

AppendToolCall(call) ==
  /\ Talks
  /\ IF \E m \in ThisTurn(messages) : call \in m.calls THEN UNCHANGED messages
     ELSE LET i == SelectLastInSeq(messages, LAMBDA m : IsOpen(m) /\ m.text = <<>>)
          IN PutInto(i, [Bubble(i) EXCEPT !.calls = @ \cup {call}])
  /\ mixed' = IF \A s \in Source : told[s] = 0 THEN mixed ELSE mixed \cup {turn}
  /\ UNCHANGED <<streams, sending, turn, told, ends, answered>>

AppendAttachment(file) ==
  /\ Talks
  /\ IF \E m \in ThisTurn(messages) : file \in m.files THEN UNCHANGED messages
     ELSE LET i == SelectLastInSeq(messages, IsOpen)
          IN PutInto(i, [Bubble(i) EXCEPT !.files = @ \cup {file}])
  /\ UNCHANGED <<streams, sending, turn, told, ends, answered, mixed>>

(* The end is told with the whole reply once, or without it, and then again. *)
Completed(text) ==
  /\ turn > 0 /\ ends < 2
  /\ text # <<>> => ends = 0
  /\ (text = <<>> /\ ends = 0) => \E s \in Source : told[s] = ReplyParts
  /\ CompleteMessage(IF text = <<>> THEN BestStreamText(streams) ELSE text)
  /\ ends' = ends + 1
  /\ answered' = IF ends = 0 THEN answered \cup {turn} ELSE answered
  /\ IF text = <<>> THEN UNCHANGED late ELSE Talks
  /\ UNCHANGED <<turn, told, mixed>>

(* The failure of a turn is its final text. *)
TurnFailed ==
  /\ sending /\ ends = 0
  /\ CompleteMessage(Error(turn))
  /\ ends' = 1
  /\ UNCHANGED <<turn, told, answered, late, mixed>>

-----------------------------------------------------------------------------
(* The session is read again: the backend's history is text alone.          *)

Told(t) ==
  << Said("user", Prompt(t)) >> \o (IF t \in answered THEN << Said("assistant", Reply(t)) >> ELSE <<>>)

History == FoldLeft(LAMBDA history, t : history \o Told(t), <<>>, [t \in 1..turn |-> t])

(* Mutant: only what the reply's own bubble had. *)
CollectOwn(m, from, to) == [m EXCEPT !.files = messages[to].files, !.calls = messages[to].calls]

(* A reply collects what the replies drawn since the last one found had.    *)
Collect(m, from, to) ==
  LET gathered == IF IsReply(m) THEN {messages[i] : i \in from..to} ELSE {messages[to]}
  IN [m EXCEPT !.files = UNION {own.files : own \in gathered},
               !.calls = IF IsReply(m) THEN UNION {own.calls : own \in gathered} ELSE {}]

FilesOnly(from, to) == Those(messages, {i \in from..to : IsFileOnly(messages[i])})

(* Each reported message finds its own among those on screen, in order.     *)
Merge(acc, m) ==
  LET own == SelectInSubSeq(messages, acc.cursor, Len(messages),
               LAMBDA drawn : drawn.by = m.by /\ drawn.text = m.text)
      between == IF IsReply(m) THEN <<>> ELSE FilesOnly(acc.cursor, own - 1)
  IN IF own = 0 THEN [acc EXCEPT !.merged = Append(@, m)]
     ELSE [merged |-> Append(acc.merged \o between, Collect(m, acc.cursor, own)), cursor |-> own + 1]

MergedTranscript(reported) ==
  LET folded == FoldLeft(Merge, [merged |-> <<>>, cursor |-> 1], reported)
  IN folded.merged \o FilesOnly(folded.cursor, Len(messages))

MergeTranscript ==
  /\ ~sending /\ turn > 0
  /\ messages' = MergedTranscript(History)
  /\ streams' = Silent
  /\ UNCHANGED <<sending, tellerVars>>

ConversationNext ==
  \/ BeginTurnWithPlaceholder \/ GivesUp \/ StartMessage \/ TurnFailed \/ MergeTranscript
  \/ \E s \in Source : ApplyDelta(s)
  \/ \E call \in ToolCalls : AppendToolCall(call)
  \/ \E file \in Files : AppendAttachment(file)
  \/ \E text \in {<<>>, Reply(turn)} : Completed(text)

-----------------------------------------------------------------------------
(* The turn a message was drawn in: the number of prompts before it.        *)
TurnOf(ms, i) == Cardinality({j \in 1..i : ms[j].by = "user"})

Texts(ms, t) ==
  {i \in DOMAIN ms : IsReply(ms[i]) /\ ms[i].text # <<>> /\ TurnOf(ms, i) = t}

(* The backend goes on telling a turn after its end: the bubble that opens  *)
(* then is nobody's, and may take the text of the turns that follow.        *)
Orderly == {t \in 1..turn : \A l \in late : t < l}

(* Whatever streams tell a reply, and however, what is on screen reads as   *)
(* the reply does from its start, or as the turn's failure: the regression  *)
(* merge_stream_chunk and best_stream_text are for.                         *)
ReplyReadsInOrder ==
  \A t \in Orderly : \A i \in Texts(messages, t) :
    IsPrefix(messages[i].text, Reply(t)) \/ messages[i].text = Error(t)

(* A turn's reply is in one bubble, also when its end is told twice or it   *)
(* fails, but not when a call comes after text: see NoPartShownTwice.       *)
ReplyKeptTogether ==
  \A t \in Orderly \ mixed : Cardinality(Texts(messages, t)) <= 1

(* Whatever a turn mixes, no part of its reply stands in two bubbles: "the  *)
(* most complete one is what gets shown" (best_stream_text), and a bubble   *)
(* with calls "is a separate bubble and must not swallow it" (apply_delta). *)
NoPartShownTwice ==
  \A t \in Orderly : \A i, j \in Texts(messages, t) :
    i # j => ToSet(messages[i].text) \cap ToSet(messages[j].text) = {}

(* Reading a session again loses no call and no file that was drawn in an   *)
(* answered turn, and moves none into another (merge_transcript).           *)
Drawn(ms, t) ==
  LET its == {ms[i] : i \in {j \in DOMAIN ms : TurnOf(ms, j) = t}}
  IN <<UNION {m.calls : m \in its}, UNION {m.files : m \in its}>>

KeptByMerge ==
  [][MergeTranscript =>
       \A t \in (answered \cap Orderly) \ mixed : Drawn(messages', t) = Drawn(messages, t)]_convVars
=============================================================================
