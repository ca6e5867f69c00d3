------------------------- MODULE DesktopTypeProofs -------------------------
(***************************************************************************)
(* TypeOK is an invariant of the client core, for every set of sessions,   *)
(* kinds of backend and budget of outside events.  First what the          *)
(* operators that several actions share do to the types, then one lemma    *)
(* per action, with one step per part of TypeOK the action changes.        *)
(***************************************************************************)
EXTENDS DesktopClient, SequenceTheorems, TLAPS

USE DEF viewVars, connVars, turnVars, historyVars, textVars

-----------------------------------------------------------------------------
(* The operators that actions share.                                       *)

(* The states of an adapter's mutex (see Adapter in DesktopState).           *)
Guard == {"free", "held", "begin", "dial", "dialled", "refused", "ok", "failed"}

(* A part of the state that an action leaves alone keeps its type.         *)
LEMMA SameTyped ==
  ASSUME TypeOK
  PROVE  /\ UNCHANGED viewVars => ViewTypeOK'
         /\ UNCHANGED <<connVars, enabled>> => ConnTypeOK'
         /\ UNCHANGED turnVars => TurnTypeOK'
         /\ UNCHANGED <<backends, disconnects>> => AdaptersTypeOK'
         /\ UNCHANGED <<historyVars, textVars, budget>> => HistoryTypeOK'
<1>1. UNCHANGED viewVars => ViewTypeOK'
  BY DEF TypeOK, ViewTypeOK
<1>2. UNCHANGED <<connVars, enabled>> => ConnTypeOK'
  BY DEF TypeOK, ConnTypeOK
<1>3. UNCHANGED turnVars => TurnTypeOK'
  BY DEF TypeOK, TurnTypeOK
<1>4. UNCHANGED <<backends, disconnects>> => AdaptersTypeOK'
  BY DEF TypeOK, AdaptersTypeOK, Adapters
<1>5. UNCHANGED <<historyVars, textVars, budget>> => HistoryTypeOK'
  BY DEF TypeOK, HistoryTypeOK
<1>6. QED
  BY <1>1, <1>2, <1>3, <1>4, <1>5

(* The absent text is a text.                                              *)
LEMMA NoTextTyped == NoText \in Text
BY DEF NoText, Text, SessionOrNone

(* Spending from the budget of outside events leaves a budget.             *)
LEMMA SpendTyped ==
  ASSUME TypeOK, NEW c \in Class, Spend(c)
  PROVE  budget' \in [Class -> Nat]
BY DEF TypeOK, HistoryTypeOK, Spend

(* connect() (connect.rs:34), whoever calls it.                            *)
LEMMA ConnectTyped ==
  ASSUME TypeOK, Connect
  PROVE  (UNCHANGED enabled => ConnTypeOK') /\ connects' \subseteq ConnectTask
<1>1. connects' \subseteq ConnectTask
  BY DEF Connect, TypeOK, TasksTypeOK, ConnTypeOK, ConnectTask, SessionOrNone
<1>2. /\ connection' \in Connection /\ retry_attempt' \in Nat
      /\ connect_generation' \in Nat /\ connection_epoch' \in Nat
  BY DEF Connect, TypeOK, ConnTypeOK, Connection
<1>3. /\ transport_ready' \in BOOLEAN /\ gateway_connecting' \in BOOLEAN
      /\ reconnecting' \in BOOLEAN
  BY DEF Connect, TypeOK, ConnTypeOK
<1>4. QED
  BY <1>1, <1>2, <1>3 DEF TypeOK, ConnTypeOK

(* schedule_retry (connect.rs:229), for a generation read earlier.         *)
LEMMA ScheduleRetryTyped ==
  ASSUME TypeOK, NEW gen \in Nat, ScheduleRetry(gen)
  PROVE  (UNCHANGED enabled => ConnTypeOK') /\ retries' \subseteq RetryTimer
<1>1. retries' \subseteq RetryTimer
  BY DEF ScheduleRetry, TypeOK, TasksTypeOK, ConnTypeOK, RetryTimer
<1>2. /\ connection' \in Connection /\ retry_attempt' \in Nat
      /\ connect_generation' \in Nat /\ connection_epoch' \in Nat
  BY DEF ScheduleRetry, TypeOK, ConnTypeOK, Connection
<1>3. /\ transport_ready' \in BOOLEAN /\ gateway_connecting' \in BOOLEAN
      /\ reconnecting' \in BOOLEAN
  BY DEF ScheduleRetry, TypeOK, ConnTypeOK
<1>4. QED
  BY <1>1, <1>2, <1>3 DEF TypeOK, ConnTypeOK

(* return_pending_to_composer: the queue is emptied into the composer.     *)
LEMMA ReturnPendingTyped ==
  ASSUME TypeOK, ReturnPendingToComposer
  PROVE  /\ queue' \in Seq(Text)
         /\ settled' \subseteq Nat \X {"composer", "cancelled", "sent", "answered"}
<1>1. QueuedIds \subseteq Nat
  <2>1. \A n \in DOMAIN queue : queue[n] \in Text
    BY DEF TypeOK, TurnTypeOK
  <2>2. QED
    BY <2>1 DEF QueuedIds, Text
<1>2. queue' \in Seq(Text)
  BY EmptySeq DEF ReturnPendingToComposer
<1>3. QED
  BY <1>1, <1>2 DEF ReturnPendingToComposer, Settle, TypeOK, HistoryTypeOK

(* open() of sessions.rs, by the user or by a connect that comes back.     *)
LEMMA OpenTyped ==
  ASSUME TypeOK, NEW s \in Session, Open(s)
  PROVE  /\ ViewTypeOK' /\ TurnTypeOK' /\ opens' \subseteq OpenTask
         /\ budget' \in [Class -> Nat] => HistoryTypeOK'
<1>1. ViewTypeOK'
  BY DEF Open, AdvanceView, TypeOK, ViewTypeOK, SessionOrNone
<1>2. turn_seq' \in Nat /\ clarify' \in SessionOrNone
  BY DEF Open, TypeOK, TurnTypeOK, SessionOrNone
<1>3. TurnTypeOK'
  BY <1>2, ReturnPendingTyped DEF Open, TypeOK, TurnTypeOK
<1>4. opens' \subseteq OpenTask
  BY DEF Open, TypeOK, TasksTypeOK, ViewTypeOK, OpenTask
<1>5. budget' \in [Class -> Nat] => HistoryTypeOK'
  BY ReturnPendingTyped DEF Open, TypeOK, HistoryTypeOK
<1>6. QED
  BY <1>1, <1>3, <1>4, <1>5

(* send() of send.rs, by the window thread, a pump or a stop.              *)
LEMMA SendTyped ==
  ASSUME TypeOK, NEW text \in Text, Send(text)
  PROVE  /\ UNCHANGED <<clarify, queue>> => TurnTypeOK'
         /\ delivers' \subseteq DeliverTask
<1>1. turn_seq' \in Nat
  BY DEF Send, TypeOK, TurnTypeOK
<1>2. UNCHANGED <<clarify, queue>> => TurnTypeOK'
  BY <1>1 DEF Send, TypeOK, TurnTypeOK
<1>3. delivers' \subseteq DeliverTask
  BY DEF Send, TypeOK, TasksTypeOK, TurnTypeOK, ViewTypeOK, DeliverTask, SessionOrNone
<1>4. QED
  BY <1>2, <1>3

(* after_turn(): what is taken out of the queue is a text or nothing.      *)
LEMMA AfterTurnTyped ==
  ASSUME TypeOK, AfterTurn
  PROVE  (UNCHANGED <<sending, turn_seq>> => TurnTypeOK') /\ NextQueued \in Text
<1>1. queue # <<>> => Head(queue) \in Text /\ Tail(queue) \in Seq(Text)
  BY DEF TypeOK, TurnTypeOK
<1>2. NextQueued \in Text
  BY <1>1, NoTextTyped DEF NextQueued
<1>3. queue' \in Seq(Text)
  <2>1. CASE NextQueued = NoText
    BY <2>1 DEF AfterTurn, TypeOK, TurnTypeOK
  <2>2. CASE NextQueued # NoText
    <3>1. queue # <<>>
      BY <2>2 DEF NextQueued
    <3>2. QED
      BY <2>2, <3>1, <1>1 DEF AfterTurn
  <2>3. QED
    BY <2>1, <2>2
<1>4. clarify' \in SessionOrNone
  BY DEF AfterTurn, SessionOrNone
<1>5. QED
  BY <1>2, <1>3, <1>4 DEF AfterTurn, TypeOK, TurnTypeOK

(* stop() of send.rs.                                                      *)
LEMMA StopTyped ==
  ASSUME TypeOK, Stop
  PROVE  stopping' \in BOOLEAN /\ stops' \subseteq StopTask
<1>1. stops' \subseteq StopTask
  BY NoTextTyped DEF Stop, TypeOK, TasksTypeOK, TurnTypeOK, ViewTypeOK, AdaptersTypeOK,
     StopTask, Current
<1>2. QED
  BY <1>1 DEF Stop

(* One adapter's record is replaced by another.                            *)
LEMMA AdapterUpdated ==
  ASSUME TypeOK, NEW i, NEW b \in Adapter,
         backends' = [backends EXCEPT ![i] = b], disconnects' \subseteq Adapters
  PROVE  AdaptersTypeOK'
<1>1. DOMAIN backends' = DOMAIN backends /\ Len(backends') = Len(backends)
  BY DEF TypeOK, AdaptersTypeOK
<1>2. backends' \in Seq(Adapter)
  <2>1. CASE i \in DOMAIN backends
    BY <2>1, ExceptSeq DEF TypeOK, AdaptersTypeOK
  <2>2. CASE i \notin DOMAIN backends
    <3>1. backends' = backends
      BY <2>2 DEF TypeOK, AdaptersTypeOK
    <3>2. QED
      BY <3>1 DEF TypeOK, AdaptersTypeOK
  <2>3. QED
    BY <2>1, <2>2
<1>3. QED
  BY <1>1, <1>2 DEF TypeOK, AdaptersTypeOK, Adapters

(* An adapter ever made is a record of its type.                           *)
LEMMA AdapterTyped ==
  ASSUME TypeOK, NEW i \in Adapters
  PROVE  backends[i] \in Adapter
BY DEF TypeOK, AdaptersTypeOK, Adapters

(* There is always a current adapter.                                      *)
LEMMA CurrentTyped ==
  ASSUME TypeOK
  PROVE  Current \in Adapters /\ Current \in Nat
BY DEF TypeOK, AdaptersTypeOK, Adapters, Current

(* Updating the record of an adapter that was never made changes nothing.  *)
LEMMA AdapterElsewhere ==
  ASSUME TypeOK, NEW i, i \notin Adapters, NEW b
  PROVE  [backends EXCEPT ![i] = b] = backends
BY DEF TypeOK, AdaptersTypeOK, Adapters

(* The guard of an adapter moves.                                          *)
LEMMA HeldTyped ==
  ASSUME TypeOK, NEW i, NEW g \in Guard, Held(i, g), UNCHANGED disconnects
  PROVE  AdaptersTypeOK'
<1> DEFINE b == [backends[i] EXCEPT !.guard = g]
<1>1. backends' = [backends EXCEPT ![i] = b]
  BY DEF Held
<1>2. CASE i \in Adapters
  <2>1. b \in Adapter
    BY <1>2, AdapterTyped DEF Adapter, Guard
  <2>2. disconnects' \subseteq Adapters
    BY DEF TypeOK, AdaptersTypeOK
  <2>3. QED
    BY <1>1, <2>1, <2>2, AdapterUpdated
<1>3. CASE i \notin Adapters
  BY <1>1, <1>3, AdapterElsewhere, SameTyped
<1>4. QED
  BY <1>2, <1>3

(* The session filter of an adapter is set.                                *)
LEMMA ScopedTyped ==
  ASSUME TypeOK, NEW i, NEW ids \in SUBSET Session, Scoped(i, ids), UNCHANGED disconnects
  PROVE  AdaptersTypeOK'
<1> DEFINE b == [backends[i] EXCEPT !.scope = ids]
<1>1. backends' = [backends EXCEPT ![i] = b]
  BY DEF Scoped
<1>2. CASE i \in Adapters
  <2>1. b \in Adapter
    BY <1>2, AdapterTyped DEF Adapter
  <2>2. disconnects' \subseteq Adapters
    BY DEF TypeOK, AdaptersTypeOK
  <2>3. QED
    BY <1>1, <2>1, <2>2, AdapterUpdated
<1>3. CASE i \notin Adapters
  BY <1>1, <1>3, AdapterElsewhere, SameTyped
<1>4. QED
  BY <1>2, <1>3

(* A delivery moves on: it has a session whenever its next step uses one.  *)
LEMMA DeliverUpdated ==
  ASSUME TypeOK, NEW d \in delivers
  PROVE  /\ \A pc \in {"connect", "wait", "ready", "lock", "ensure", "create", "back"} :
              [d EXCEPT !.pc = pc] \in DeliverTask
         /\ \A i \in Nat : [d EXCEPT !.pc = "lock", !.inst = i] \in DeliverTask
         /\ \A s \in Session : \A pc \in {"resume", "created", "submit"} :
              [d EXCEPT !.pc = pc, !.target = s] \in DeliverTask
         /\ \A pc \in {"resumed", "submit"} :
              d.target \in Session => [d EXCEPT !.pc = pc] \in DeliverTask
<1>1. d \in DeliverTask
  BY DEF TypeOK, TasksTypeOK
<1>2. ASSUME NEW pc \in {"connect", "wait", "ready", "lock", "ensure", "create", "back"}
      PROVE  [d EXCEPT !.pc = pc] \in DeliverTask
  BY <1>1 DEF DeliverTask
<1>3. ASSUME NEW i \in Nat
      PROVE  [d EXCEPT !.pc = "lock", !.inst = i] \in DeliverTask
  BY <1>1 DEF DeliverTask
<1>4. ASSUME NEW s \in Session, NEW pc \in {"resume", "created", "submit"}
      PROVE  [d EXCEPT !.pc = pc, !.target = s] \in DeliverTask
  BY <1>1 DEF DeliverTask, SessionOrNone
<1>5. ASSUME NEW pc \in {"resumed", "submit"}, d.target \in Session
      PROVE  [d EXCEPT !.pc = pc] \in DeliverTask
  BY <1>1, <1>5 DEF DeliverTask
<1>6. QED
  BY <1>2, <1>3, <1>4, <1>5

(* A delivery that resumes, attaches or submits has a session.             *)
LEMMA DeliverTarget ==
  ASSUME TypeOK, NEW d \in delivers,
         d.pc \in {"resume", "resumed", "created", "submit"}
  PROVE  d.target \in Session
BY DEF TypeOK, TasksTypeOK, DeliverTask

(* An event enters a channel.                                              *)
LEMMA EmitTyped ==
  ASSUME TypeOK, NEW e, NEW event \in Event
  PROVE  Emit(pumps, e, event) \subseteq Pump
<1>1. ASSUME NEW p \in pumps
      PROVE  [p EXCEPT !.events = Append(@, event)] \in Pump
  <2>1. p \in Pump
    BY DEF TypeOK, TasksTypeOK
  <2>2. Append(p.events, event) \in Seq(Event)
    BY <2>1 DEF Pump
  <2>3. QED
    BY <2>1, <2>2 DEF Pump
<1>2. QED
  BY <1>1 DEF Emit, TypeOK, TasksTypeOK

(* The events that carry no session.                                       *)
LEMMA PlainTyped ==
  ASSUME NEW k \in {"Connected", "Disconnected", "Failed"}
  PROVE  Plain(k) \in Event
BY DEF Plain, Event

(* The last word of a stream its adapter closes.                           *)
LEMMA LastWordTyped ==
  ASSUME TypeOK, NEW i, LastWord(i)
  PROVE  pumps' \subseteq Pump
BY EmitTyped, PlainTyped DEF LastWord, TypeOK, TasksTypeOK

(* A pump takes an event out of its channel.                               *)
LEMMA HandledTyped ==
  ASSUME TypeOK, NEW p \in pumps, p.events # <<>>,
         NEW pc \in {"idle", "lost", "after"}, Handled(p, pc)
  PROVE  pumps' \subseteq Pump /\ Head(p.events) \in Event
<1>1. p \in Pump
  BY DEF TypeOK, TasksTypeOK
<1>2. Head(p.events) \in Event /\ Tail(p.events) \in Seq(Event)
  BY <1>1 DEF Pump
<1>3. pumps' \subseteq Pump
  BY <1>1, <1>2 DEF Handled, Pump, TypeOK, TasksTypeOK
<1>4. QED
  BY <1>2, <1>3

(* The queue without one of its prompts.                                   *)
LEMMA WithoutTyped ==
  ASSUME TypeOK, NEW n \in DOMAIN queue
  PROVE  Without(n) \in Seq(Text) /\ queue[n] \in Text
<1>1. queue \in Seq(Text) /\ n \in 1 .. Len(queue)
  BY DEF TypeOK, TurnTypeOK
<1>2. SubSeq(queue, 1, n - 1) \in Seq(Text)
  BY <1>1, SubSeqProperties
<1>3. SubSeq(queue, n + 1, Len(queue)) \in Seq(Text)
  BY <1>1, SubSeqProperties
<1>4. QED
  BY <1>1, <1>2, <1>3, ConcatProperties DEF Without

(* The queue without one of its prompts holds the others. *)
LEMMA WithoutIs ==
  ASSUME TypeOK, NEW n \in DOMAIN queue
  PROVE  /\ Without(n) \in Seq(Text)
         /\ Len(Without(n)) = Len(queue) - 1
         /\ \A m \in DOMAIN Without(n) :
              Without(n)[m] = queue[IF m < n THEN m ELSE m + 1]
<1>1. queue \in Seq(Text) /\ n \in 1 .. Len(queue) /\ Len(queue) \in Nat
  BY DEF TypeOK, TurnTypeOK
<1> DEFINE s == SubSeq(queue, 1, n - 1)
           t == SubSeq(queue, n + 1, Len(queue))
<1>2. /\ s \in Seq(Text) /\ Len(s) = n - 1
      /\ \A m \in 1 .. n - 1 : s[m] = queue[m]
  BY <1>1
<1>3. /\ t \in Seq(Text) /\ Len(t) = Len(queue) - n
      /\ \A m \in 1 .. Len(queue) - n : t[m] = queue[n + m]
  BY <1>1
<1>4. Without(n) = s \o t
  BY DEF Without
<1> HIDE DEF s, t
<1>5. /\ s \o t \in Seq(Text) /\ Len(s \o t) = Len(queue) - 1
      /\ \A m \in 1 .. Len(queue) - 1 : (s \o t)[m] = IF m <= n - 1 THEN s[m] ELSE t[m - (n - 1)]
  BY <1>1, <1>2, <1>3
<1>6. ASSUME NEW m \in 1 .. Len(queue) - 1
      PROVE  (s \o t)[m] = queue[IF m < n THEN m ELSE m + 1]
  <2>1. CASE m < n
    BY <1>1, <1>2, <1>5, <2>1
  <2>2. CASE ~(m < n)
    <3>1. m - (n - 1) \in 1 .. Len(queue) - n /\ n + (m - (n - 1)) = m + 1
      BY <1>1, <2>2
    <3>2. QED
      BY <1>1, <1>3, <1>5, <2>2, <3>1
  <2>3. QED
    BY <2>1, <2>2
<1>7. DOMAIN (s \o t) = 1 .. Len(queue) - 1
  BY <1>5, LenProperties
<1>8. QED
  BY <1>4, <1>5, <1>6, <1>7

-----------------------------------------------------------------------------
(* The connect task.                                                       *)

(* A connect that was overtaken ends, one that was not goes on or fails.   *)
LEMMA ConnectProbedTyped ==
  ASSUME TypeOK, NEW c \in connects, ConnectProbed(c)
  PROVE  TypeOK'
<1>1. ConnTypeOK'
  BY DEF ConnectProbed, Connection, TypeOK, ConnTypeOK
<1>2. TasksTypeOK'
  BY DEF ConnectProbed, ConnectIs, ConnectTask, TypeOK, TasksTypeOK
<1>3. HistoryTypeOK'
  BY SpendTyped DEF ConnectProbed, Class, TypeOK, HistoryTypeOK
<1>4. QED
  BY <1>1, <1>2, <1>3, SameTyped DEF ConnectProbed, TypeOK

(* A connect takes the current adapter's lock, or ends.                    *)
LEMMA ConnectAttachTyped ==
  ASSUME TypeOK, NEW c \in connects, ConnectAttach(c)
  PROVE  TypeOK'
<1>1. Current \in Nat
  BY CurrentTyped
<1>2. connects' \subseteq ConnectTask
  BY <1>1 DEF ConnectAttach, ConnectTask, TypeOK, TasksTypeOK
<1>3. TasksTypeOK'
  BY <1>2 DEF ConnectAttach, TypeOK, TasksTypeOK
<1>4. AdaptersTypeOK'
  BY HeldTyped, SameTyped DEF ConnectAttach, Guard
<1>5. QED
  BY <1>1, <1>2, <1>3, <1>4, SameTyped DEF ConnectAttach, TypeOK

(* A connect lets go of the lock when ensure_stream has returned.          *)
LEMMA ConnectEnsuredTyped ==
  ASSUME TypeOK, NEW c \in connects, ConnectEnsured(c)
  PROVE  TypeOK'
<1>1. TasksTypeOK'
  BY DEF ConnectEnsured, ConnectIs, ConnectTask, TypeOK, TasksTypeOK
<1>2. AdaptersTypeOK'
  BY HeldTyped DEF ConnectEnsured, Guard
<1>3. QED
  BY <1>1, <1>2, SameTyped DEF ConnectEnsured, TypeOK

(* A failed connect schedules the next attempt.                            *)
LEMMA ConnectRetryTyped ==
  ASSUME TypeOK, NEW c \in connects, ConnectRetry(c)
  PROVE  TypeOK'
<1>1. c.gen \in Nat
  BY DEF ConnectTask, TypeOK, TasksTypeOK
<1>2. ConnTypeOK'
  BY <1>1, ScheduleRetryTyped DEF ConnectRetry
<1>3. TasksTypeOK'
  BY <1>1, ScheduleRetryTyped DEF ConnectRetry, TypeOK, TasksTypeOK
<1>4. QED
  BY <1>1, <1>2, <1>3, SameTyped DEF ConnectRetry, TypeOK

(* A connect reads the session to come back to ...                         *)
LEMMA ConnectReopenTyped ==
  ASSUME TypeOK, NEW c \in connects, ConnectReopen(c)
  PROVE  TypeOK'
<1>1. TasksTypeOK'
  BY DEF ConnectReopen, ConnectTask, ViewTypeOK, TypeOK, TasksTypeOK
<1>2. QED
  BY <1>1, SameTyped DEF ConnectReopen, TypeOK

(* ... and opens it, or clears the scope of a blank chat.                  *)
LEMMA ConnectOpenTyped ==
  ASSUME TypeOK, NEW c \in connects, ConnectOpen(c)
  PROVE  TypeOK'
<1>1. c.session \in SessionOrNone
  BY DEF ConnectTask, TypeOK, TasksTypeOK
<1>2. CASE Reopens(c.session)
  <2>1. c.session \in Session
    BY <1>1, <1>2 DEF Reopens, SessionOrNone
  <2>2. ViewTypeOK' /\ TurnTypeOK' /\ opens' \subseteq OpenTask
    BY <1>2, <2>1, OpenTyped DEF ConnectOpen
  <2>3. HistoryTypeOK'
    BY <1>2, <2>1, OpenTyped DEF ConnectOpen, TypeOK, HistoryTypeOK
  <2>4. TasksTypeOK'
    BY <1>2, <2>2 DEF ConnectOpen, TypeOK, TasksTypeOK
  <2>5. QED
    BY <2>2, <2>3, <2>4, SameTyped DEF ConnectOpen, TypeOK
<1>3. CASE ~Reopens(c.session)
  <2>1. TasksTypeOK'
    BY <1>3 DEF ConnectOpen, ClearScopeIfBlank, ScopeTask, Current, TypeOK, TasksTypeOK,
                ViewTypeOK, AdaptersTypeOK
  <2>2. QED
    BY <1>3, <2>1, SameTyped DEF ConnectOpen, TypeOK
<1>4. QED
  BY <1>1, <1>2, <1>3, SameTyped DEF ConnectOpen, TypeOK

-----------------------------------------------------------------------------
(* ensure_stream.                                                          *)

(* ensure_stream finds the stream up, is refused, or makes a channel and   *)
(* its pump.                                                               *)
LEMMA EnsureBeginTyped ==
  ASSUME TypeOK, NEW i \in Adapters, EnsureBegin(i)
  PROVE  TypeOK'
<1>1. /\ connection' \in Connection /\ retry_attempt' \in Nat
      /\ connect_generation' \in Nat /\ connection_epoch' \in Nat
  BY DEF EnsureBegin, Connection, TypeOK, ConnTypeOK
<1>2. /\ transport_ready' \in BOOLEAN /\ gateway_connecting' \in BOOLEAN
      /\ reconnecting' \in BOOLEAN /\ enabled' \in BOOLEAN
  BY DEF EnsureBegin, TypeOK, ConnTypeOK
<1>3. ConnTypeOK'
  BY <1>1, <1>2 DEF ConnTypeOK
<1>4. pumps' \subseteq Pump
  <2>1. connection_epoch + 1 \in Nat /\ <<>> \in Seq(Event)
    BY EmptySeq DEF TypeOK, ConnTypeOK
  <2>2. [epoch |-> connection_epoch + 1, events |-> <<>>, pc |-> "idle", gen |-> 0,
         text |-> NoText] \in Pump
    BY <2>1, NoTextTyped DEF Pump
  <2>3. QED
    BY <2>2 DEF EnsureBegin, TypeOK, TasksTypeOK
<1>5. TasksTypeOK'
  BY <1>4 DEF EnsureBegin, TypeOK, TasksTypeOK
<1>6. AdaptersTypeOK'
  <2> DEFINE b == [backends[i] EXCEPT !.guard = "dial", !.channel = connection_epoch + 1]
  <2>1. CASE Held(i, "ok") \/ Held(i, "failed")
    BY <2>1, HeldTyped DEF EnsureBegin, Guard
  <2>2. CASE backends' = [backends EXCEPT ![i] = b]
    <3>1. backends[i] \in Adapter /\ connection_epoch + 1 \in Nat
      BY AdapterTyped DEF TypeOK, ConnTypeOK
    <3>2. b \in Adapter
      BY <3>1 DEF Adapter
    <3>3. disconnects' \subseteq Adapters
      BY DEF EnsureBegin, TypeOK, AdaptersTypeOK
    <3>4. QED
      BY <2>2, <3>2, <3>3, AdapterUpdated
  <2>3. QED
    BY <2>1, <2>2 DEF EnsureBegin
<1>7. HistoryTypeOK'
  BY SpendTyped DEF EnsureBegin, Class, TypeOK, HistoryTypeOK
<1>8. QED
  BY <1>1, <1>2, <1>3, <1>4, <1>5, <1>6, <1>7, SameTyped DEF EnsureBegin, TypeOK

(* The adapter opens its stream on the new channel, or fails to.           *)
LEMMA EnsureDialTyped ==
  ASSUME TypeOK, NEW i \in Adapters, EnsureDial(i)
  PROVE  TypeOK'
<1>1. pumps' \subseteq Pump
  BY LastWordTyped DEF EnsureDial
<1>2. TasksTypeOK'
  BY <1>1 DEF EnsureDial, TypeOK, TasksTypeOK
<1>3. AdaptersTypeOK'
  <2> DEFINE b == backends[i]
             d(guard, stream) ==
               [[b EXCEPT !.epoch = connection_epoch, !.up = FALSE, !.scope = {}]
                  EXCEPT !.guard = guard, !.stream = stream]
  <2>1. b \in Adapter
    BY AdapterTyped
  <2>2. d("dialled", b.channel) \in Adapter /\ d("refused", 0) \in Adapter
    BY <2>1 DEF Adapter, TypeOK, ConnTypeOK
  <2>3. \/ backends' = [backends EXCEPT ![i] = d("dialled", b.channel)]
        \/ backends' = [backends EXCEPT ![i] = d("refused", 0)]
    BY DEF EnsureDial
  <2>4. disconnects' \subseteq Adapters
    BY DEF EnsureDial, TypeOK, AdaptersTypeOK
  <2>5. QED
    BY <2>2, <2>3, <2>4, AdapterUpdated
<1>4. HistoryTypeOK'
  BY SpendTyped DEF EnsureDial, Class, TypeOK, HistoryTypeOK
<1>5. QED
  BY <1>1, <1>2, <1>3, <1>4, SameTyped DEF EnsureDial, TypeOK

(* The outcome is recorded, unless the connection was replaced.            *)
LEMMA EnsureSettleTyped ==
  ASSUME TypeOK, NEW i \in Adapters, EnsureSettle(i)
  PROVE  TypeOK'
<1>1. /\ connection' \in Connection /\ retry_attempt' \in Nat
      /\ connect_generation' \in Nat /\ connection_epoch' \in Nat
  BY DEF EnsureSettle, Connection, TypeOK, ConnTypeOK
<1>2. /\ transport_ready' \in BOOLEAN /\ gateway_connecting' \in BOOLEAN
      /\ reconnecting' \in BOOLEAN /\ enabled' \in BOOLEAN
  BY DEF EnsureSettle, TypeOK, ConnTypeOK
<1>3. ConnTypeOK'
  BY <1>1, <1>2 DEF ConnTypeOK
<1>4. AdaptersTypeOK'
  BY HeldTyped DEF EnsureSettle, Guard
<1>5. TasksTypeOK'
  BY DEF EnsureSettle, TypeOK, TasksTypeOK
<1>6. QED
  BY <1>1, <1>2, <1>3, <1>4, <1>5, SameTyped DEF EnsureSettle, TypeOK

-----------------------------------------------------------------------------
(* Timers, closing tasks and restarts.                                     *)

(* A retry timer runs out ...                                              *)
LEMMA RetryFiresTyped ==
  ASSUME TypeOK, NEW r \in retries, RetryFires(r)
  PROVE  TypeOK'
<1>1. retries' \subseteq RetryTimer
  BY DEF RetryFires, RetryTimer, TypeOK, TasksTypeOK
<1>2. TasksTypeOK'
  BY <1>1 DEF RetryFires, TypeOK, TasksTypeOK
<1>3. QED
  BY <1>1, <1>2, SameTyped DEF RetryFires, TypeOK

(* ... and connects.                                                       *)
LEMMA RetryConnectsTyped ==
  ASSUME TypeOK, NEW r \in retries, RetryConnects(r)
  PROVE  TypeOK'
<1>1. ConnTypeOK' /\ connects' \subseteq ConnectTask
  BY ConnectTyped DEF RetryConnects
<1>2. TasksTypeOK'
  BY <1>1 DEF RetryConnects, TypeOK, TasksTypeOK
<1>3. QED
  BY <1>1, <1>2, SameTyped DEF RetryConnects, TypeOK

(* An adapter that was left is closed.                                     *)
LEMMA AdapterDisconnectsTyped ==
  ASSUME TypeOK, NEW i \in Adapters, AdapterDisconnects(i)
  PROVE  TypeOK'
<1>1. pumps' \subseteq Pump
  BY LastWordTyped DEF AdapterDisconnects
<1>2. TasksTypeOK'
  BY <1>1 DEF AdapterDisconnects, TypeOK, TasksTypeOK
<1>3. AdaptersTypeOK'
  <2> DEFINE b == [backends[i] EXCEPT !.stream = 0, !.up = FALSE, !.scope = {}]
  <2>1. b \in Adapter
    BY AdapterTyped DEF Adapter
  <2>2. backends' = [backends EXCEPT ![i] = b]
    BY AdapterTyped DEF AdapterDisconnects, Adapter
  <2>3. disconnects' \subseteq Adapters
    BY DEF AdapterDisconnects, TypeOK, AdaptersTypeOK
  <2>4. QED
    BY <2>1, <2>2, <2>3, AdapterUpdated
<1>4. QED
  BY <1>1, <1>2, <1>3, SameTyped DEF AdapterDisconnects, TypeOK

(* The managed server has restarted in another directory ...               *)
LEMMA ServerRestartedTyped ==
  ASSUME TypeOK, ServerRestarted
  PROVE  TypeOK'
<1>1. /\ connection' \in Connection /\ retry_attempt' \in Nat
      /\ connect_generation' \in Nat /\ connection_epoch' \in Nat
  BY DEF ServerRestarted, Connection, TypeOK, ConnTypeOK
<1>2. /\ transport_ready' \in BOOLEAN /\ gateway_connecting' \in BOOLEAN
      /\ reconnecting' \in BOOLEAN /\ enabled' \in BOOLEAN
  BY DEF ServerRestarted, TypeOK, ConnTypeOK
<1>3. ConnTypeOK'
  BY <1>1, <1>2 DEF ConnTypeOK
<1>4. ViewTypeOK'
  BY DEF ServerRestarted, TypeOK, ViewTypeOK, SessionOrNone
<1>5. TasksTypeOK'
  BY DEF ServerRestarted, RestartTask, TypeOK, TasksTypeOK
<1>6. QED
  BY <1>1, <1>2, <1>3, <1>4, <1>5, SameTyped DEF ServerRestarted, TypeOK

(* ... and the connection follows it.                                      *)
LEMMA RestartConnectsTyped ==
  ASSUME TypeOK, RestartConnects
  PROVE  TypeOK'
<1>1. ConnTypeOK' /\ connects' \subseteq ConnectTask
  BY ConnectTyped DEF RestartConnects
<1>2. TasksTypeOK'
  BY <1>1 DEF RestartConnects, TypeOK, TasksTypeOK
<1>3. QED
  BY <1>1, <1>2, SameTyped DEF RestartConnects, TypeOK

-----------------------------------------------------------------------------
(* The tasks of sessions.rs.                                               *)

(* An opening session takes the current adapter's lock, or ends.           *)
LEMMA OpenAttachTyped ==
  ASSUME TypeOK, NEW o \in opens, OpenAttach(o)
  PROVE  TypeOK'
<1>1. Current \in Nat
  BY CurrentTyped
<1>2. opens' \subseteq OpenTask
  BY <1>1 DEF OpenAttach, OpenTask, TypeOK, TasksTypeOK
<1>3. TasksTypeOK'
  BY <1>2 DEF OpenAttach, TypeOK, TasksTypeOK
<1>4. AdaptersTypeOK'
  BY HeldTyped, SameTyped DEF OpenAttach, Guard
<1>5. QED
  BY <1>1, <1>2, <1>3, <1>4, SameTyped DEF OpenAttach, TypeOK

(* ensure_stream has returned to an opening session.                       *)
LEMMA OpenEnsuredTyped ==
  ASSUME TypeOK, NEW o \in opens, OpenEnsured(o)
  PROVE  TypeOK'
<1>1. opens' \subseteq OpenTask
  BY DEF OpenEnsured, OpenIs, OpenTask, TypeOK, TasksTypeOK
<1>2. TasksTypeOK'
  BY <1>1 DEF OpenEnsured, TypeOK, TasksTypeOK
<1>3. AdaptersTypeOK'
  BY HeldTyped DEF OpenEnsured, Guard
<1>4. QED
  BY <1>1, <1>2, <1>3, SameTyped DEF OpenEnsured, TypeOK

(* The history of the session replaces what is drawn, or does not.         *)
LEMMA OpenHistoryTyped ==
  ASSUME TypeOK, NEW o \in opens, OpenHistory(o)
  PROVE  TypeOK'
<1>1. opens' \subseteq OpenTask
  BY DEF OpenHistory, OpenIs, OpenTask, TypeOK, TasksTypeOK
<1>2. TasksTypeOK'
  BY <1>1 DEF OpenHistory, TypeOK, TasksTypeOK
<1>3. AdaptersTypeOK'
  BY HeldTyped, SameTyped DEF OpenHistory, Guard
<1>4. ViewTypeOK'
  BY DEF OpenHistory, TypeOK, ViewTypeOK
<1>5. HistoryTypeOK'
  BY SpendTyped DEF OpenHistory, RequestFails, Class, TypeOK, HistoryTypeOK
<1>6. QED
  BY <1>1, <1>2, <1>3, <1>4, <1>5, SameTyped DEF OpenHistory, TypeOK

(* The session is resumed, refused, or no longer on screen.                *)
LEMMA OpenResumeTyped ==
  ASSUME TypeOK, NEW o \in opens, OpenResume(o)
  PROVE  TypeOK'
<1>1. opens' \subseteq OpenTask
  BY DEF OpenResume, OpenIs, OpenTask, TypeOK, TasksTypeOK
<1>2. TasksTypeOK'
  BY <1>1 DEF OpenResume, TypeOK, TasksTypeOK
<1>3. o.session \in Session
  BY DEF OpenTask, TypeOK, TasksTypeOK
<1>4. AdaptersTypeOK'
  BY <1>3, HeldTyped, ScopedTyped, SameTyped DEF OpenResume, Guard
<1>5. HistoryTypeOK'
  BY SpendTyped DEF OpenResume, RequestFails, Class, TypeOK, HistoryTypeOK
<1>6. QED
  BY <1>1, <1>2, <1>3, <1>4, <1>5, SameTyped DEF OpenResume, TypeOK

(* The outcome of the resume is applied to the view that asked.            *)
LEMMA OpenResumedTyped ==
  ASSUME TypeOK, NEW o \in opens, OpenResumed(o)
  PROVE  TypeOK'
<1>1. TasksTypeOK'
  BY DEF OpenResumed, TypeOK, TasksTypeOK
<1>2. ViewTypeOK'
  BY DEF OpenResumed, OpenTask, TypeOK, TasksTypeOK, ViewTypeOK, SessionOrNone
<1>3. /\ connection' \in Connection /\ retry_attempt' \in Nat
      /\ connect_generation' \in Nat /\ connection_epoch' \in Nat
  BY DEF OpenResumed, Connection, TypeOK, ConnTypeOK
<1>4. /\ transport_ready' \in BOOLEAN /\ gateway_connecting' \in BOOLEAN
      /\ reconnecting' \in BOOLEAN /\ enabled' \in BOOLEAN
  BY DEF OpenResumed, TypeOK, ConnTypeOK
<1>5. ConnTypeOK'
  BY <1>3, <1>4 DEF ConnTypeOK
<1>6. AdaptersTypeOK'
  <2> DEFINE b == [backends[o.inst] EXCEPT !.guard = "free",
                                          !.scope = IF selected = None THEN {} ELSE @]
  <2>1. CASE Held(o.inst, "free")
    BY <2>1, HeldTyped DEF OpenResumed, Guard
  <2>2. CASE backends' = [backends EXCEPT ![o.inst] = b]
    <3>1. CASE o.inst \in Adapters
      <4>1. b \in Adapter
        BY <3>1, AdapterTyped DEF Adapter
      <4>2. disconnects' \subseteq Adapters
        BY DEF OpenResumed, TypeOK, AdaptersTypeOK
      <4>3. QED
        BY <2>2, <4>1, <4>2, AdapterUpdated
    <3>2. CASE o.inst \notin Adapters
      BY <2>2, <3>2, AdapterElsewhere, SameTyped DEF OpenResumed
    <3>3. QED
      BY <3>1, <3>2
  <2>3. OpenIsStale(o) => backends' = [backends EXCEPT ![o.inst] = b]
    <3>1. CASE o.inst \in Adapters
      BY <3>1, AdapterTyped DEF OpenResumed, Adapter
    <3>2. CASE o.inst \notin Adapters
      BY <3>2, AdapterElsewhere DEF OpenResumed, TypeOK, AdaptersTypeOK, Adapters
    <3>3. QED
      BY <3>1, <3>2
  <2>4. QED
    BY <2>1, <2>2, <2>3 DEF OpenResumed
<1>7. QED
  BY <1>1, <1>2, <1>3, <1>4, <1>5, <1>6, SameTyped DEF OpenResumed, TypeOK

(* An opening session found no stream: the generation is read ...          *)
LEMMA OpenStreamLostTyped ==
  ASSUME TypeOK, NEW o \in opens, OpenStreamLost(o)
  PROVE  TypeOK'
<1>1. opens' \subseteq OpenTask
  BY DEF OpenStreamLost, OpenTask, TypeOK, TasksTypeOK, ConnTypeOK
<1>2. TasksTypeOK'
  BY <1>1 DEF OpenStreamLost, TypeOK, TasksTypeOK
<1>3. QED
  BY <1>1, <1>2, SameTyped DEF OpenStreamLost, TypeOK

(* ... and a retry scheduled.                                              *)
LEMMA OpenRetryTyped ==
  ASSUME TypeOK, NEW o \in opens, OpenRetry(o)
  PROVE  TypeOK'
<1>1. o.gen \in Nat
  BY DEF OpenTask, TypeOK, TasksTypeOK
<1>2. ConnTypeOK'
  BY <1>1, ScheduleRetryTyped DEF OpenRetry
<1>3. TasksTypeOK'
  BY <1>1, ScheduleRetryTyped DEF OpenRetry, TypeOK, TasksTypeOK
<1>4. QED
  BY <1>1, <1>2, <1>3, SameTyped DEF OpenRetry, TypeOK

(* The scope is cleared for a chat that is still blank.                    *)
LEMMA ClearScopeTyped ==
  ASSUME TypeOK, NEW t \in scopes, ClearScope(t)
  PROVE  TypeOK'
<1>1. TasksTypeOK'
  BY DEF ClearScope, TypeOK, TasksTypeOK
<1>2. AdaptersTypeOK'
  BY ScopedTyped, SameTyped DEF ClearScope
<1>3. QED
  BY <1>1, <1>2, SameTyped DEF ClearScope, TypeOK

-----------------------------------------------------------------------------
(* Commands of connect.rs and sessions.rs.                                 *)

(* The user connects.                                                      *)
LEMMA CommandConnectTyped ==
  ASSUME TypeOK, CommandConnect
  PROVE  TypeOK'
<1>1. ConnTypeOK' /\ connects' \subseteq ConnectTask
  BY ConnectTyped DEF CommandConnect
<1>2. TasksTypeOK'
  BY <1>1 DEF CommandConnect, TypeOK, TasksTypeOK
<1>3. HistoryTypeOK'
  BY SpendTyped DEF CommandConnect, Class, TypeOK, HistoryTypeOK
<1>4. QED
  BY <1>1, <1>2, <1>3, SameTyped DEF CommandConnect, TypeOK

(* The user switches the backend off.                                      *)
LEMMA DisableBackendTyped ==
  ASSUME TypeOK, DisableBackend
  PROVE  TypeOK'
<1>1. /\ connection' \in Connection /\ retry_attempt' \in Nat
      /\ connect_generation' \in Nat /\ connection_epoch' \in Nat
  BY DEF DisableBackend, Connection, TypeOK, ConnTypeOK
<1>2. /\ transport_ready' \in BOOLEAN /\ gateway_connecting' \in BOOLEAN
      /\ reconnecting' \in BOOLEAN /\ enabled' \in BOOLEAN
  BY DEF DisableBackend, TypeOK, ConnTypeOK
<1>3. ConnTypeOK'
  BY <1>1, <1>2 DEF ConnTypeOK
<1>4. ViewTypeOK'
  BY DEF DisableBackend, AdvanceView, TypeOK, ViewTypeOK, SessionOrNone
<1>5. clarify' \in SessionOrNone
  BY DEF DisableBackend, SessionOrNone
<1>6. TurnTypeOK'
  BY <1>5 DEF DisableBackend, TypeOK, TurnTypeOK
<1>7. AdaptersTypeOK'
  BY CurrentTyped DEF DisableBackend, TypeOK, AdaptersTypeOK, Adapters
<1>8. TasksTypeOK'
  BY DEF DisableBackend, TypeOK, TasksTypeOK
<1>9. HistoryTypeOK'
  BY SpendTyped DEF DisableBackend, Class, TypeOK, HistoryTypeOK
<1>10. QED
  BY <1>1, <1>2, <1>3, <1>4, <1>5, <1>6, <1>7, <1>8, <1>9, SameTyped DEF DisableBackend,
     TypeOK

(* The user switches to another backend: a new adapter is the current one. *)
LEMMA SwitchBackendTyped ==
  ASSUME TypeOK, NEW k \in Kind, SwitchBackend(k)
  PROVE  TypeOK'
<1>1. /\ connection' \in Connection /\ retry_attempt' \in Nat
      /\ connect_generation' \in Nat /\ connection_epoch' \in Nat
  BY DEF SwitchBackend, Connection, TypeOK, ConnTypeOK
<1>2. /\ transport_ready' \in BOOLEAN /\ gateway_connecting' \in BOOLEAN
      /\ reconnecting' \in BOOLEAN /\ enabled' \in BOOLEAN
  BY DEF SwitchBackend, TypeOK, ConnTypeOK
<1>3. ConnTypeOK'
  BY <1>1, <1>2 DEF ConnTypeOK
<1>4. ViewTypeOK'
  BY DEF SwitchBackend, AdvanceView, TypeOK, ViewTypeOK, SessionOrNone
<1>5. clarify' \in SessionOrNone
  BY DEF SwitchBackend, SessionOrNone
<1>6. TurnTypeOK'
  BY <1>5, ReturnPendingTyped DEF SwitchBackend, TypeOK, TurnTypeOK
<1>7. AdaptersTypeOK'
  <2>1. NewAdapter(k) \in Adapter
    BY DEF NewAdapter, Adapter
  <2>2. /\ backends' \in Seq(Adapter) /\ Len(backends') = Len(backends) + 1
        /\ DOMAIN backends \subseteq DOMAIN backends'
    BY <2>1, AppendProperties DEF SwitchBackend, TypeOK, AdaptersTypeOK
  <2>3. QED
    BY <2>2, CurrentTyped DEF SwitchBackend, TypeOK, AdaptersTypeOK, Adapters
<1>8. window' \in WindowThread
  BY NoTextTyped DEF SwitchBackend, WindowIs, WindowThread
<1>9. TasksTypeOK'
  BY <1>8 DEF SwitchBackend, TypeOK, TasksTypeOK
<1>10. HistoryTypeOK'
  BY ReturnPendingTyped, SpendTyped DEF SwitchBackend, Class, TypeOK, HistoryTypeOK
<1>11. QED
  BY <1>1, <1>2, <1>3, <1>4, <1>5, <1>6, <1>7, <1>8, <1>9, <1>10, SameTyped DEF
     SwitchBackend, TypeOK

(* A switch ends in a connect.                                             *)
LEMMA WindowConnectsTyped ==
  ASSUME TypeOK, WindowConnects
  PROVE  TypeOK'
<1>1. ConnTypeOK' /\ connects' \subseteq ConnectTask
  BY ConnectTyped DEF WindowConnects
<1>2. window' \in WindowThread
  BY NoTextTyped DEF WindowConnects, WindowIs, WindowThread
<1>3. TasksTypeOK'
  BY <1>1, <1>2 DEF WindowConnects, TypeOK, TasksTypeOK
<1>4. QED
  BY <1>1, <1>2, <1>3, SameTyped DEF WindowConnects, TypeOK

(* The user changes the working directory of the managed server.           *)
LEMMA ApplyWorkspaceTyped ==
  ASSUME TypeOK, ApplyWorkspace
  PROVE  TypeOK'
<1>1. TasksTypeOK'
  BY DEF ApplyWorkspace, RestartTask, TypeOK, TasksTypeOK
<1>2. HistoryTypeOK'
  BY SpendTyped DEF ApplyWorkspace, Class, TypeOK, HistoryTypeOK
<1>3. QED
  BY <1>1, <1>2, SameTyped DEF ApplyWorkspace, TypeOK

(* The user opens a session.                                               *)
LEMMA OpenSessionTyped ==
  ASSUME TypeOK, NEW s \in Session, OpenSession(s)
  PROVE  TypeOK'
<1>1. ViewTypeOK' /\ TurnTypeOK' /\ opens' \subseteq OpenTask
  BY OpenTyped DEF OpenSession
<1>2. HistoryTypeOK'
  BY OpenTyped, SpendTyped DEF OpenSession, Class
<1>3. TasksTypeOK'
  BY <1>1 DEF OpenSession, TypeOK, TasksTypeOK
<1>4. QED
  BY <1>1, <1>2, <1>3, SameTyped DEF OpenSession, TypeOK

(* The user starts a new chat ...                                          *)
LEMMA NewChatTyped ==
  ASSUME TypeOK, NewChat
  PROVE  TypeOK'
<1>1. ViewTypeOK'
  BY DEF NewChat, AdvanceView, TypeOK, ViewTypeOK, SessionOrNone
<1>2. clarify' \in SessionOrNone
  BY DEF NewChat, SessionOrNone
<1>3. TurnTypeOK'
  BY <1>2, ReturnPendingTyped DEF NewChat, TypeOK, TurnTypeOK
<1>4. window' \in WindowThread
  BY NoTextTyped DEF NewChat, WindowIs, WindowThread
<1>5. TasksTypeOK'
  BY <1>4 DEF NewChat, TypeOK, TasksTypeOK
<1>6. HistoryTypeOK'
  BY ReturnPendingTyped, SpendTyped DEF NewChat, Class, TypeOK, HistoryTypeOK
<1>7. QED
  BY <1>1, <1>2, <1>3, <1>4, <1>5, <1>6, SameTyped DEF NewChat, TypeOK

(* ... and the scope of the old one is left to a task.                     *)
LEMMA WindowClearsScopeTyped ==
  ASSUME TypeOK, WindowClearsScope
  PROVE  TypeOK'
<1>1. window' \in WindowThread
  BY NoTextTyped DEF WindowClearsScope, WindowIs, WindowThread
<1>2. scopes' \subseteq ScopeTask
  BY CurrentTyped DEF WindowClearsScope, ClearScopeIfBlank, ScopeTask, TypeOK,
     TasksTypeOK, ViewTypeOK
<1>3. TasksTypeOK'
  BY <1>1, <1>2 DEF WindowClearsScope, TypeOK, TasksTypeOK
<1>4. QED
  BY <1>1, <1>2, <1>3, SameTyped DEF WindowClearsScope, TypeOK

(* A list request fails.                                                   *)
LEMMA ListFailsTyped ==
  ASSUME TypeOK, ListFails
  PROVE  TypeOK'
<1>1. /\ connection' \in Connection /\ retry_attempt' \in Nat
      /\ connect_generation' \in Nat /\ connection_epoch' \in Nat
  BY DEF ListFails, Connection, TypeOK, ConnTypeOK
<1>2. /\ transport_ready' \in BOOLEAN /\ gateway_connecting' \in BOOLEAN
      /\ reconnecting' \in BOOLEAN /\ enabled' \in BOOLEAN
  BY DEF ListFails, TypeOK, ConnTypeOK
<1>3. ConnTypeOK'
  BY <1>1, <1>2 DEF ConnTypeOK
<1>4. HistoryTypeOK'
  BY SpendTyped DEF ListFails, Class, TypeOK, HistoryTypeOK
<1>5. TasksTypeOK'
  BY DEF ListFails, TypeOK, TasksTypeOK
<1>6. QED
  BY <1>1, <1>2, <1>3, <1>4, <1>5, SameTyped DEF ListFails, TypeOK

-----------------------------------------------------------------------------
(* deliver().                                                              *)

(* A delivery looks whether it must start a connect ...                    *)
LEMMA DeliverChecksTyped ==
  ASSUME TypeOK, NEW d \in delivers, DeliverChecks(d)
  PROVE  TypeOK'
<1>1. delivers' \subseteq DeliverTask
  BY DeliverUpdated DEF DeliverChecks, DeliverIs, TypeOK, TasksTypeOK
<1>2. TasksTypeOK'
  BY <1>1 DEF DeliverChecks, TypeOK, TasksTypeOK
<1>3. QED
  BY <1>1, <1>2, SameTyped DEF DeliverChecks, TypeOK

(* ... and starts it.                                                      *)
LEMMA DeliverConnectsTyped ==
  ASSUME TypeOK, NEW d \in delivers, DeliverConnects(d)
  PROVE  TypeOK'
<1>1. delivers' \subseteq DeliverTask
  BY DeliverUpdated DEF DeliverConnects, DeliverIs, TypeOK, TasksTypeOK
<1>2. ConnTypeOK' /\ connects' \subseteq ConnectTask
  BY ConnectTyped DEF DeliverConnects
<1>3. TasksTypeOK'
  BY <1>1, <1>2 DEF DeliverConnects, TypeOK, TasksTypeOK
<1>4. QED
  BY <1>1, <1>2, <1>3, SameTyped DEF DeliverConnects, TypeOK

(* The wait for the connection ends, one way or another.                   *)
LEMMA DeliverWaitsTyped ==
  ASSUME TypeOK, NEW d \in delivers, DeliverWaits(d)
  PROVE  TypeOK'
<1>1. delivers' \subseteq DeliverTask
  BY DeliverUpdated DEF DeliverWaits, DeliverIs, TypeOK, TasksTypeOK
<1>2. TasksTypeOK'
  BY <1>1 DEF DeliverWaits, TypeOK, TasksTypeOK
<1>3. QED
  BY <1>1, <1>2, SameTyped DEF DeliverWaits, TypeOK

(* A delivery reads which adapter to use ...                               *)
LEMMA DeliverReadsBackendTyped ==
  ASSUME TypeOK, NEW d \in delivers, DeliverReadsBackend(d)
  PROVE  TypeOK'
<1>1. Current \in Nat
  BY CurrentTyped
<1>2. delivers' \subseteq DeliverTask
  BY <1>1, DeliverUpdated DEF DeliverReadsBackend, TypeOK, TasksTypeOK
<1>3. TasksTypeOK'
  BY <1>2 DEF DeliverReadsBackend, TypeOK, TasksTypeOK
<1>4. QED
  BY <1>1, <1>2, <1>3, SameTyped DEF DeliverReadsBackend, TypeOK

(* ... and takes its lock.                                                 *)
LEMMA DeliverLocksTyped ==
  ASSUME TypeOK, NEW d \in delivers, DeliverLocks(d)
  PROVE  TypeOK'
<1>1. delivers' \subseteq DeliverTask
  BY DeliverUpdated DEF DeliverLocks, DeliverIs, TypeOK, TasksTypeOK
<1>2. TasksTypeOK'
  BY <1>1 DEF DeliverLocks, TypeOK, TasksTypeOK
<1>3. AdaptersTypeOK'
  BY HeldTyped DEF DeliverLocks, Guard
<1>4. QED
  BY <1>1, <1>2, <1>3, SameTyped DEF DeliverLocks, TypeOK

(* A delivery decides for the live session, the stored one or a new one.   *)
LEMMA DeliverAimsTyped ==
  ASSUME TypeOK, NEW d \in delivers, DeliverAims(d)
  PROVE  TypeOK'
<1>1. delivers' \subseteq DeliverTask
  <2>1. /\ live # None => live \in Session
        /\ stored # None => stored \in Session
    BY DEF TypeOK, ViewTypeOK, SessionOrNone
  <2>2. CASE DeliverIs(d, "back") \/ DeliverIs(d, "create")
    BY <2>2, DeliverUpdated DEF DeliverIs, TypeOK, TasksTypeOK
  <2>3. CASE /\ live # None
             /\ delivers' = (delivers \ {d}) \cup {[d EXCEPT !.pc = "submit", !.target = live]}
    BY <2>1, <2>3, DeliverUpdated DEF TypeOK, TasksTypeOK
  <2>4. CASE /\ stored # None
             /\ delivers' = (delivers \ {d}) \cup {[d EXCEPT !.pc = "resume", !.target = stored]}
    BY <2>1, <2>4, DeliverUpdated DEF TypeOK, TasksTypeOK
  <2>5. QED
    BY <2>2, <2>3, <2>4 DEF DeliverAims
<1>2. TasksTypeOK'
  BY <1>1 DEF DeliverAims, TypeOK, TasksTypeOK
<1>3. AdaptersTypeOK'
  <2> DEFINE b == [backends[d.inst] EXCEPT !.guard = "held", !.scope = {}]
  <2>1. CASE Held(d.inst, "free") \/ Held(d.inst, "held")
    BY <2>1, HeldTyped DEF DeliverAims, Guard
  <2>2. CASE backends' = [backends EXCEPT ![d.inst].guard = "held", ![d.inst].scope = {}]
    <3>1. CASE d.inst \in Adapters
      <4>1. backends' = [backends EXCEPT ![d.inst] = b]
        BY <2>2, <3>1, AdapterTyped DEF Adapter
      <4>2. b \in Adapter
        BY <3>1, AdapterTyped DEF Adapter
      <4>3. disconnects' \subseteq Adapters
        BY DEF DeliverAims, TypeOK, AdaptersTypeOK
      <4>4. QED
        BY <4>1, <4>2, <4>3, AdapterUpdated
    <3>2. CASE d.inst \notin Adapters
      <4>1. backends' = backends
        BY <2>2, <3>2 DEF TypeOK, AdaptersTypeOK, Adapters
      <4>2. QED
        BY <4>1, SameTyped DEF DeliverAims
    <3>3. QED
      BY <3>1, <3>2
  <2>3. QED
    BY <2>1, <2>2 DEF DeliverAims
<1>4. QED
  BY <1>1, <1>2, <1>3, SameTyped DEF DeliverAims, TypeOK

(* The stored session is resumed, or the request fails.                    *)
LEMMA DeliverResumesTyped ==
  ASSUME TypeOK, NEW d \in delivers, DeliverResumes(d)
  PROVE  TypeOK'
<1>1. d.pc = "resume" => d.target \in Session
  BY DeliverTarget
<1>2. d.pc = "resume"
  BY DEF DeliverResumes
<1>3. delivers' \subseteq DeliverTask
  BY <1>1, <1>2, DeliverUpdated DEF DeliverResumes, DeliverIs, TypeOK, TasksTypeOK
<1>4. TasksTypeOK'
  BY <1>3 DEF DeliverResumes, TypeOK, TasksTypeOK
<1>5. HistoryTypeOK'
  BY SpendTyped DEF DeliverResumes, RequestFails, Class, TypeOK, HistoryTypeOK
<1>6. AdaptersTypeOK'
  BY <1>1, <1>2, HeldTyped, ScopedTyped DEF DeliverResumes, Guard
<1>7. QED
  BY <1>1, <1>2, <1>3, <1>4, <1>5, <1>6, SameTyped DEF DeliverResumes, TypeOK

(* A session is created, or the request fails.                             *)
LEMMA DeliverCreatesTyped ==
  ASSUME TypeOK, NEW d \in delivers, DeliverCreates(d)
  PROVE  TypeOK'
<1>1. delivers' \subseteq DeliverTask
  <2>1. CASE DeliverIs(d, "back")
    BY <2>1, DeliverUpdated DEF DeliverIs, TypeOK, TasksTypeOK
  <2>2. ASSUME NEW s \in Session,
               delivers' = (delivers \ {d}) \cup {[d EXCEPT !.pc = "created", !.target = s]}
        PROVE  delivers' \subseteq DeliverTask
    BY <2>2, DeliverUpdated DEF TypeOK, TasksTypeOK
  <2>3. QED
    BY <2>1, <2>2 DEF DeliverCreates
<1>2. TasksTypeOK'
  BY <1>1 DEF DeliverCreates, TypeOK, TasksTypeOK
<1>3. d.view \in Nat
  BY DEF DeliverTask, TypeOK, TasksTypeOK
<1>4. created' \subseteq [session : Session, view : Nat]
  <2>1. \A s \in Session : [session |-> s, view |-> d.view] \in [session : Session, view : Nat]
    BY <1>3
  <2>2. QED
    BY <2>1 DEF DeliverCreates, TypeOK, HistoryTypeOK
<1>5. HistoryTypeOK'
  BY <1>4, SpendTyped DEF DeliverCreates, RequestFails, Class, TypeOK, HistoryTypeOK
<1>6. \A s \in Session : {s} \in SUBSET Session
  OBVIOUS
<1>7. AdaptersTypeOK'
  BY <1>6, HeldTyped, ScopedTyped DEF DeliverCreates, Guard
<1>8. QED
  BY <1>1, <1>2, <1>3, <1>4, <1>5, <1>6, <1>7, SameTyped DEF DeliverCreates, TypeOK

(* The session is taken over by the view the prompt was sent from.         *)
LEMMA DeliverAttachesTyped ==
  ASSUME TypeOK, NEW d \in delivers, DeliverAttaches(d)
  PROVE  TypeOK'
<1>1. d.target \in Session
  BY DeliverTarget DEF DeliverAttaches
<1>2. delivers' \subseteq DeliverTask
  BY <1>1, DeliverUpdated DEF DeliverAttaches, DeliverIs, TypeOK, TasksTypeOK
<1>3. TasksTypeOK'
  BY <1>2 DEF DeliverAttaches, TypeOK, TasksTypeOK
<1>4. ViewTypeOK'
  BY <1>1 DEF DeliverAttaches, SessionOrNone, TypeOK, ViewTypeOK
<1>5. AdaptersTypeOK'
  BY HeldTyped, SameTyped DEF DeliverAttaches, Guard
<1>6. QED
  BY <1>1, <1>2, <1>3, <1>4, <1>5, SameTyped DEF DeliverAttaches, TypeOK

(* The prompt is submitted, or the request fails.                          *)
LEMMA DeliverSubmitsTyped ==
  ASSUME TypeOK, NEW d \in delivers, DeliverSubmits(d)
  PROVE  TypeOK'
<1>1. delivers' \subseteq DeliverTask
  BY DeliverUpdated DEF DeliverSubmits, DeliverIs, TypeOK, TasksTypeOK
<1>2. TasksTypeOK'
  BY <1>1 DEF DeliverSubmits, TypeOK, TasksTypeOK
<1>3. AdaptersTypeOK'
  BY HeldTyped DEF DeliverSubmits, Guard
<1>4. d.text.id \in Nat
  BY DEF Text, DeliverTask, TypeOK, TasksTypeOK
<1>5. [text |-> d.text, home |-> d.home, view |-> d.view, session |-> d.target]
        \in [text : Text, home : SessionOrNone, view : Nat, session : Session]
  BY DeliverTarget DEF DeliverSubmits, DeliverTask, TypeOK, TasksTypeOK
<1>6. HistoryTypeOK'
  BY <1>4, <1>5, SpendTyped DEF DeliverSubmits, RequestFails, Settle, Class, TypeOK,
     HistoryTypeOK
<1>7. QED
  BY <1>1, <1>2, <1>3, <1>4, <1>5, <1>6, SameTyped DEF DeliverSubmits, TypeOK

(* An undelivered prompt goes back to the composer.                        *)
LEMMA DeliverTakesBackTyped ==
  ASSUME TypeOK, NEW d \in delivers, DeliverTakesBack(d)
  PROVE  TypeOK'
<1>1. delivers' \subseteq DeliverTask
  BY DeliverUpdated DEF DeliverTakesBack, TypeOK, TasksTypeOK
<1>2. TasksTypeOK'
  BY <1>1 DEF DeliverTakesBack, TypeOK, TasksTypeOK
<1>3. d.text.id \in Nat
  BY DEF Text, DeliverTask, TypeOK, TasksTypeOK
<1>4. HistoryTypeOK'
  BY <1>3 DEF DeliverTakesBack, Restore, Settle, TypeOK, HistoryTypeOK
<1>5. TurnTypeOK'
  BY DEF DeliverTakesBack, TypeOK, TurnTypeOK
<1>6. QED
  BY <1>1, <1>2, <1>3, <1>4, <1>5, SameTyped DEF DeliverTakesBack, TypeOK

-----------------------------------------------------------------------------
(* Commands of send.rs and what follows them.                              *)

(* The user submits a text: an answer, a turn or a prompt for the queue.   *)
LEMMA SubmitTyped ==
  ASSUME TypeOK, Submit
  PROVE  TypeOK'
<1>1. [id |-> typed + 1, home |-> stored] \in Text /\ typed' \in Nat
  BY DEF Submit, Text, TypeOK, HistoryTypeOK, ViewTypeOK
<1>2. window' \in WindowThread
  BY <1>1 DEF Submit, WindowIs, WindowThread, TypeOK, TasksTypeOK
<1>3. queue' \in Seq(Text)
  BY <1>1, AppendProperties DEF Submit, TypeOK, TurnTypeOK
<1>4. TurnTypeOK'
  BY <1>3 DEF Submit, TypeOK, TurnTypeOK
<1>5. TasksTypeOK'
  BY <1>2 DEF Submit, TypeOK, TasksTypeOK
<1>6. HistoryTypeOK'
  BY <1>1, SpendTyped DEF Submit, Class, TypeOK, HistoryTypeOK
<1>7. QED
  BY <1>1, <1>2, <1>3, <1>4, <1>5, <1>6, SameTyped DEF Submit, TypeOK

(* The submitted text starts a turn.                                       *)
LEMMA WindowSendsTyped ==
  ASSUME TypeOK, WindowSends
  PROVE  TypeOK'
<1>1. window.text \in Text
  BY DEF WindowThread, TypeOK, TasksTypeOK
<1>2. window' \in WindowThread
  BY NoTextTyped DEF WindowSends, WindowIs, WindowThread
<1>3. TurnTypeOK' /\ delivers' \subseteq DeliverTask
  BY <1>1, SendTyped DEF WindowSends
<1>4. TasksTypeOK'
  BY <1>2, <1>3 DEF WindowSends, TypeOK, TasksTypeOK
<1>5. QED
  BY <1>1, <1>2, <1>3, <1>4, SameTyped DEF WindowSends, TypeOK

(* The submitted text answers the question, if it is still there.          *)
LEMMA WindowAnswersTyped ==
  ASSUME TypeOK, WindowAnswers
  PROVE  TypeOK'
<1>1. window.text \in Text
  BY DEF WindowThread, TypeOK, TasksTypeOK
<1>2. window' \in WindowThread
  BY NoTextTyped DEF WindowAnswers, WindowIs, WindowThread
<1>3. answers' \subseteq AnswerTask
  BY <1>1, CurrentTyped DEF WindowAnswers, AnswerTask, TypeOK, TasksTypeOK
<1>4. turn_seq' \in Nat /\ clarify' \in SessionOrNone
  BY DEF WindowAnswers, SessionOrNone, TypeOK, TurnTypeOK
<1>5. TurnTypeOK'
  BY <1>4 DEF WindowAnswers, TypeOK, TurnTypeOK
<1>6. TasksTypeOK'
  BY <1>2, <1>3 DEF WindowAnswers, TypeOK, TasksTypeOK
<1>7. QED
  BY <1>1, <1>2, <1>3, <1>4, <1>5, <1>6, SameTyped DEF WindowAnswers, TypeOK

(* The answer is given, or the request fails.                              *)
LEMMA AnswerEndsTyped ==
  ASSUME TypeOK, NEW a \in answers, AnswerEnds(a)
  PROVE  TypeOK'
<1>1. TasksTypeOK'
  BY DEF AnswerEnds, TypeOK, TasksTypeOK
<1>2. a.text.id \in Nat
  BY DEF AnswerTask, Text, TypeOK, TasksTypeOK
<1>3. TurnTypeOK'
  BY DEF AnswerEnds, TypeOK, TurnTypeOK
<1>4. HistoryTypeOK'
  BY <1>2, SpendTyped DEF AnswerEnds, Settle, RequestFails, Class, TypeOK, HistoryTypeOK
<1>5. QED
  BY <1>1, <1>2, <1>3, <1>4, SameTyped DEF AnswerEnds, TypeOK

(* The user dismisses the question.                                        *)
LEMMA DismissClarifyTyped ==
  ASSUME TypeOK, DismissClarify
  PROVE  TypeOK'
<1>1. clarify' \in SessionOrNone
  BY DEF DismissClarify, SessionOrNone
<1>2. TurnTypeOK'
  BY <1>1 DEF DismissClarify, TypeOK, TurnTypeOK
<1>3. HistoryTypeOK'
  BY SpendTyped DEF DismissClarify, Class, TypeOK, HistoryTypeOK
<1>4. TasksTypeOK'
  BY DEF DismissClarify, TypeOK, TasksTypeOK
<1>5. QED
  BY <1>1, <1>2, <1>3, <1>4, SameTyped DEF DismissClarify, TypeOK

(* The user stops the turn.                                                *)
LEMMA CommandStopTyped ==
  ASSUME TypeOK, CommandStop
  PROVE  TypeOK'
<1>1. stopping' \in BOOLEAN /\ stops' \subseteq StopTask
  BY StopTyped DEF CommandStop
<1>2. TurnTypeOK'
  BY <1>1 DEF CommandStop, TypeOK, TurnTypeOK
<1>3. TasksTypeOK'
  BY <1>1 DEF CommandStop, TypeOK, TasksTypeOK
<1>4. HistoryTypeOK'
  BY SpendTyped DEF CommandStop, Class, TypeOK, HistoryTypeOK
<1>5. QED
  BY <1>1, <1>2, <1>3, <1>4, SameTyped DEF CommandStop, TypeOK

(* The backend is told, or the request fails.                              *)
LEMMA StopInterruptsTyped ==
  ASSUME TypeOK, NEW t \in stops, StopInterrupts(t)
  PROVE  TypeOK'
<1>1. TasksTypeOK'
  BY DEF StopInterrupts, StopTask, TypeOK, TasksTypeOK
<1>2. TurnTypeOK'
  BY DEF StopInterrupts, TypeOK, TurnTypeOK
<1>3. HistoryTypeOK'
  BY SpendTyped DEF StopInterrupts, RequestFails, Class, TypeOK, HistoryTypeOK
<1>4. QED
  BY <1>1, <1>2, <1>3, SameTyped DEF StopInterrupts, TypeOK

(* The grace period of a stop ends.                                        *)
LEMMA StopGraceEndsTyped ==
  ASSUME TypeOK, NEW t \in stops, StopGraceEnds(t)
  PROVE  TypeOK'
<1>1. TasksTypeOK'
  BY DEF StopGraceEnds, StopTask, TypeOK, TasksTypeOK
<1>2. TurnTypeOK'
  BY DEF StopGraceEnds, TypeOK, TurnTypeOK
<1>3. QED
  BY <1>1, <1>2, SameTyped DEF StopGraceEnds, TypeOK

(* The stopped turn's end takes the next prompt out of the queue ...       *)
LEMMA StopAfterTurnTyped ==
  ASSUME TypeOK, NEW t \in stops, StopAfterTurn(t)
  PROVE  TypeOK'
<1>1. NextQueued \in Text /\ TurnTypeOK'
  BY AfterTurnTyped DEF StopAfterTurn
<1>2. stops' \subseteq StopTask
  BY <1>1 DEF StopAfterTurn, StopTask, TypeOK, TasksTypeOK
<1>3. TasksTypeOK'
  BY <1>2 DEF StopAfterTurn, TypeOK, TasksTypeOK
<1>4. QED
  BY <1>1, <1>2, <1>3, SameTyped DEF StopAfterTurn, TypeOK

(* ... and sends it.                                                       *)
LEMMA StopSendsTyped ==
  ASSUME TypeOK, NEW t \in stops, StopSends(t)
  PROVE  TypeOK'
<1>1. t.text \in Text
  BY DEF StopTask, TypeOK, TasksTypeOK
<1>2. TurnTypeOK' /\ delivers' \subseteq DeliverTask
  BY <1>1, SendTyped DEF StopSends
<1>3. TasksTypeOK'
  BY <1>2 DEF StopSends, TypeOK, TasksTypeOK
<1>4. QED
  BY <1>1, <1>2, <1>3, SameTyped DEF StopSends, TypeOK

(* The user moves a queued prompt to the front.                            *)
LEMMA SendQueuedNowTyped ==
  ASSUME TypeOK, NEW n \in DOMAIN queue, SendQueuedNow(n)
  PROVE  TypeOK'
<1>1. queue' \in Seq(Text)
  <2>1. <<queue[n]>> \in Seq(Text)
    BY WithoutTyped
  <2>2. QED
    BY <2>1, WithoutTyped, ConcatProperties DEF SendQueuedNow
<1>2. TurnTypeOK'
  BY <1>1 DEF SendQueuedNow, TypeOK, TurnTypeOK
<1>3. window' \in WindowThread
  BY NoTextTyped DEF SendQueuedNow, WindowIs, WindowThread
<1>4. TasksTypeOK'
  BY <1>3 DEF SendQueuedNow, TypeOK, TasksTypeOK
<1>5. HistoryTypeOK'
  BY SpendTyped DEF SendQueuedNow, Class, TypeOK, HistoryTypeOK
<1>6. QED
  BY <1>1, <1>2, <1>3, <1>4, <1>5, SameTyped DEF SendQueuedNow, TypeOK

(* Sending a queued prompt now stops the turn that runs.                   *)
LEMMA WindowStopsTyped ==
  ASSUME TypeOK, WindowStops
  PROVE  TypeOK'
<1>1. stopping' \in BOOLEAN /\ stops' \subseteq StopTask
  BY StopTyped DEF WindowStops, TypeOK, TurnTypeOK, TasksTypeOK
<1>2. window' \in WindowThread
  BY NoTextTyped DEF WindowStops, WindowIs, WindowThread
<1>3. TurnTypeOK'
  BY <1>1 DEF WindowStops, TypeOK, TurnTypeOK
<1>4. TasksTypeOK'
  BY <1>1, <1>2 DEF WindowStops, TypeOK, TasksTypeOK
<1>5. QED
  BY <1>1, <1>2, <1>3, <1>4, SameTyped DEF WindowStops, TypeOK

(* Sending a queued prompt now runs the end of a turn.                     *)
LEMMA WindowAfterTurnTyped ==
  ASSUME TypeOK, WindowAfterTurn
  PROVE  TypeOK'
<1>1. NextQueued \in Text /\ TurnTypeOK'
  BY AfterTurnTyped DEF WindowAfterTurn
<1>2. window' \in WindowThread
  BY <1>1, NoTextTyped DEF WindowAfterTurn, WindowIs, WindowThread
<1>3. TasksTypeOK'
  BY <1>2 DEF WindowAfterTurn, TypeOK, TasksTypeOK
<1>4. QED
  BY <1>1, <1>2, <1>3, SameTyped DEF WindowAfterTurn, TypeOK

(* The user edits or cancels a queued prompt.                              *)
LEMMA UnqueueTyped ==
  ASSUME TypeOK, NEW n \in DOMAIN queue, Unqueue(n)
  PROVE  TypeOK'
<1>1. queue' \in Seq(Text) /\ queue[n].id \in Nat
  BY WithoutTyped DEF Unqueue, Text
<1>2. TurnTypeOK'
  BY <1>1 DEF Unqueue, TypeOK, TurnTypeOK
<1>3. TasksTypeOK'
  BY DEF Unqueue, TypeOK, TasksTypeOK
<1>4. settled' \subseteq Nat \X {"composer", "cancelled", "sent", "answered"}
  <2>1. ASSUME NEW where \in {"composer", "cancelled"}, Settle({queue[n].id}, where)
        PROVE  settled' \subseteq Nat \X {"composer", "cancelled", "sent", "answered"}
    BY <1>1, <2>1 DEF Settle, TypeOK, HistoryTypeOK
  <2>2. QED
    BY <2>1 DEF Unqueue
<1>5. HistoryTypeOK'
  BY <1>4, SpendTyped DEF Unqueue, Class, TypeOK, HistoryTypeOK
<1>6. QED
  BY <1>1, <1>2, <1>3, <1>4, <1>5, SameTyped DEF Unqueue, TypeOK

-----------------------------------------------------------------------------
(* The streams and the pump.                                               *)

(* A stream is open.                                                       *)
LEMMA StreamConnectsTyped ==
  ASSUME TypeOK, NEW i \in Adapters, StreamConnects(i)
  PROVE  TypeOK'
<1>1. backends[i] \in Adapter
  BY AdapterTyped
<1>2. Plain("Connected") \in Event
  BY PlainTyped
<1>3. pumps' \subseteq Pump
  BY <1>2, EmitTyped DEF StreamConnects, Reports
<1>4. [backends[i] EXCEPT !.up = TRUE] \in Adapter
  BY <1>1 DEF Adapter
<1>5. AdaptersTypeOK'
  <2>1. disconnects' \subseteq Adapters
    BY DEF StreamConnects, Reports, TypeOK, AdaptersTypeOK
  <2>2. QED
    BY <2>1, <1>1, <1>4, AdapterUpdated DEF StreamConnects, Reports
<1>6. TasksTypeOK'
  BY <1>3 DEF StreamConnects, Reports, TypeOK, TasksTypeOK
<1>7. HistoryTypeOK'
  BY SpendTyped DEF StreamConnects, Reports, Class, TypeOK, HistoryTypeOK
<1>8. QED
  BY <1>1, <1>2, <1>3, <1>4, <1>5, <1>6, <1>7, SameTyped DEF StreamConnects, TypeOK,
     Reports

(* A stream is refused.                                                    *)
LEMMA StreamFailsTyped ==
  ASSUME TypeOK, NEW i \in Adapters, StreamFails(i)
  PROVE  TypeOK'
<1>1. backends[i] \in Adapter
  BY AdapterTyped
<1>2. Plain("Failed") \in Event
  BY PlainTyped
<1>3. pumps' \subseteq Pump
  BY <1>2, EmitTyped DEF StreamFails, Reports
<1>4. [backends[i] EXCEPT !.stream = 0] \in Adapter
  BY <1>1 DEF Adapter
<1>5. AdaptersTypeOK'
  <2>1. disconnects' \subseteq Adapters
    BY DEF StreamFails, Reports, TypeOK, AdaptersTypeOK
  <2>2. QED
    BY <2>1, <1>1, <1>4, AdapterUpdated DEF StreamFails, Reports
<1>6. TasksTypeOK'
  BY <1>3 DEF StreamFails, Reports, TypeOK, TasksTypeOK
<1>7. HistoryTypeOK'
  BY SpendTyped DEF StreamFails, Reports, Class, TypeOK, HistoryTypeOK
<1>8. QED
  BY <1>1, <1>2, <1>3, <1>4, <1>5, <1>6, <1>7, SameTyped DEF StreamFails, TypeOK, Reports

(* A stream closes or breaks.                                              *)
LEMMA StreamDropsTyped ==
  ASSUME TypeOK, NEW i \in Adapters, StreamDrops(i)
  PROVE  TypeOK'
<1>1. backends[i] \in Adapter
  BY AdapterTyped
<1>2. [backends[i] EXCEPT !.stream = 0, !.up = FALSE] \in Adapter
  BY <1>1 DEF Adapter
<1>3. disconnects' \subseteq Adapters
  BY DEF StreamDrops, Reports, TypeOK, AdaptersTypeOK
<1>4. pumps' \subseteq Pump /\ AdaptersTypeOK'
  BY <1>2, <1>3, PlainTyped, EmitTyped, AdapterUpdated DEF StreamDrops, Reports
<1>5. TasksTypeOK'
  BY <1>4 DEF StreamDrops, Reports, TypeOK, TasksTypeOK
<1>6. HistoryTypeOK'
  BY SpendTyped DEF StreamDrops, Reports, Class, TypeOK, HistoryTypeOK
<1>7. QED
  BY <1>1, <1>2, <1>3, <1>4, <1>5, <1>6, SameTyped DEF StreamDrops, TypeOK, Reports

(* A stream delivers turn traffic of a session in its scope.               *)
LEMMA StreamFrameTyped ==
  ASSUME TypeOK, NEW i \in Adapters, NEW s \in Session, NEW k \in {"Delta", "Complete", "TurnFailed"},
         StreamFrame(i, s, k)
  PROVE  TypeOK'
<1>1. backends[i] \in Adapter
  BY AdapterTyped
<1>2. [kind |-> k, session |-> s] \in Event
  BY DEF Event
<1>3. pumps' \subseteq Pump
  BY <1>2, EmitTyped DEF StreamFrame, Reports
<1>4. AdaptersTypeOK'
  <2>1. disconnects' \subseteq Adapters
    BY DEF StreamFrame, Reports, TypeOK, AdaptersTypeOK
  <2>2. QED
    BY <2>1, <1>1, AdapterUpdated DEF StreamFrame, Reports
<1>5. TasksTypeOK'
  BY <1>3 DEF StreamFrame, Reports, TypeOK, TasksTypeOK
<1>6. HistoryTypeOK'
  BY SpendTyped DEF StreamFrame, Reports, Class, TypeOK, HistoryTypeOK
<1>7. QED
  BY <1>1, <1>2, <1>3, <1>4, <1>5, <1>6, SameTyped DEF StreamFrame, TypeOK, Reports

(* A stream delivers a question.                                           *)
LEMMA StreamQuestionTyped ==
  ASSUME TypeOK, NEW i \in Adapters, NEW s \in Session, StreamQuestion(i, s)
  PROVE  TypeOK'
<1>1. backends[i] \in Adapter
  BY AdapterTyped
<1>2. [kind |-> "Clarify", session |-> s] \in Event
  BY DEF Event
<1>3. pumps' \subseteq Pump
  BY <1>2, EmitTyped DEF StreamQuestion, Reports
<1>4. AdaptersTypeOK'
  <2>1. disconnects' \subseteq Adapters
    BY DEF StreamQuestion, Reports, TypeOK, AdaptersTypeOK
  <2>2. QED
    BY <2>1, <1>1, AdapterUpdated DEF StreamQuestion, Reports
<1>5. TasksTypeOK'
  BY <1>3 DEF StreamQuestion, Reports, TypeOK, TasksTypeOK
<1>6. HistoryTypeOK'
  BY SpendTyped DEF StreamQuestion, Reports, Class, TypeOK, HistoryTypeOK
<1>7. QED
  BY <1>1, <1>2, <1>3, <1>4, <1>5, <1>6, SameTyped DEF StreamQuestion, TypeOK, Reports

(* A stream announces a session, and widens its scope.                     *)
LEMMA StreamSessionInfoTyped ==
  ASSUME TypeOK, NEW i \in Adapters, NEW s \in Session, StreamSessionInfo(i, s)
  PROVE  TypeOK'
<1>1. backends[i] \in Adapter
  BY AdapterTyped
<1>2. [kind |-> "SessionInfo", session |-> s] \in Event
  BY DEF Event
<1>3. pumps' \subseteq Pump
  BY <1>2, EmitTyped DEF StreamSessionInfo, Reports
<1>4. [backends[i] EXCEPT !.scope = @ \cup {s}] \in Adapter
  BY <1>1 DEF Adapter
<1>5. AdaptersTypeOK'
  <2>1. disconnects' \subseteq Adapters
    BY DEF StreamSessionInfo, Reports, TypeOK, AdaptersTypeOK
  <2>2. QED
    BY <2>1, <1>1, <1>4, AdapterUpdated DEF StreamSessionInfo, Reports
<1>6. TasksTypeOK'
  BY <1>3 DEF StreamSessionInfo, Reports, TypeOK, TasksTypeOK
<1>7. HistoryTypeOK'
  BY SpendTyped DEF StreamSessionInfo, Reports, Class, TypeOK, HistoryTypeOK
<1>8. QED
  BY <1>1, <1>2, <1>3, <1>4, <1>5, <1>6, <1>7, SameTyped DEF StreamSessionInfo, TypeOK,
     Reports

(* A pump drops an event of a replaced stream, or one that is held off.    *)
LEMMA DropsEventTyped ==
  ASSUME TypeOK, NEW p \in pumps, DropsEvent(p)
  PROVE  TypeOK'
<1>1. pumps' \subseteq Pump /\ Head(p.events) \in Event
  BY HandledTyped DEF DropsEvent
<1>2. TasksTypeOK'
  BY <1>1 DEF DropsEvent, TypeOK, TasksTypeOK
<1>3. QED
  BY <1>1, <1>2, SameTyped DEF DropsEvent, TypeOK

(* A pump handles Connected.                                               *)
LEMMA HandleConnectedTyped ==
  ASSUME TypeOK, NEW p \in pumps, HandleConnected(p)
  PROVE  TypeOK'
<1>1. /\ connection' \in Connection /\ retry_attempt' \in Nat
      /\ connect_generation' \in Nat /\ connection_epoch' \in Nat
  BY DEF HandleConnected, Connection, TypeOK, ConnTypeOK
<1>2. /\ transport_ready' \in BOOLEAN /\ gateway_connecting' \in BOOLEAN
      /\ reconnecting' \in BOOLEAN /\ enabled' \in BOOLEAN
  BY DEF HandleConnected, TypeOK, ConnTypeOK
<1>3. ConnTypeOK'
  BY <1>1, <1>2 DEF ConnTypeOK
<1>4. pumps' \subseteq Pump /\ Head(p.events) \in Event
  BY HandledTyped DEF HandleConnected, Ready
<1>5. TasksTypeOK'
  BY <1>4 DEF HandleConnected, TypeOK, TasksTypeOK
<1>6. QED
  BY <1>1, <1>2, <1>3, <1>4, <1>5, SameTyped DEF HandleConnected, TypeOK

(* A pump handles SessionInfo.                                             *)
LEMMA HandleSessionInfoTyped ==
  ASSUME TypeOK, NEW p \in pumps, HandleSessionInfo(p)
  PROVE  TypeOK'
<1>1. /\ connection' \in Connection /\ retry_attempt' \in Nat
      /\ connect_generation' \in Nat /\ connection_epoch' \in Nat
  BY DEF HandleSessionInfo, Connection, TypeOK, ConnTypeOK
<1>2. /\ transport_ready' \in BOOLEAN /\ gateway_connecting' \in BOOLEAN
      /\ reconnecting' \in BOOLEAN /\ enabled' \in BOOLEAN
  BY DEF HandleSessionInfo, TypeOK, ConnTypeOK
<1>3. ConnTypeOK'
  BY <1>1, <1>2 DEF ConnTypeOK
<1>4. pumps' \subseteq Pump /\ Head(p.events) \in Event
  BY HandledTyped DEF HandleSessionInfo, Ready
<1>5. TasksTypeOK'
  BY <1>4 DEF HandleSessionInfo, TypeOK, TasksTypeOK
<1>6. Head(p.events).session \in SessionOrNone
  BY <1>4 DEF Event, SessionOrNone
<1>7. ViewTypeOK'
  BY <1>6 DEF HandleSessionInfo, TypeOK, ViewTypeOK
<1>8. QED
  BY <1>1, <1>2, <1>3, <1>4, <1>5, <1>6, <1>7, SameTyped DEF HandleSessionInfo, TypeOK

(* A pump handles a question.                                              *)
LEMMA HandleClarifyTyped ==
  ASSUME TypeOK, NEW p \in pumps, HandleClarify(p)
  PROVE  TypeOK'
<1>1. pumps' \subseteq Pump /\ Head(p.events) \in Event
  BY HandledTyped DEF HandleClarify, Ready
<1>2. TasksTypeOK'
  BY <1>1 DEF HandleClarify, TypeOK, TasksTypeOK
<1>3. Head(p.events).session \in SessionOrNone
  BY <1>1 DEF Event, SessionOrNone
<1>4. clarify' \in SessionOrNone
  BY <1>3 DEF HandleClarify, TypeOK, TurnTypeOK
<1>5. TurnTypeOK'
  BY <1>4 DEF HandleClarify, TypeOK, TurnTypeOK
<1>6. QED
  BY <1>1, <1>2, <1>3, <1>4, <1>5, SameTyped DEF HandleClarify, TypeOK

(* A pump handles the loss of the stream.                                  *)
LEMMA HandleLostTyped ==
  ASSUME TypeOK, NEW p \in pumps, HandleLost(p)
  PROVE  TypeOK'
<1>1. /\ connection' \in Connection /\ retry_attempt' \in Nat
      /\ connect_generation' \in Nat /\ connection_epoch' \in Nat
  BY DEF HandleLost, Connection, TypeOK, ConnTypeOK
<1>2. /\ transport_ready' \in BOOLEAN /\ gateway_connecting' \in BOOLEAN
      /\ reconnecting' \in BOOLEAN /\ enabled' \in BOOLEAN
  BY DEF HandleLost, TypeOK, ConnTypeOK
<1>3. ConnTypeOK'
  BY <1>1, <1>2 DEF ConnTypeOK
<1>4. pumps' \subseteq Pump /\ Head(p.events) \in Event
  BY HandledTyped DEF HandleLost, Ready
<1>5. TasksTypeOK'
  BY <1>4 DEF HandleLost, TypeOK, TasksTypeOK
<1>6. live' \in SessionOrNone /\ clarify' \in SessionOrNone
  BY DEF HandleLost, DropSubscription, DropQuestion, SessionOrNone
<1>7. ViewTypeOK' /\ TurnTypeOK'
  BY <1>6 DEF HandleLost, TypeOK, ViewTypeOK, TurnTypeOK
<1>8. QED
  BY <1>1, <1>2, <1>3, <1>4, <1>5, <1>6, <1>7, SameTyped DEF HandleLost, TypeOK

(* A pump folds turn traffic into the conversation.                        *)
LEMMA HandleTurnTyped ==
  ASSUME TypeOK, NEW p \in pumps, HandleTurn(p)
  PROVE  TypeOK'
<1>1. pumps' \subseteq Pump /\ Head(p.events) \in Event
  BY HandledTyped DEF HandleTurn, Ready
<1>2. TasksTypeOK'
  BY <1>1 DEF HandleTurn, TypeOK, TasksTypeOK
<1>3. Head(p.events).kind \in {"Delta", "Complete", "TurnFailed"}
  BY DEF HandleTurn, Ready
<1>4. Head(p.events).session \in Session
  BY <1>1, <1>3 DEF Event
<1>5. ViewTypeOK'
  BY <1>4 DEF HandleTurn, TypeOK, ViewTypeOK
<1>6. TurnTypeOK'
  BY DEF HandleTurn, TypeOK, TurnTypeOK
<1>7. QED
  BY <1>1, <1>2, <1>3, <1>4, <1>5, <1>6, SameTyped DEF HandleTurn, TypeOK

(* After a loss the generation is read ...                                 *)
LEMMA PumpStreamLostTyped ==
  ASSUME TypeOK, NEW p \in pumps, PumpStreamLost(p)
  PROVE  TypeOK'
<1>1. pumps' \subseteq Pump
  BY DEF PumpStreamLost, Pump, TypeOK, TasksTypeOK, ConnTypeOK
<1>2. TasksTypeOK'
  BY <1>1 DEF PumpStreamLost, TypeOK, TasksTypeOK
<1>3. QED
  BY <1>1, <1>2, SameTyped DEF PumpStreamLost, TypeOK

(* ... and a retry scheduled.                                              *)
LEMMA PumpRetryTyped ==
  ASSUME TypeOK, NEW p \in pumps, PumpRetry(p)
  PROVE  TypeOK'
<1>1. p.gen \in Nat
  BY DEF Pump, TypeOK, TasksTypeOK
<1>2. ConnTypeOK' /\ retries' \subseteq RetryTimer
  BY <1>1, ScheduleRetryTyped DEF PumpRetry
<1>3. [p EXCEPT !.pc = "idle", !.gen = 0] \in Pump
  BY DEF Pump, TypeOK, TasksTypeOK
<1>4. pumps' \subseteq Pump
  BY <1>3 DEF PumpRetry, TypeOK, TasksTypeOK
<1>5. TasksTypeOK'
  BY <1>2, <1>4 DEF PumpRetry, TypeOK, TasksTypeOK
<1>6. QED
  BY <1>1, <1>2, <1>3, <1>4, <1>5, SameTyped DEF PumpRetry, TypeOK

(* The end of a turn takes the next prompt out of the queue ...            *)
LEMMA PumpAfterTurnTyped ==
  ASSUME TypeOK, NEW p \in pumps, PumpAfterTurn(p)
  PROVE  TypeOK'
<1>1. NextQueued \in Text /\ TurnTypeOK'
  BY AfterTurnTyped DEF PumpAfterTurn
<1>2. pumps' \subseteq Pump
  BY <1>1 DEF PumpAfterTurn, Pump, TypeOK, TasksTypeOK
<1>3. TasksTypeOK'
  BY <1>2 DEF PumpAfterTurn, TypeOK, TasksTypeOK
<1>4. QED
  BY <1>1, <1>2, <1>3, SameTyped DEF PumpAfterTurn, TypeOK

(* ... and sends it.                                                       *)
LEMMA PumpSendsTyped ==
  ASSUME TypeOK, NEW p \in pumps, PumpSends(p)
  PROVE  TypeOK'
<1>1. p.text \in Text
  BY DEF Pump, TypeOK, TasksTypeOK
<1>2. TurnTypeOK' /\ delivers' \subseteq DeliverTask
  BY <1>1, SendTyped DEF PumpSends
<1>3. pumps' \subseteq Pump
  BY NoTextTyped DEF PumpSends, Pump, TypeOK, TasksTypeOK
<1>4. TasksTypeOK'
  BY <1>2, <1>3 DEF PumpSends, TypeOK, TasksTypeOK
<1>5. QED
  BY <1>1, <1>2, <1>3, <1>4, SameTyped DEF PumpSends, TypeOK

-----------------------------------------------------------------------------
(* The theorem. *)

(* The initial state is well typed.                                        *)
LEMMA InitTyped ==
  ASSUME Init
  PROVE  TypeOK
<1>1. ViewTypeOK
  BY ConstantsAssumption DEF Init, ViewTypeOK, SessionOrNone
<1>2. ConnTypeOK
  BY DEF Init, ConnTypeOK, Connection
<1>3. TurnTypeOK
  BY EmptySeq DEF Init, TurnTypeOK, SessionOrNone
<1>4. AdaptersTypeOK
  <2>1. PICK k \in Kind : backends = <<NewAdapter(k)>>
    BY DEF Init
  <2>2. NewAdapter(k) \in Adapter
    BY DEF NewAdapter, Adapter
  <2>3. QED
    BY <2>1, <2>2 DEF Init, AdaptersTypeOK
<1>5. TasksTypeOK
  BY NoTextTyped DEF Init, TasksTypeOK, WindowThread
<1>6. opened \subseteq Session
  BY ConstantsAssumption DEF Init
<1>7. HistoryTypeOK
  BY <1>6, ConstantsAssumption DEF Init, HistoryTypeOK
<1>8. QED
  BY <1>1, <1>2, <1>3, <1>4, <1>5, <1>7 DEF TypeOK

(* Every step of the client's own tasks.                                   *)
LEMMA TasksTyped ==
  ASSUME TypeOK, TaskNext
  PROVE  TypeOK'
<1>1. CASE ConnectTaskNext
  BY <1>1, ConnectProbedTyped, ConnectAttachTyped, ConnectEnsuredTyped, ConnectRetryTyped,
     ConnectReopenTyped, ConnectOpenTyped DEF ConnectTaskNext
<1>2. CASE EnsureStreamNext
  BY <1>2, EnsureBeginTyped, EnsureDialTyped, EnsureSettleTyped DEF EnsureStreamNext
<1>3. CASE RetryNext
  BY <1>3, RetryFiresTyped, RetryConnectsTyped DEF RetryNext
<1>4. CASE RestartNext
  BY <1>4, ServerRestartedTyped, RestartConnectsTyped DEF RestartNext
<1>5. CASE OpenTaskNext
  BY <1>5, OpenAttachTyped, OpenEnsuredTyped, OpenHistoryTyped, OpenResumeTyped,
     OpenResumedTyped, OpenStreamLostTyped, OpenRetryTyped DEF OpenTaskNext
<1>6. CASE DeliverNext
  BY <1>6, DeliverChecksTyped, DeliverConnectsTyped, DeliverWaitsTyped,
     DeliverReadsBackendTyped, DeliverLocksTyped, DeliverAimsTyped, DeliverResumesTyped,
     DeliverCreatesTyped, DeliverAttachesTyped, DeliverSubmitsTyped, DeliverTakesBackTyped
     DEF DeliverNext
<1>7. CASE StopTaskNext
  BY <1>7, StopInterruptsTyped, StopGraceEndsTyped, StopAfterTurnTyped, StopSendsTyped
     DEF StopTaskNext
<1>8. CASE AdapterTaskNext
  BY <1>8, AdapterDisconnectsTyped, ClearScopeTyped, AnswerEndsTyped DEF AdapterTaskNext
<1>9. CASE PumpNext
  BY <1>9, DropsEventTyped, HandleConnectedTyped, HandleSessionInfoTyped, HandleClarifyTyped,
     HandleLostTyped, HandleTurnTyped, PumpStreamLostTyped, PumpRetryTyped,
     PumpAfterTurnTyped, PumpSendsTyped DEF PumpNext
<1>10. CASE WindowContinues
  BY <1>10, WindowConnectsTyped, WindowClearsScopeTyped, WindowSendsTyped,
     WindowAnswersTyped, WindowStopsTyped, WindowAfterTurnTyped DEF WindowContinues
<1>11. QED
  BY <1>1, <1>2, <1>3, <1>4, <1>5, <1>6, <1>7, <1>8, <1>9, <1>10 DEF TaskNext

(* Every step of the client, its user and the network.                     *)
LEMMA StepTyped ==
  ASSUME TypeOK, [Next]_vars
  PROVE  TypeOK'
<1>1. CASE TaskNext
  BY <1>1, TasksTyped
<1>2. CASE CommandNext
  BY <1>2, CommandConnectTyped, DisableBackendTyped, ApplyWorkspaceTyped, SwitchBackendTyped,
     OpenSessionTyped, NewChatTyped, SubmitTyped, CommandStopTyped, DismissClarifyTyped,
     SendQueuedNowTyped, UnqueueTyped DEF CommandNext
<1>3. CASE StreamNext
  BY <1>3, StreamConnectsTyped, StreamFailsTyped, StreamDropsTyped, StreamFrameTyped,
     StreamQuestionTyped, StreamSessionInfoTyped DEF StreamNext
<1>4. CASE ListFails
  BY <1>4, ListFailsTyped
<1>5. CASE UNCHANGED vars
  BY <1>5, SameTyped DEF vars, TypeOK, TasksTypeOK
<1>6. QED
  BY <1>1, <1>2, <1>3, <1>4, <1>5 DEF Next, Idle

(* Whatever the user, the network and the scheduler do, every variable and   *)
(* every task's record keep their types; a delivery that resumes, attaches   *)
(* or submits has a session to do it with (send.rs:118-166).                 *)
THEOREM TypeCorrect == Spec => []TypeOK
<1>1. Init => TypeOK
  BY InitTyped
<1>2. TypeOK /\ [Next]_vars => TypeOK'
  BY StepTyped
<1>3. QED
  BY <1>1, <1>2, PTL DEF Spec
=============================================================================
