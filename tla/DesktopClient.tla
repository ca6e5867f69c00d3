--------------------------- MODULE DesktopClient ---------------------------
(***************************************************************************)
(* The desktop client core put together: its next-state relation, the      *)
(* fairness its runtime provides, and what it promises.                    *)
(***************************************************************************)
EXTENDS DesktopEvents

Adapters == DOMAIN backends

ConnectTaskNext ==
  \E c \in connects :
    \/ ConnectProbed(c) \/ ConnectAttach(c) \/ ConnectEnsured(c)
    \/ ConnectRetry(c) \/ ConnectReopen(c) \/ ConnectOpen(c)

EnsureStreamNext == \E i \in Adapters : EnsureBegin(i) \/ EnsureDial(i) \/ EnsureSettle(i)

RetryNext == \E r \in retries : RetryFires(r) \/ RetryConnects(r)

RestartNext == ServerRestarted \/ RestartConnects

OpenTaskNext ==
  \E o \in opens :
    \/ OpenAttach(o) \/ OpenEnsured(o) \/ OpenHistory(o) \/ OpenResume(o)
    \/ OpenResumed(o) \/ OpenStreamLost(o) \/ OpenRetry(o)

DeliverNext ==
  \E d \in delivers :
    \/ DeliverChecks(d) \/ DeliverConnects(d) \/ DeliverWaits(d)
    \/ DeliverReadsBackend(d) \/ DeliverLocks(d) \/ DeliverAims(d)
    \/ DeliverResumes(d) \/ DeliverCreates(d) \/ DeliverAttaches(d)
    \/ DeliverSubmits(d) \/ DeliverTakesBack(d)

StopTaskNext ==
  \E t \in stops :
    StopInterrupts(t) \/ StopGraceEnds(t) \/ StopAfterTurn(t) \/ StopSends(t)

AdapterTaskNext ==
  \/ \E i \in Adapters : AdapterDisconnects(i)
  \/ \E t \in scopes : ClearScope(t)
  \/ \E a \in answers : AnswerEnds(a)

PumpNext ==
  \E p \in pumps :
    \/ DropsEvent(p) \/ HandleConnected(p) \/ HandleSessionInfo(p) \/ HandleClarify(p)
    \/ HandleLost(p) \/ HandleTurn(p)
    \/ PumpStreamLost(p) \/ PumpRetry(p) \/ PumpAfterTurn(p) \/ PumpSends(p)

WindowContinues ==
  \/ WindowConnects \/ WindowClearsScope \/ WindowSends \/ WindowAnswers
  \/ WindowStops \/ WindowAfterTurn

CommandNext ==
  \/ CommandConnect \/ DisableBackend \/ ApplyWorkspace
  \/ \E k \in Kind : SwitchBackend(k)
  \/ \E s \in Session : OpenSession(s)
  \/ NewChat
  \/ Submit \/ CommandStop \/ DismissClarify
  \/ \E n \in DOMAIN queue : SendQueuedNow(n) \/ Unqueue(n)

StreamNext ==
  \E i \in Adapters :
    \/ StreamConnects(i) \/ StreamFails(i) \/ StreamDrops(i)
    \/ \E s \in Session :
         \/ \E k \in {"Delta", "Complete", "TurnFailed"} : StreamFrame(i, s, k)
         \/ StreamQuestion(i, s)
         \/ StreamSessionInfo(i, s)

(* Nothing is running and nothing is waiting to be handled. *)
Quiescent ==
  /\ WindowIdle
  /\ connects = {} /\ retries = {} /\ disconnects = {} /\ restarts = {}
  /\ opens = {} /\ scopes = {} /\ delivers = {} /\ stops = {} /\ answers = {}
  /\ \A p \in pumps : p.pc = "idle" /\ p.events = <<>>

(* The client may sit idle for ever; a task that waits for ever is a deadlock. *)
Idle == Quiescent /\ UNCHANGED vars

TaskNext ==
  \/ ConnectTaskNext \/ EnsureStreamNext \/ RetryNext \/ RestartNext \/ OpenTaskNext
  \/ DeliverNext \/ StopTaskNext \/ AdapterTaskNext \/ PumpNext \/ WindowContinues

Next == TaskNext \/ CommandNext \/ StreamNext \/ ListFails \/ Idle

Spec == Init /\ [][Next]_vars

(* The runtime keeps running every task, the window thread finishes the      *)
(* command it is in, and a socket being opened is answered.  Users and       *)
(* failures are under no obligation.                                         *)
Fairness ==
  /\ WF_vars(ConnectTaskNext) /\ WF_vars(EnsureStreamNext) /\ WF_vars(RetryNext)
  /\ WF_vars(RestartNext) /\ WF_vars(OpenTaskNext) /\ WF_vars(DeliverNext)
  /\ WF_vars(StopTaskNext) /\ WF_vars(AdapterTaskNext) /\ WF_vars(PumpNext)
  /\ WF_vars(WindowContinues)
  /\ WF_vars(\E i \in Adapters : StreamConnects(i))

FairSpec == Spec /\ Fairness

-----------------------------------------------------------------------------
(* Type invariant. *)

ViewTypeOK ==
  /\ selected \in SessionOrNone
  /\ stored \in SessionOrNone
  /\ live \in SessionOrNone
  /\ view_generation \in Nat
  /\ origins \subseteq Session

ConnTypeOK ==
  /\ connection \in Connection
  /\ transport_ready \in BOOLEAN
  /\ gateway_connecting \in BOOLEAN
  /\ reconnecting \in BOOLEAN
  /\ retry_attempt \in Nat
  /\ connect_generation \in Nat
  /\ connection_epoch \in Nat
  /\ enabled \in BOOLEAN

TurnTypeOK ==
  /\ sending \in BOOLEAN
  /\ stopping \in BOOLEAN
  /\ turn_seq \in Nat
  /\ clarify \in SessionOrNone
  /\ queue \in Seq(Text)

AdaptersTypeOK ==
  /\ backends \in Seq(Adapter)
  /\ Len(backends) > 0
  /\ disconnects \subseteq Adapters

TasksTypeOK ==
  /\ window \in WindowThread
  /\ pumps \subseteq Pump
  /\ connects \subseteq ConnectTask
  /\ retries \subseteq RetryTimer
  /\ restarts \subseteq RestartTask
  /\ opens \subseteq OpenTask
  /\ scopes \subseteq ScopeTask
  /\ delivers \subseteq DeliverTask
  /\ stops \subseteq StopTask
  /\ answers \subseteq AnswerTask

HistoryTypeOK ==
  /\ typed \in Nat
  /\ settled \subseteq Nat \X {"composer", "cancelled", "sent", "answered"}
  /\ delivered \subseteq [text : Text, home : SessionOrNone, view : Nat, session : Session]
  /\ created \subseteq [session : Session, view : Nat]
  /\ opened \subseteq Session
  /\ budget \in [Class -> Nat]

TypeOK ==
  /\ ViewTypeOK /\ ConnTypeOK /\ TurnTypeOK
  /\ AdaptersTypeOK /\ TasksTypeOK /\ HistoryTypeOK

-----------------------------------------------------------------------------
(* Where prompts go. *)

(* deliver() checks the view generation before every use of the live or      *)
(* stored id (send.rs:118-166): whatever else runs between its regions, a    *)
(* prompt reaches the session that was on screen when send() ran, or the one *)
(* created for the blank chat it was sent from.                              *)
PromptReachesItsView ==
  \A r \in delivered :
    IF r.home # None THEN r.session = r.home
    ELSE [session |-> r.session, view |-> r.view] \in created

(* The stronger promise of connect.rs:361-363: a prompt never goes into a    *)
(* conversation other than the one it was typed in.                          *)
PromptGoesWhereTyped ==
  \A r \in delivered : r.text.home # None => r.session = r.text.home

(* Where each text is. *)
Flying == {d.text.id : d \in delivers} \cup {t.text.id : t \in answers}
Handed == {window.text.id} \cup {p.text.id : p \in pumps} \cup {t.text.id : t \in stops}
Resting == {pair[1] : pair \in settled}

(* send.rs:10-12, "nothing typed is ever lost": every text typed is queued,  *)
(* on its way, back in the composer or at the backend.                       *)
NothingTypedIsLost == 1 .. typed \subseteq QueuedIds \cup Flying \cup Handed \cup Resting

(* Whoever has a text in hand and has not come to the end of sending it. *)
StillToSend ==
  QueuedIds \cup Handed \cup {a.text.id : a \in answers}
    \cup {d.text.id : d \in {e \in delivers : e.pc # "back"}}

(* A text is in only one of these places: the queue, the hand-over between   *)
(* after_turn and send, a delivery and the composer never hold it twice.     *)
(* And a prompt that a backend took is taken once and not on its way to one  *)
(* again: when its acknowledgement was lost it goes back to the composer,    *)
(* where only the user can send it a second time (send.rs:92).               *)
NoTextTwice ==
  \A t \in 1 .. typed :
    /\ \A r \in delivered : r.text.id = t =>
         /\ t \notin StillToSend
         /\ \A q \in delivered : q.text.id = t => q = r
    /\ Cardinality({where \in {"composer", "cancelled", "sent", "answered"} :
                     <<t, where>> \in settled})
         + Cardinality({n \in DOMAIN queue : queue[n].id = t})
         + Cardinality({d \in delivers : d.text.id = t})
         + Cardinality({x \in answers : x.text.id = t})
         + Cardinality({p \in pumps : p.text.id = t})
         + Cardinality({x \in stops : x.text.id = t})
         + (IF window.text.id = t THEN 1 ELSE 0) <= 1

(* connect.rs:361 again, for the queue: a prompt waiting behind a turn was   *)
(* typed in the conversation that is on screen, so leaving one takes its     *)
(* queue along to the composer (open, new_chat, switch_backend).             *)
QueueFollowsView ==
  \A n \in DOMAIN queue :
    IF queue[n].home # None THEN queue[n].home = stored
    ELSE stored = None \/ \E c \in created : c.session = stored

(* A prompt still on its way from the conversation on screen can be          *)
(* delivered: only a change of conversation makes it stale (state.rs:64-66). *)
OnScreenPromptNotStale ==
  \A d \in delivers : d.home # None /\ d.home = stored => ~DeliverIsStale(d)

(* send.rs:35, "queue behind the turn that is running": two prompts are not  *)
(* on their way to one conversation at once.                                 *)
OneTurnAtATime ==
  \A d, e \in delivers : d.view = e.view => d = e \/ d.pc = "back" \/ e.pc = "back"

-----------------------------------------------------------------------------
(* Whose replies are drawn. *)

(* sessions.md: a session this client never opened or created (a cron job's, *)
(* another client's) never reaches the screen, whatever the gateway fans out *)
(* and however the views change meanwhile.                                   *)
NoStrangers ==
  \A s \in origins : s \in opened \/ \E c \in created : c.session = s

(* sessions.md, rule 1: a labelled frame is kept only when it names the      *)
(* session on screen.                                                        *)
OnlyOwnFrames == origins \subseteq {stored}

(* events.rs:88: a question asked in another session is not this chat's.     *)
OnlyOwnQuestions == clarify \in {None, stored, live}

(* The filter passes the replies of the session on screen: with nothing in   *)
(* flight and the stream up, the adapter is scoped to the live session.      *)
(* Otherwise it looks like a session that never answers (session_scope.rs).  *)
AttachedIsHeard ==
  Quiescent /\ live # None /\ backends[Current].up => live \in backends[Current].scope

(* Nothing of another backend is on screen: not its session, ...             *)
ViewOfThisBackend == \A s \in {selected, stored, live} \ {None} : Owner[s] = kind

(* ... nor a reply or a question of it, however late the stream that a       *)
(* switch replaced delivers them (state.rs:91-95).                           *)
RepliesOfThisBackend == \A s \in origins \cup ({clarify} \ {None}) : Owner[s] = kind

(* The stream of the adapter in use reports to the channel being listened to. *)
CurrentStreamOpen == backends[Current].stream = connection_epoch /\ connection_epoch > 0

(* The current channel has yet to tell that its stream is gone. *)
LossOnItsWay ==
  \E p \in pumps : /\ p.epoch = connection_epoch
                   /\ \E n \in DOMAIN p.events : p.events[n].kind \in {"Disconnected", "Failed"}

(* A question on screen can be answered: the stream it came from is open, or *)
(* its loss is about to be told, which takes the question along, or another  *)
(* stream is being opened (events.rs:104-111).                               *)
QuestionMeansStream ==
  clarify # None => CurrentStreamOpen \/ LossOnItsWay \/ connection = "Connecting"

(* send.rs:29-32: a turn the user stopped is ended by the backend or, after  *)
(* the grace period, here; the spinner does not keep turning.                *)
StopEnds == (stopping /\ sending) ~> ~(stopping /\ sending)

-----------------------------------------------------------------------------
(* The connection. *)

(* state.rs:91-95: the last words of a replaced stream do not mark the       *)
(* connection that replaced it down.                                         *)
NotMarkedDown ==
  [][ /\ transport_ready /\ CurrentStreamOpen
      /\ connect_generation' = connect_generation
      /\ connection_epoch' = connection_epoch
      => transport_ready' \/ ~CurrentStreamOpen' ]_vars

(* With nothing in flight, a transport that is ready has a stream.           *)
ReadyMeansStream == Quiescent /\ transport_ready => CurrentStreamOpen

(* With nothing in flight, an adapter that was switched away from is closed. *)
OldAdaptersClosed ==
  Quiescent => \A i \in Adapters : i # Current => backends[i].stream = 0

(* With nothing in flight, a backend that is switched off has no stream.     *)
OffMeansOff == Quiescent /\ ~enabled => backends[Current].stream = 0

(* events.rs:112: when the stream goes the subscription goes with it.        *)
LiveMeansStream == Quiescent /\ live # None => CurrentStreamOpen

(* connect.rs:4-7: once asked to, it connects, and it comes back on its own  *)
(* for as long as the backend's switch is on.                                *)
Online == transport_ready /\ connection \in {"Connected", "Degraded"}

(* A retry sleeps for a second or more: it does not run out between the      *)
(* return of an adapter's connect() and the region that records it.          *)
TimersOutlastRegions ==
  \A r \in retries, i \in Adapters :
    r.pc = "connect" => backends[i].guard \notin {"dialled", "refused"}

ComesBack ==
  []TimersOutlastRegions => ((connect_generation > 0 /\ enabled) ~> (Online \/ ~enabled))

(* A delivery ends: the wait for the connection has a deadline, and every    *)
(* lock it waits for is released.                                            *)
DeliveriesEnd == \A t \in UNION {1 .. start.budget["text"] : start \in Scenarios} :
  (\E d \in delivers : d.text.id = t) ~> (t \in Resting)
=============================================================================
