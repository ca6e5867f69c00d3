---------------------------- MODULE DesktopSend ----------------------------
(***************************************************************************)
(* Sending a prompt, stopping a turn, answering a question and the queue   *)
(* (crates/desktop/src/send.rs).                                           *)
(***************************************************************************)
EXTENDS DesktopSessions

(* send(): the prompt goes on screen and a delivery task is spawned with the *)
(* view it was sent from.                                                    *)
Send(text) ==
  /\ sending' = TRUE
  /\ turn_seq' = turn_seq + 1
  /\ stopping' = FALSE
  /\ delivers' = delivers \cup {[text |-> text, view |-> view_generation, turn |-> turn_seq + 1,
                                 home |-> stored, inst |-> 0, target |-> None, pc |-> "check"]}

(* after_turn(): the question is stale, and the next queued prompt is taken  *)
(* out to be sent in a region of its own.                                    *)
NextQueued == IF sending \/ queue = <<>> THEN NoText ELSE Head(queue)

(* A mutant: the prompt that is sent stays in the queue. *)
AfterTurnKeepsNext ==
  /\ clarify' = None
  /\ stopping' = FALSE
  /\ UNCHANGED queue

AfterTurn ==
  /\ clarify' = None
  /\ stopping' = FALSE
  /\ queue' = IF NextQueued = NoText THEN queue ELSE Tail(queue)

-----------------------------------------------------------------------------
(* deliver() *)

DeliverIs(d, pc) == delivers' = (delivers \ {d}) \cup {[d EXCEPT !.pc = pc]}

(* A mutant: the view a prompt was sent from is not compared. *)
NeverStale(d) == FALSE

DeliverIsStale(d) == view_generation # d.view

NeedsConnect == ~transport_ready /\ connection # "Connecting" /\ ~gateway_connecting

ConnectSettled ==
  /\ ~gateway_connecting
  /\ connection # "Connecting"
  /\ ~(reconnecting /\ connection = "Disconnected")

(* wait_for_connection: start a connect if nothing is connecting ... *)
DeliverChecks(d) ==
  /\ d.pc = "check"
  /\ DeliverIs(d, IF NeedsConnect THEN "connect" ELSE "wait")
  /\ UNCHANGED <<viewVars, connVars, enabled, turnVars, backends, window, pumps, connects,
                 retries, disconnects, restarts, opens, scopes, stops, answers, historyVars,
                 textVars, budget>>

DeliverConnects(d) ==
  /\ d.pc = "connect"
  /\ Connect
  /\ DeliverIs(d, "wait")
  /\ UNCHANGED <<viewVars, enabled, turnVars, backends, window, pumps, retries, disconnects,
                 restarts, opens, scopes, stops, answers, historyVars, textVars, budget>>

(* A mutant: the wait has no deadline and does not see a failed connect. *)
DeliverWaitsForStream(d) ==
  /\ d.pc = "wait"
  /\ transport_ready
  /\ DeliverIs(d, "ready")
  /\ UNCHANGED <<viewVars, connVars, enabled, turnVars, backends, window, pumps, connects,
                 retries, disconnects, restarts, opens, scopes, stops, answers, historyVars,
                 textVars, budget>>

(* ... then poll until the stream is there, the connect settled without one, *)
(* or 45 seconds are over.                                                   *)
DeliverWaits(d) ==
  /\ d.pc = "wait"
  /\ \/ /\ transport_ready
        /\ DeliverIs(d, "ready")
     \/ /\ ~transport_ready
        /\ ConnectSettled
        /\ DeliverIs(d, "back")
     \/ /\ ~transport_ready          \* the deadline, at any moment before that
        /\ ~ConnectSettled
        /\ DeliverIs(d, "back")
  /\ UNCHANGED <<viewVars, connVars, enabled, turnVars, backends, window, pumps, connects,
                 retries, disconnects, restarts, opens, scopes, stops, answers, historyVars,
                 textVars, budget>>

(* The backend is read in one region, its lock taken when it is free. *)
DeliverReadsBackend(d) ==
  /\ d.pc = "ready"
  /\ delivers' = (delivers \ {d}) \cup {[d EXCEPT !.pc = "lock", !.inst = Current]}
  /\ UNCHANGED <<viewVars, connVars, enabled, turnVars, backends, window, pumps, connects,
                 retries, disconnects, restarts, opens, scopes, stops, answers, historyVars,
                 textVars, budget>>

(* A mutant: the lock is not waited for. *)
DeliverBarges(d) ==
  /\ d.pc = "lock"
  /\ Held(d.inst, "begin")
  /\ DeliverIs(d, "ensure")
  /\ UNCHANGED <<viewVars, connVars, enabled, turnVars, window, pumps, connects, retries,
                 disconnects, restarts, opens, scopes, stops, answers, historyVars, textVars,
                 budget>>

DeliverLocks(d) ==
  /\ d.pc = "lock"
  /\ Free(d.inst)
  /\ Held(d.inst, "begin")
  /\ DeliverIs(d, "ensure")
  /\ UNCHANGED <<viewVars, connVars, enabled, turnVars, window, pumps, connects, retries,
                 disconnects, restarts, opens, scopes, stops, answers, historyVars, textVars,
                 budget>>

(* The region that decides where the prompt goes: the live session, the      *)
(* stored one once resumed, or a new one when there is none on screen, with  *)
(* the adapter scoped to nothing while it is made.                           *)
DeliverAims(d) ==
  /\ d.pc = "ensure"
  /\ \/ /\ \/ backends[d.inst].guard = "failed"
           \/ backends[d.inst].guard = "ok" /\ DeliverIsStale(d)
        /\ Held(d.inst, "free")
        /\ DeliverIs(d, "back")
     \/ /\ backends[d.inst].guard = "ok"
        /\ ~DeliverIsStale(d)
        /\ \/ /\ live # None
              /\ Held(d.inst, "held")
              /\ delivers' = (delivers \ {d}) \cup {[d EXCEPT !.pc = "submit", !.target = live]}
           \/ /\ live = None /\ stored # None
              /\ Held(d.inst, "held")
              /\ delivers' = (delivers \ {d}) \cup {[d EXCEPT !.pc = "resume", !.target = stored]}
           \/ /\ live = None /\ stored = None
              /\ backends' = [backends EXCEPT ![d.inst].guard = "held", ![d.inst].scope = {}]
              /\ DeliverIs(d, "create")
  /\ UNCHANGED <<viewVars, connVars, enabled, turnVars, window, pumps, connects, retries,
                 disconnects, restarts, opens, scopes, stops, answers, historyVars, textVars,
                 budget>>

(* resume_session or create_session on the adapter. *)
DeliverResumes(d) ==
  /\ d.pc = "resume"
  /\ \/ /\ Scoped(d.inst, {d.target})
        /\ DeliverIs(d, "resumed")
        /\ UNCHANGED budget
     \/ /\ RequestFails(d.inst)
        /\ Held(d.inst, "free")
        /\ DeliverIs(d, "back")
  /\ UNCHANGED <<viewVars, connVars, enabled, turnVars, window, pumps, connects, retries,
                 disconnects, restarts, opens, scopes, stops, answers, historyVars, textVars>>

DeliverCreates(d) ==
  /\ d.pc = "create"
  /\ \/ \E s \in Session :
          /\ ~Exists(s)
          /\ Owner[s] = backends[d.inst].kind
          /\ created' = created \cup {[session |-> s, view |-> d.view]}
          /\ Scoped(d.inst, {s})
          /\ delivers' = (delivers \ {d}) \cup {[d EXCEPT !.pc = "created", !.target = s]}
          /\ UNCHANGED budget
     \/ /\ RequestFails(d.inst)
        /\ Held(d.inst, "free")
        /\ DeliverIs(d, "back")
        /\ UNCHANGED created
  /\ UNCHANGED <<viewVars, connVars, enabled, turnVars, window, pumps, connects, retries,
                 disconnects, restarts, opens, scopes, stops, answers, delivered, opened,
                 textVars>>

(* The session is taken over (adopt_new_session when it is new) only by the  *)
(* view the prompt was sent from.                                            *)
DeliverAttaches(d) ==
  /\ d.pc \in {"resumed", "created"}
  /\ IF DeliverIsStale(d)
     THEN /\ Held(d.inst, "free")
          /\ DeliverIs(d, "back")
          /\ UNCHANGED <<live, stored, selected>>
     ELSE /\ live' = d.target
          /\ stored' = d.target
          /\ selected' = IF d.pc = "created" THEN d.target ELSE selected
          /\ DeliverIs(d, "submit")
          /\ UNCHANGED backends
  /\ UNCHANGED <<view_generation, origins, connVars, enabled, turnVars, window, pumps, connects,
                 retries, disconnects, restarts, opens, scopes, stops, answers, historyVars,
                 textVars, budget>>

(* submit: accepted, refused, or accepted with the acknowledgement lost. *)
DeliverSubmits(d) ==
  LET record == [text |-> d.text, home |-> d.home, view |-> d.view, session |-> d.target] IN
  /\ d.pc = "submit"
  /\ Held(d.inst, "free")
  /\ \/ /\ delivered' = delivered \cup {record}
        /\ delivers' = delivers \ {d}
        /\ Settle({d.text.id}, "sent")
        /\ UNCHANGED budget
     \/ /\ RequestFails(d.inst)
        /\ delivered' \in {delivered, delivered \cup {record}}
        /\ DeliverIs(d, "back")
        /\ UNCHANGED settled
  /\ UNCHANGED <<viewVars, connVars, enabled, turnVars, window, pumps, connects, retries,
                 disconnects, restarts, opens, scopes, stops, answers, created, opened, typed>>

(* A mutant: an undelivered prompt is dropped. *)
RestoreNothing(id) == UNCHANGED settled

Restore(id) == Settle({id}, "composer")

(* take_back: out of the transcript and back into the composer. *)
DeliverTakesBack(d) ==
  /\ d.pc = "back"
  /\ delivers' = delivers \ {d}
  /\ sending' = IF turn_seq = d.turn THEN FALSE ELSE sending
  /\ Restore(d.text.id)
  /\ UNCHANGED <<viewVars, connVars, enabled, stopping, turn_seq, clarify, queue, backends,
                 window, pumps, connects, retries, disconnects, restarts, opens, scopes, stops,
                 answers, historyVars, typed, budget>>

-----------------------------------------------------------------------------
(* submit(): the composer's Send.  A text that answers a question or starts  *)
(* a turn is handed to the next region of the window thread.                 *)
Submit ==
  LET text == [id |-> typed + 1, home |-> stored] IN
  /\ WindowIdle
  /\ clarify # None \/ enabled
  /\ Spend("text")
  /\ typed' = typed + 1
  /\ IF clarify = None /\ sending
     THEN queue' = Append(queue, text) /\ UNCHANGED window
     ELSE WindowIs(IF clarify # None THEN "answer" ELSE "send", text) /\ UNCHANGED queue
  /\ UNCHANGED <<viewVars, connVars, enabled, sending, stopping, turn_seq, clarify, backends,
                 pumps, connects, retries, disconnects, restarts, opens, scopes, delivers,
                 stops, answers, historyVars, settled>>

WindowSends ==
  /\ window.pc = "send"
  /\ Send(window.text)
  /\ WindowIs("idle", NoText)
  /\ UNCHANGED <<viewVars, connVars, enabled, clarify, queue, backends, pumps, connects,
                 retries, disconnects, restarts, opens, scopes, stops, answers, historyVars,
                 textVars, budget>>

(* answer(): the question may have gone meanwhile, and then nothing happens. *)
WindowAnswers ==
  /\ window.pc = "answer"
  /\ WindowIs("idle", NoText)
  /\ IF clarify = None
     THEN UNCHANGED <<clarify, sending, turn_seq, answers>>
     ELSE /\ clarify' = None
          /\ sending' = TRUE
          /\ turn_seq' = turn_seq + 1
          /\ answers' = answers \cup {[text |-> window.text, inst |-> Current]}
  /\ UNCHANGED <<viewVars, connVars, enabled, stopping, queue, backends, pumps, connects,
                 retries, disconnects, restarts, opens, scopes, delivers, stops, historyVars,
                 textVars, budget>>

(* The backend acknowledges the answer, or the request fails: the turn on    *)
(* screen ends, and nobody sends the text again or puts it back.             *)
AnswerEnds(a) ==
  /\ a \in answers
  /\ Free(a.inst)
  /\ answers' = answers \ {a}
  /\ \/ /\ Settle({a.text.id}, "answered")
        /\ UNCHANGED <<sending, budget>>
     \/ /\ RequestFails(a.inst)
        /\ sending' = FALSE
        /\ UNCHANGED settled
  /\ UNCHANGED <<viewVars, connVars, enabled, stopping, turn_seq, clarify, queue, backends,
                 window, pumps, connects, retries, disconnects, restarts, opens, scopes,
                 delivers, stops, historyVars, typed>>

(* dismiss_clarify: the backend is told, and only an error message follows. *)
DismissClarify ==
  /\ WindowIdle
  /\ clarify # None
  /\ Spend("dismiss")
  /\ clarify' = None
  /\ UNCHANGED <<viewVars, connVars, enabled, sending, stopping, turn_seq, queue, backends,
                 window, pumps, connects, retries, disconnects, restarts, opens, scopes,
                 delivers, stops, answers, historyVars, textVars>>

-----------------------------------------------------------------------------
(* stop() *)
Stop ==
  /\ sending /\ ~stopping
  /\ stopping' = TRUE
  /\ stops' = stops \cup {[turn |-> turn_seq, inst |-> Current, live |-> live,
                           pc |-> "interrupt", text |-> NoText]}

CommandStop ==
  /\ WindowIdle
  /\ Spend("stop")
  /\ Stop
  /\ UNCHANGED <<viewVars, connVars, enabled, sending, turn_seq, clarify, queue, backends,
                 window, pumps, connects, retries, disconnects, restarts, opens, scopes,
                 delivers, answers, historyVars, textVars>>

StopInterrupts(t) ==
  /\ t.pc = "interrupt"
  /\ \/ /\ t.live = None \/ Free(t.inst)
        /\ stops' = (stops \ {t}) \cup {[t EXCEPT !.pc = "grace"]}
        /\ UNCHANGED <<stopping, budget>>
     \/ /\ t.live # None /\ Free(t.inst)
        /\ RequestFails(t.inst)
        /\ stopping' = FALSE
        /\ stops' = stops \ {t}
  /\ UNCHANGED <<viewVars, connVars, enabled, sending, turn_seq, clarify, queue, backends,
                 window, pumps, connects, retries, disconnects, restarts, opens, scopes,
                 delivers, answers, historyVars, textVars>>

(* A mutant: any turn but the one that was stopped. *)
AnotherTurnRuns(t) == turn_seq # t.turn /\ sending

StoppedTurnRuns(t) == turn_seq = t.turn /\ sending

(* STOP_GRACE is over: the turn this stop was for ends here if it is still   *)
(* running.                                                                  *)
StopGraceEnds(t) ==
  /\ t.pc = "grace"
  /\ IF StoppedTurnRuns(t)
     THEN /\ sending' = FALSE
          /\ stops' = (stops \ {t}) \cup {[t EXCEPT !.pc = "after"]}
     ELSE /\ stops' = stops \ {t}
          /\ UNCHANGED sending
  /\ UNCHANGED <<viewVars, connVars, enabled, stopping, turn_seq, clarify, queue, backends,
                 window, pumps, connects, retries, disconnects, restarts, opens, scopes,
                 delivers, answers, historyVars, textVars, budget>>

StopAfterTurn(t) ==
  /\ t.pc = "after"
  /\ AfterTurn
  /\ stops' = IF NextQueued = NoText THEN stops \ {t}
              ELSE (stops \ {t}) \cup {[t EXCEPT !.pc = "send", !.text = NextQueued]}
  /\ UNCHANGED <<viewVars, connVars, enabled, sending, turn_seq, backends, window, pumps,
                 connects, retries, disconnects, restarts, opens, scopes, delivers, answers,
                 historyVars, textVars, budget>>

StopSends(t) ==
  /\ t.pc = "send"
  /\ Send(t.text)
  /\ stops' = stops \ {t}
  /\ UNCHANGED <<viewVars, connVars, enabled, clarify, queue, backends, window, pumps,
                 connects, retries, disconnects, restarts, opens, scopes, answers,
                 historyVars, textVars, budget>>

-----------------------------------------------------------------------------
(* The queue's own commands. *)

Without(n) == SubSeq(queue, 1, n - 1) \o SubSeq(queue, n + 1, Len(queue))

(* send_queued_now: to the front, then the turn is stopped or, with none     *)
(* running, its end is run.                                                  *)
SendQueuedNow(n) ==
  /\ WindowIdle
  /\ Spend("queue")
  /\ queue' = <<queue[n]>> \o Without(n)
  /\ WindowIs(IF sending THEN "stop" ELSE "after", NoText)
  /\ UNCHANGED <<viewVars, connVars, enabled, sending, stopping, turn_seq, clarify, backends,
                 pumps, connects, retries, disconnects, restarts, opens, scopes, delivers,
                 stops, answers, historyVars, textVars>>

WindowStops ==
  /\ window.pc = "stop"
  /\ WindowIs("idle", NoText)
  /\ Stop \/ (~(sending /\ ~stopping) /\ UNCHANGED <<stopping, stops>>)
  /\ UNCHANGED <<viewVars, connVars, enabled, sending, turn_seq, clarify, queue, backends,
                 pumps, connects, retries, disconnects, restarts, opens, scopes, delivers,
                 answers, historyVars, textVars, budget>>

WindowAfterTurn ==
  /\ window.pc = "after"
  /\ AfterTurn
  /\ IF NextQueued = NoText THEN WindowIs("idle", NoText) ELSE WindowIs("send", NextQueued)
  /\ UNCHANGED <<viewVars, connVars, enabled, sending, turn_seq, backends, pumps, connects,
                 retries, disconnects, restarts, opens, scopes, delivers, stops, answers,
                 historyVars, textVars, budget>>

(* edit_queued gives one prompt back to the composer, cancel_queued drops it. *)
Unqueue(n) ==
  /\ WindowIdle
  /\ Spend("queue")
  /\ queue' = Without(n)
  /\ \E where \in {"composer", "cancelled"} : Settle({queue[n].id}, where)
  /\ UNCHANGED <<viewVars, connVars, enabled, sending, stopping, turn_seq, clarify, backends,
                 window, pumps, connects, retries, disconnects, restarts, opens, scopes,
                 delivers, stops, answers, historyVars, typed>>
=============================================================================
