---------------------------- MODULE MobileTasks ----------------------------
(***************************************************************************)
(* What the bridge runs in the background (crates/mobile/src/client.rs):   *)
(* the pumps, opening a session, catching up with its history and sending  *)
(* a prompt.  A step ends where a lock is released or an answer awaited.   *)
(***************************************************************************)
EXTENDS MobileState

pumpOnly == <<settings, adapters, slot, atomics, screen, opens, catchups, sends, closes, scopes,
              ui, agents, restored, prompt, budget>>

PumpIs(p, pc) == p \in pumps /\ p.pc = pc

PumpBecomes(p, q) == pumps' = (pumps \ {p}) \cup {q}

PumpGoes(p, pc) == PumpBecomes(p, [p EXCEPT !.pc = pc])

PumpEnds(p) == pumps' = pumps \ {p}

Overtaken(p) == p.gen # generation

Unwanted(p) == ~wanted \/ Overtaken(p)

(* The loop's head, with a channel of its own for every attempt. *)
PumpAttempts(p) ==
  /\ PumpIs(p, "attempt")
  /\ IF Unwanted(p) THEN PumpEnds(p)
     ELSE PumpBecomes(p, [p EXCEPT !.pc = "close", !.inbox = <<>>])
  /\ UNCHANGED pumpOnly

(* establish: three statements, each with the mutex to itself. *)
PumpCloses(p) ==
  /\ PumpIs(p, "close") /\ FreeAdapter(p.inst)
  /\ Disconnects(p.inst)
  /\ PumpGoes(p, "probe")
  /\ UNCHANGED <<settings, slot, atomics, screen, opens, catchups, sends, closes, scopes,
                 ui, agents, restored, prompt, budget>>

PumpProbes(p) ==
  /\ PumpIs(p, "probe") /\ FreeAdapter(p.inst)
  /\ PumpGoes(p, "connect")
  /\ UNCHANGED pumpOnly

PumpConnects(p) ==
  /\ PumpIs(p, "connect") /\ FreeAdapter(p.inst)
  /\ adapters' = [adapters EXCEPT ![p.inst].stream = p.gen, ![p.inst].scope = None]
  /\ PumpBecomes(p, [p EXCEPT !.pc = "up", !.inbox = <<"connected">>])
  /\ UNCHANGED <<settings, slot, atomics, screen, opens, catchups, sends, closes, scopes,
                 ui, agents, restored, prompt, budget>>

(* An error, or ATTEMPT_TIMEOUT, which may leave the socket it opened. *)
PumpFails(p) ==
  /\ \/ PumpIs(p, "close") \/ PumpIs(p, "probe") \/ PumpIs(p, "connect")
  /\ Spend("fail")
  /\ PumpGoes(p, "failed")
  /\ \/ UNCHANGED adapters
     \/ /\ p.pc = "connect" /\ FreeAdapter(p.inst)
        /\ adapters' = [adapters EXCEPT ![p.inst].stream = p.gen]
  /\ UNCHANGED <<settings, slot, atomics, screen, opens, catchups, sends, closes, scopes,
                 ui, agents, restored, prompt>>

PumpGivesUp(p) ==
  /\ PumpIs(p, "failed")
  /\ PumpEnds(p)
  /\ UNCHANGED pumpOnly

PumpReportsFailure(p) ==
  /\ PumpIs(p, "failed")
  /\ IF Unwanted(p) THEN PumpEnds(p) ELSE PumpGoes(p, "wait")
  /\ UNCHANGED pumpOnly

PumpSleeps(p) ==
  /\ PumpIs(p, "wait")
  /\ PumpGoes(p, "attempt")
  /\ UNCHANGED pumpOnly

(* Connected: what is on screen is resumed, or else what was saved opened. *)
Reopened(p) ==
  IF view.stored # None THEN [p EXCEPT !.pc = "resume", !.session = view.stored]
  ELSE [p EXCEPT !.pc = IF p.saved = None THEN "drain" ELSE "open"]

OpenBy(p) == [session |-> p.saved, inst |-> p.inst, by |-> p.gen, view |-> 0, got |-> {},
              pc |-> "start"]

PumpUp(p) ==
  /\ PumpIs(p, "up")
  /\ live' = TRUE
  /\ PumpBecomes(p, Reopened(p))
  /\ opens' = opens \cup (IF Reopened(p).pc = "open" THEN {OpenBy(p)} ELSE {})
  /\ UNCHANGED <<settings, adapters, slot, wanted, generation, screen, catchups, sends, closes,
                 scopes, ui, agents, restored, prompt, budget>>

CatchupOf(s, i, gen) == [session |-> s, inst |-> i, by |-> gen, got |-> {}, pc |-> "start"]

PumpResumes(p) ==
  /\ PumpIs(p, "resume") /\ FreeAdapter(p.inst)
  /\ \/ /\ SetScope(p.inst, p.session) /\ PumpGoes(p, "resumed")
        /\ UNCHANGED <<catchups, budget>>
     \/ /\ CallFails(p.inst) /\ PumpGoes(p, "catchup")
        /\ catchups' = catchups \cup {CatchupOf(p.session, p.inst, p.gen)}
        /\ UNCHANGED adapters
  /\ UNCHANGED <<settings, slot, atomics, screen, opens, sends, closes, scopes,
                 ui, agents, restored, prompt>>

PumpResumed(p) ==
  /\ PumpIs(p, "resumed")
  /\ view' = [view EXCEPT !.live = p.session]
  /\ PumpGoes(p, "catchup")
  /\ catchups' = catchups \cup {CatchupOf(p.session, p.inst, p.gen)}
  /\ UNCHANGED <<settings, adapters, slot, atomics, parked, archive, opens, sends, closes, scopes,
                 ui, agents, restored, prompt, budget>>

PumpReady(p) ==
  /\ \/ PumpIs(p, "open") /\ ~\E o \in opens : o.by = p.gen
     \/ PumpIs(p, "catchup") /\ ~\E c \in catchups : c.by = p.gen
  /\ PumpGoes(p, "drain")
  /\ UNCHANGED pumpOnly

(* One event, unless a newer pump has taken over. *)
Applies(e) ==
  \/ e = "connected" /\ UNCHANGED screen
  \/ e = "done" /\ IF AcceptsTurnEvents THEN Shows(FinishTurn) ELSE UNCHANGED screen
  \/ e = "failed" /\ FinishesTurn
  \/ e \in Session /\ view' = [view EXCEPT !.live = e] /\ UNCHANGED <<parked, archive>>

PumpDrains(p) ==
  /\ PumpIs(p, "drain") /\ p.inbox # <<>>
  /\ IF Overtaken(p) THEN PumpEnds(p) /\ UNCHANGED screen
     ELSE PumpBecomes(p, [p EXCEPT !.inbox = Tail(@)]) /\ Applies(Head(p.inbox))
  /\ UNCHANGED <<settings, adapters, slot, atomics, opens, catchups, sends, closes, scopes,
                 ui, agents, restored, prompt, budget>>

StreamEnded(p) == adapters[p.inst].stream # p.gen

KeepsTurn == UNCHANGED screen

EndsTurn == FinishesTurn

PumpLosesStream(p) ==
  /\ PumpIs(p, "drain") /\ p.inbox = <<>> /\ StreamEnded(p)
  /\ IF Overtaken(p) THEN PumpEnds(p) /\ UNCHANGED <<live, screen>>
     ELSE /\ live' = FALSE /\ EndsTurn
          /\ IF Unwanted(p) THEN PumpEnds(p) ELSE PumpGoes(p, "wait")
  /\ UNCHANGED <<settings, adapters, slot, wanted, generation, opens, catchups, sends, closes,
                 scopes, ui, agents, restored, prompt, budget>>

PumpNext ==
  \E p \in pumps :
    \/ PumpAttempts(p) \/ PumpCloses(p) \/ PumpProbes(p) \/ PumpConnects(p)
    \/ PumpReportsFailure(p) \/ PumpSleeps(p) \/ PumpUp(p) \/ PumpResumes(p) \/ PumpResumed(p)
    \/ PumpReady(p) \/ PumpDrains(p) \/ PumpLosesStream(p)

-----------------------------------------------------------------------------
(* open_on.                                                                 *)

OpenIs(o, pc) == o \in opens /\ o.pc = pc

OpenBecomes(o, q) == opens' = (opens \ {o}) \cup {q}

OpenGoes(o, pc) == OpenBecomes(o, [o EXCEPT !.pc = pc])

OpenEnds(o) == opens' = opens \ {o}

OpenSwitches(o) ==
  /\ OpenIs(o, "start")
  /\ SwitchesTo(o.session, view.backend)
  /\ OpenBecomes(o, [o EXCEPT !.pc = "history", !.view = view.gen + 1])
  /\ UNCHANGED <<settings, adapters, slot, atomics, pumps, catchups, sends, closes, scopes,
                 ui, agents, restored, prompt, budget>>

OpenFetches(o) ==
  /\ OpenIs(o, "history") /\ FreeAdapter(o.inst)
  /\ \/ /\ \E got \in Histories(o.session) : OpenBecomes(o, [o EXCEPT !.pc = "merge", !.got = got])
        /\ UNCHANGED budget
     \/ CallFails(o.inst) /\ OpenGoes(o, "resume")
  /\ UNCHANGED <<settings, adapters, slot, atomics, screen, pumps, catchups, sends, closes,
                 scopes, ui, agents, restored, prompt>>

OpenIsAnyones(o) == TRUE

OpenIsCurrent(o) == IsCurrent(o.view, o.session)

OpenMerges(o) ==
  /\ OpenIs(o, "merge")
  /\ IF OpenIsCurrent(o)
     THEN Merges(o.got) /\ OpenBecomes(o, [o EXCEPT !.pc = "resume", !.got = {}])
     ELSE OpenEnds(o) /\ UNCHANGED screen
  /\ UNCHANGED <<settings, adapters, slot, atomics, pumps, catchups, sends, closes, scopes,
                 ui, agents, restored, prompt, budget>>

(* The view is looked at once more before the mutex is waited for. *)
OpenResumes(o) ==
  /\ OpenIs(o, "resume")
  /\ \/ ~OpenIsCurrent(o) /\ OpenEnds(o) /\ UNCHANGED <<adapters, budget>>
     \/ /\ FreeAdapter(o.inst)
        /\ \/ SetScope(o.inst, o.session) /\ OpenGoes(o, "resumed") /\ UNCHANGED budget
           \/ CallFails(o.inst) /\ OpenEnds(o) /\ UNCHANGED adapters
  /\ UNCHANGED <<settings, slot, atomics, screen, pumps, catchups, sends, closes, scopes,
                 ui, agents, restored, prompt>>

OpenResumed(o) ==
  /\ OpenIs(o, "resumed")
  /\ IF OpenIsCurrent(o)
     THEN /\ view' = [view EXCEPT !.live = o.session, !.stored = o.session]
          /\ OpenEnds(o)
     ELSE /\ IF Key(view) = None THEN OpenGoes(o, "unscope") ELSE OpenEnds(o)
          /\ UNCHANGED view
  /\ UNCHANGED <<settings, adapters, slot, atomics, parked, archive, pumps, catchups, sends,
                 closes, scopes, ui, agents, restored, prompt, budget>>

OpenUnscopes(o) ==
  /\ OpenIs(o, "unscope") /\ FreeAdapter(o.inst)
  /\ IF Key(view) = None THEN SetScope(o.inst, None) ELSE UNCHANGED adapters
  /\ OpenEnds(o)
  /\ UNCHANGED <<settings, slot, atomics, screen, pumps, catchups, sends, closes, scopes,
                 ui, agents, restored, prompt, budget>>

OpenNext ==
  \E o \in opens :
    \/ OpenSwitches(o) \/ OpenFetches(o) \/ OpenMerges(o) \/ OpenResumes(o) \/ OpenResumed(o)
    \/ OpenUnscopes(o)

-----------------------------------------------------------------------------
(* catch_up_history.                                                        *)

CatchupIs(c, pc) == c \in catchups /\ c.pc = pc

CatchupEnds(c) == catchups' = catchups \ {c}

CatchupBecomes(c, q) == catchups' = (catchups \ {c}) \cup {q}

CatchupStarts(c) ==
  /\ CatchupIs(c, "start")
  /\ IF view.conv.sending THEN CatchupEnds(c) ELSE CatchupBecomes(c, [c EXCEPT !.pc = "fetch"])
  /\ UNCHANGED screen /\ UNCHANGED budget

CatchupFetches(c) ==
  /\ CatchupIs(c, "fetch") /\ FreeAdapter(c.inst)
  /\ \/ /\ \E got \in Histories(c.session) :
             CatchupBecomes(c, [c EXCEPT !.pc = "merge", !.got = got])
        /\ UNCHANGED budget
     \/ CallFails(c.inst) /\ CatchupEnds(c)
  /\ UNCHANGED screen

CatchupMerges(c) ==
  /\ CatchupIs(c, "merge")
  /\ IF Key(view) = c.session THEN Merges(c.got) ELSE UNCHANGED screen
  /\ CatchupEnds(c)
  /\ UNCHANGED budget

CatchupNext ==
  /\ \E c \in catchups : CatchupStarts(c) \/ CatchupFetches(c) \/ CatchupMerges(c)
  /\ UNCHANGED <<settings, adapters, slot, atomics, pumps, opens, sends, closes, scopes,
                 ui, agents, restored, prompt>>

-----------------------------------------------------------------------------
(* send's task, which keeps the mutex from its first check to its last.     *)

SendIs(d, pc) == d \in sends /\ d.pc = pc

SendBecomes(d, q) == sends' = (sends \ {d}) \cup {q}

Guarded(i, g) == [adapters EXCEPT ![i].guard = g]

(* Whatever goes wrong, the mutex is released and the prompt given back. *)
SendFails(d) ==
  /\ SendBecomes(d, [d EXCEPT !.pc = "restore"])
  /\ adapters' = Guarded(d.inst, 0)

CheckView(d) == view.gen = d.view

SendLocks(d) ==
  /\ SendIs(d, "lock") /\ FreeAdapter(d.inst)
  /\ IF CheckView(d)
     THEN SendBecomes(d, [d EXCEPT !.pc = "aim"]) /\ adapters' = Guarded(d.inst, d.prompt)
     ELSE SendFails(d)
  /\ UNCHANGED <<screen, taken, running, settings, restored, budget>>

(* send_target. *)
LiveOrNew(d) == IF d.live # None THEN "live" ELSE "create"

Target(d) ==
  IF d.live # None THEN "live" ELSE IF d.stored # None THEN "resume" ELSE "create"

SendAims(d) ==
  /\ SendIs(d, "aim")
  /\ \/ /\ Target(d) = "live"
        /\ SendBecomes(d, [d EXCEPT !.pc = "attach", !.session = d.live])
        /\ UNCHANGED <<adapters, budget>>
     \/ /\ Target(d) = "resume"
        /\ SendBecomes(d, [d EXCEPT !.pc = "attach", !.session = d.stored])
        /\ SetScope(d.inst, d.stored)
        /\ UNCHANGED budget
     \/ /\ Target(d) = "create"
        /\ \E s \in Session :
             /\ Owner[s] = adapters[d.inst].kind
             /\ s \notin Listed /\ \A a \in DOMAIN adapters : adapters[a].scope # s
             /\ \A p \in DOMAIN taken : taken[p] # s
             /\ SendBecomes(d, [d EXCEPT !.pc = "attach", !.session = s])
             /\ SetScope(d.inst, s)
        /\ UNCHANGED budget
     \/ Target(d) = "resume" /\ CallFails(d.inst) /\ SendFails(d)
     \/ /\ Target(d) = "create" /\ CallFails(d.inst)
        /\ SendBecomes(d, [d EXCEPT !.pc = "restore"])
        /\ adapters' = [adapters EXCEPT ![d.inst].guard = 0, ![d.inst].scope = None]
  /\ UNCHANGED <<screen, taken, running, settings, restored>>

(* A live session keeps the stored id it was read with. *)
StoredAs(d) == IF d.live # None /\ d.stored # None THEN d.stored ELSE d.session

SendAttaches(d) ==
  /\ SendIs(d, "attach")
  /\ IF CheckView(d)
     THEN /\ Shows([view EXCEPT !.live = d.session, !.stored = StoredAs(d)])
          /\ SendBecomes(d, [d EXCEPT !.pc = "submit"])
          /\ settings' = [settings EXCEPT
                            !.saved = [backend |-> settings.kind, id |-> d.session]]
          /\ UNCHANGED adapters
     ELSE SendFails(d) /\ UNCHANGED <<screen, settings>>
  /\ UNCHANGED <<taken, running, restored, budget>>

Takes(d) ==
  /\ taken' = [p \in DOMAIN taken \cup {d.prompt} |->
                 IF p = d.prompt THEN d.session ELSE taken[p]]
  /\ running' = running \cup {d.session}

(* A call that fails may have been heard: then only its answer was lost.    *)
SendSubmits(d) ==
  /\ SendIs(d, "submit")
  /\ \/ /\ Takes(d)
        /\ sends' = sends \ {d} /\ adapters' = Guarded(d.inst, 0)
        /\ UNCHANGED budget
     \/ /\ CallFails(d.inst) /\ SendFails(d)
        /\ Takes(d) \/ UNCHANGED agents
  /\ UNCHANGED <<screen, settings, restored>>

(* restore_prompt: found on screen or among what is parked, or not at all,  *)
(* as when a history has put a message of another id in the place of the    *)
(* prompt the agent took.                                                   *)
OnlyStopped(c, p) == [c EXCEPT !.sending = FALSE]

TakenOut(c, p) == IF p \in c.shown THEN [shown |-> c.shown \ {p}, sending |-> FALSE] ELSE c

SendRestores(d) ==
  /\ SendIs(d, "restore")
  /\ LET holders == {k \in DOMAIN parked : d.prompt \in parked[k].shown} IN
     \/ /\ d.prompt \in view.conv.shown
        /\ Shows([view EXCEPT !.conv = TakenOut(@, d.prompt)])
        /\ restored' = restored \cup {d.prompt}
     \/ /\ d.prompt \notin view.conv.shown
        /\ \E k \in holders :
             /\ parked' = [parked EXCEPT ![k] = TakenOut(@, d.prompt)]
             /\ archive' = Recorded(view, parked')
        /\ restored' = restored \cup {d.prompt}
        /\ UNCHANGED view
     \/ /\ \/ d.prompt \notin view.conv.shown /\ holders = {}
           \/ d.prompt \in DOMAIN taken
        /\ UNCHANGED <<screen, restored>>
  /\ sends' = sends \ {d}
  /\ UNCHANGED <<adapters, taken, running, settings, budget>>

SendNext ==
  /\ \E d \in sends :
       \/ SendLocks(d) \/ SendAims(d) \/ SendAttaches(d) \/ SendSubmits(d) \/ SendRestores(d)
  /\ UNCHANGED <<slot, atomics, pumps, opens, catchups, closes, scopes, ui, prompt>>
=============================================================================
