------------------------ MODULE DesktopRoutingProofs ------------------------
(***************************************************************************)
(* A prompt reaches the conversation it was sent from.  The inductive      *)
(* invariant is RoutingInv (module DesktopRouting): locks are exclusive,   *)
(* what is on screen is one session, nothing is announced, and every       *)
(* delivery is aimed at its own conversation for as long as its view lasts. *)
(* First the locks: one is taken free, goes through ensure_stream with its *)
(* holder and is dropped once, so LockInv is an invariant by itself.       *)
(*                                                                         *)
(* And whose replies are drawn.  No stranger's: a reply on screen passed   *)
(* the filter of an adapter, and what a filter lets through is a session   *)
(* this client opened or created.  KnownInv follows such a session from    *)
(* the task that asks for it to the filter, from there into a channel, and *)
(* onto the screen.  And no other backend's: an adapter that was switched  *)
(* away from is not listened to, or lets nothing through (OursInv).        *)
(***************************************************************************)
EXTENDS DesktopRouting, DesktopTypeProofs

USE DEF viewVars, connVars, turnVars, historyVars, textVars

-----------------------------------------------------------------------------
(* The locks.                                                               *)

(* No guard moves.                                                        *)
GuardsStay ==
  /\ Adapters' = Adapters
  /\ \A i \in Adapters : backends'[i].guard = backends[i].guard

(* No task loses the lock it holds.                                        *)
HeldStays ==
  /\ Adapters \subseteq Adapters'
  /\ \A i \in Adapters : backends[i].guard = "held" => backends'[i].guard = "held"

(* A guard moves: the adapters stay, and so does every other guard.        *)
LEMMA HeldMoves ==
  ASSUME TypeOK, NEW i, NEW g, Held(i, g)
  PROVE  /\ Adapters' = Adapters /\ Current' = Current
         /\ \A j \in Adapters : backends'[j].guard = IF j = i THEN g ELSE backends[j].guard
<1>1. Adapters' = Adapters /\ Current' = Current
  BY DEF TypeOK, AdaptersTypeOK, Held, Adapters, Current
<1>2. ASSUME NEW j \in Adapters
      PROVE  backends'[j].guard = IF j = i THEN g ELSE backends[j].guard
  <2>1. backends[j] \in Adapter
    BY AdapterTyped
  <2>2. CASE j = i
    BY <2>1, <2>2 DEF TypeOK, AdaptersTypeOK, Held, Adapters, Adapter
  <2>3. CASE j # i
    BY <2>3 DEF TypeOK, AdaptersTypeOK, Held, Adapters
  <2>4. QED
    BY <2>2, <2>3
<1>3. QED
  BY <1>1, <1>2

(* A filter is set: no guard moves.                                        *)
LEMMA ScopedMoves ==
  ASSUME TypeOK, NEW i, NEW ids, Scoped(i, ids)
  PROVE  /\ Adapters' = Adapters /\ Current' = Current
         /\ \A j \in Adapters : backends'[j].guard = backends[j].guard
<1>1. Adapters' = Adapters /\ Current' = Current
  BY DEF TypeOK, AdaptersTypeOK, Scoped, Adapters, Current
<1>2. ASSUME NEW j \in Adapters
      PROVE  backends'[j].guard = backends[j].guard
  <2>1. backends[j] \in Adapter
    BY AdapterTyped
  <2>2. QED
    BY <2>1 DEF TypeOK, AdaptersTypeOK, Scoped, Adapters, Adapter
<1>3. QED
  BY <1>1, <1>2

(* Locks that are held stay held, and whoever is new holds none.           *)
LEMMA LocksKept ==
  ASSUME LockInv, HeldStays,
         \A o \in opens' :
           o \in opens \/ (~OpenHolds(o) /\ (OpenHasAdapter(o) => o.inst \in Adapters)),
         \A d \in delivers' :
           d \in delivers \/ (~DeliverHolds(d) /\ (DeliverHasAdapter(d) => d.inst \in Adapters))
  PROVE  LockInv'
BY DEF LockInv, HeldStays, OpenHasAdapter, DeliverHasAdapter

(* The holder of an adapter's lock lets go of it.                          *)
LEMMA LocksReleased ==
  ASSUME LockInv, NEW i, Adapters' = Adapters,
         \A j \in Adapters : j # i => backends'[j].guard = backends[j].guard,
         \A o \in opens' : \/ o \in opens /\ ~(OpenHolds(o) /\ o.inst = i)
                           \/ ~OpenHasAdapter(o),
         \A d \in delivers' : \/ d \in delivers /\ ~(DeliverHolds(d) /\ d.inst = i)
                              \/ ~DeliverHasAdapter(d)
  PROVE  LockInv'
BY DEF LockInv, OpenHasAdapter, DeliverHasAdapter

(* An open that was alone in ensure_stream comes out of it with the lock.  *)
LEMMA OpenTakesLock ==
  ASSUME LockInv, NEW o \in opens, NEW q, OpenHolds(q), q.inst \in Adapters,
         Adapters' = Adapters, backends[q.inst].guard # "held",
         \A j \in Adapters : backends'[j].guard = IF j = q.inst THEN "held" ELSE backends[j].guard,
         opens' = (opens \ {o}) \cup {q}, UNCHANGED delivers
  PROVE  LockInv'
BY DEF LockInv, OpenHasAdapter, DeliverHasAdapter

(* An open goes on with the lock it holds.                                 *)
LEMMA OpenKeepsLock ==
  ASSUME LockInv, NEW o \in opens, NEW q, OpenHolds(o), OpenHolds(q), q.inst = o.inst,
         GuardsStay, opens' = (opens \ {o}) \cup {q}, UNCHANGED delivers
  PROVE  LockInv'
BY DEF LockInv, OpenHasAdapter, DeliverHasAdapter, GuardsStay

(* A delivery that was alone in ensure_stream comes out of it with the lock. *)
LEMMA DeliverTakesLock ==
  ASSUME LockInv, NEW d \in delivers, NEW e, DeliverHolds(e), e.inst \in Adapters,
         Adapters' = Adapters, backends[e.inst].guard # "held",
         \A j \in Adapters : backends'[j].guard = IF j = e.inst THEN "held" ELSE backends[j].guard,
         delivers' = (delivers \ {d}) \cup {e}, UNCHANGED opens
  PROVE  LockInv'
BY DEF LockInv, OpenHasAdapter, DeliverHasAdapter

(* A delivery goes on with the lock it holds.                              *)
LEMMA DeliverKeepsLock ==
  ASSUME LockInv, NEW d \in delivers, NEW e, DeliverHolds(d), DeliverHolds(e), e.inst = d.inst,
         GuardsStay, delivers' = (delivers \ {d}) \cup {e}, UNCHANGED opens
  PROVE  LockInv'
BY DEF LockInv, OpenHasAdapter, DeliverHasAdapter, GuardsStay

(* Neither an adapter nor a task that may hold one changes.                *)
LEMMA LocksUntouched ==
  ASSUME LockInv, UNCHANGED <<backends, opens, delivers>>
  PROVE  LockInv'
BY DEF LockInv, Adapters

(* A guard that no open or delivery holds moves.                           *)
LEMMA OtherGuardMoves ==
  ASSUME TypeOK, NEW i, NEW g, Held(i, g), i \in Adapters => backends[i].guard # "held"
  PROVE  HeldStays
BY HeldMoves DEF HeldStays

(* One adapter's record is replaced.                                       *)
LEMMA AdapterRewritten ==
  ASSUME TypeOK, NEW i \in Adapters, NEW b, backends' = [backends EXCEPT ![i] = b]
  PROVE  /\ Adapters' = Adapters /\ Current' = Current
         /\ \A j \in Adapters : backends'[j] = IF j = i THEN b ELSE backends[j]
BY DEF TypeOK, AdaptersTypeOK, Adapters, Current

(* What a delivery is after a step, field by field.                        *)
LEMMA DeliverMoves ==
  ASSUME TypeOK, NEW d \in delivers, NEW pc, NEW x
  PROVE  /\ [d EXCEPT !.pc = pc].pc = pc /\ [d EXCEPT !.pc = pc].inst = d.inst
         /\ [d EXCEPT !.pc = pc].view = d.view /\ [d EXCEPT !.pc = pc].home = d.home
         /\ [d EXCEPT !.pc = pc].target = d.target
         /\ [d EXCEPT !.pc = pc, !.target = x].pc = pc
         /\ [d EXCEPT !.pc = pc, !.target = x].inst = d.inst
         /\ [d EXCEPT !.pc = pc, !.target = x].view = d.view
         /\ [d EXCEPT !.pc = pc, !.target = x].home = d.home
         /\ [d EXCEPT !.pc = pc, !.target = x].target = x
         /\ [d EXCEPT !.pc = pc, !.inst = x].pc = pc
         /\ [d EXCEPT !.pc = pc, !.inst = x].inst = x
         /\ [d EXCEPT !.pc = pc, !.inst = x].view = d.view
         /\ [d EXCEPT !.pc = pc, !.inst = x].home = d.home
         /\ [d EXCEPT !.pc = pc, !.inst = x].target = d.target
<1>1. d \in DeliverTask
  BY DEF TypeOK, TasksTypeOK
<1>2. QED
  BY <1>1 DEF DeliverTask

(* What an open is after a step, field by field.                           *)
LEMMA OpenMoves ==
  ASSUME TypeOK, NEW o \in opens, NEW pc, NEW x
  PROVE  /\ [o EXCEPT !.pc = pc].pc = pc /\ [o EXCEPT !.pc = pc].inst = o.inst
         /\ [o EXCEPT !.pc = pc, !.inst = x].pc = pc
         /\ [o EXCEPT !.pc = pc, !.inst = x].inst = x
         /\ [o EXCEPT !.pc = pc, !.gen = x].pc = pc
<1>1. o \in OpenTask
  BY DEF TypeOK, TasksTypeOK
<1>2. QED
  BY <1>1 DEF OpenTask

(* open() spawns a task that holds no lock.                                *)
LEMMA LocksAfterOpen ==
  ASSUME TypeOK, LockInv, NEW s, Open(s), UNCHANGED <<backends, delivers>>
  PROVE  LockInv'
<1>1. HeldStays
  BY DEF HeldStays, Adapters
<1>2. QED
  BY <1>1, LocksKept DEF Open, OpenHolds, OpenHasAdapter

(* send() spawns a task that holds no lock.                                *)
LEMMA LocksAfterSend ==
  ASSUME TypeOK, LockInv, NEW text, Send(text), UNCHANGED <<backends, opens>>
  PROVE  LockInv'
<1>1. HeldStays
  BY DEF HeldStays, Adapters
<1>2. QED
  BY <1>1, LocksKept DEF Send, DeliverHolds, DeliverHasAdapter

(* An open goes from one await to the next under its lock (sessions.rs:165-197). *)
LEMMA OpenStepsOn ==
  ASSUME TypeOK, LockInv, NEW o \in opens, OpenHolds(o), GuardsStay, UNCHANGED delivers,
         NEW pc \in {"history", "resume", "resumed", "refused"}, OpenIs(o, pc)
  PROVE  LockInv'
<1> DEFINE q == [o EXCEPT !.pc = pc]
<1>1. OpenHolds(q) /\ q.inst = o.inst
  BY OpenMoves DEF OpenHolds
<1>2. opens' = (opens \ {o}) \cup {q}
  BY DEF OpenIs
<1> HIDE DEF q
<1>3. QED
  BY <1>1, <1>2, OpenKeepsLock

(* A connect takes only a free lock, and gives it back.                    *)
LEMMA ConnectTasksKeepLocks ==
  ASSUME TypeOK, LockInv, ConnectTaskNext
  PROVE  LockInv'
<1> PICK c \in connects :
      \/ ConnectProbed(c) \/ ConnectAttach(c) \/ ConnectEnsured(c)
      \/ ConnectRetry(c) \/ ConnectReopen(c) \/ ConnectOpen(c)
  BY DEF ConnectTaskNext
<1>1. CASE ConnectProbed(c) \/ ConnectRetry(c) \/ ConnectReopen(c)
  BY <1>1, LocksUntouched DEF ConnectProbed, ConnectRetry, ConnectReopen
<1>2. CASE ConnectAttach(c)
  <2>1. CASE Held(Current, "begin") /\ Free(Current)
    BY <1>2, <2>1, OtherGuardMoves, LocksKept DEF ConnectAttach, Free
  <2>2. CASE UNCHANGED backends
    BY <1>2, <2>2, LocksUntouched DEF ConnectAttach
  <2>3. QED
    BY <1>2, <2>1, <2>2 DEF ConnectAttach
<1>3. CASE ConnectEnsured(c)
  BY <1>3, OtherGuardMoves, LocksKept DEF ConnectEnsured
<1>4. CASE ConnectOpen(c)
  <2>1. CASE Reopens(c.session)
    BY <1>4, <2>1, LocksAfterOpen DEF ConnectOpen
  <2>2. CASE ~Reopens(c.session)
    BY <1>4, <2>2, LocksUntouched DEF ConnectOpen
  <2>3. QED
    BY <2>1, <2>2
<1>5. QED
  BY <1>1, <1>2, <1>3, <1>4

(* ensure_stream runs on an adapter whose lock is not past it.             *)
LEMMA EnsureKeepsLocks ==
  ASSUME TypeOK, LockInv, EnsureStreamNext
  PROVE  LockInv'
<1> PICK i \in Adapters : EnsureBegin(i) \/ EnsureDial(i) \/ EnsureSettle(i)
  BY DEF EnsureStreamNext
<1>1. UNCHANGED <<opens, delivers>>
  BY DEF EnsureBegin, EnsureDial, EnsureSettle
<1>2. backends[i].guard # "held"
  BY DEF EnsureBegin, EnsureDial, EnsureSettle
<1>3. (\E g : Held(i, g)) \/ (\E b : backends' = [backends EXCEPT ![i] = b])
  BY DEF EnsureBegin, EnsureDial, EnsureSettle
<1>4. HeldStays
  BY <1>2, <1>3, OtherGuardMoves, AdapterRewritten DEF HeldStays
<1>5. QED
  BY <1>1, <1>4, LocksKept

(* An open takes a free lock, keeps it past ensure_stream and drops it once. *)
LEMMA OpenTasksKeepLocks ==
  ASSUME TypeOK, LockInv, OpenTaskNext
  PROVE  LockInv'
<1> PICK o \in opens :
      \/ OpenAttach(o) \/ OpenEnsured(o) \/ OpenHistory(o) \/ OpenResume(o)
      \/ OpenResumed(o) \/ OpenStreamLost(o) \/ OpenRetry(o)
  BY DEF OpenTaskNext
<1> UNCHANGED delivers
  BY DEF OpenAttach, OpenEnsured, OpenHistory, OpenResume, OpenResumed, OpenStreamLost, OpenRetry
<1>0. OpenHolds(o) => \A p \in opens \ {o} : ~(OpenHolds(p) /\ p.inst = o.inst)
  BY DEF LockInv
<1>00. OpenHolds(o) => \A d \in delivers : ~(DeliverHolds(d) /\ d.inst = o.inst)
  BY DEF LockInv
<1>1. CASE OpenAttach(o)
  <2> DEFINE q == [o EXCEPT !.pc = "ensure", !.inst = Current]
  <2>1. CASE Held(Current, "begin") /\ Free(Current) /\ opens' = (opens \ {o}) \cup {q}
    <3>1. HeldStays
      BY <2>1, OtherGuardMoves DEF Free
    <3>2. ~OpenHolds(q) /\ q.inst \in Adapters
      BY OpenMoves, CurrentTyped DEF OpenHolds
    <3> HIDE DEF q
    <3>3. QED
      BY <2>1, <3>1, <3>2, LocksKept
  <2>2. CASE UNCHANGED backends /\ opens' = opens \ {o}
    <3>1. HeldStays
      BY <2>2 DEF HeldStays, Adapters
    <3>2. QED
      BY <2>2, <3>1, LocksKept
  <2>3. QED
    BY <1>1, <2>1, <2>2 DEF OpenAttach
<1>2. CASE OpenEnsured(o)
  <2> o.inst \in Adapters
    BY <1>2 DEF OpenEnsured, LockInv, OpenHasAdapter
  <2>1. CASE backends[o.inst].guard = "ok" /\ Held(o.inst, "held") /\ OpenIs(o, "history")
    <3> DEFINE q == [o EXCEPT !.pc = "history"]
    <3>1. OpenHolds(q) /\ q.inst = o.inst
      BY OpenMoves DEF OpenHolds
    <3>2. opens' = (opens \ {o}) \cup {q}
      BY <2>1 DEF OpenIs
    <3> HIDE DEF q
    <3>3. QED
      BY <2>1, <3>1, <3>2, OpenTakesLock, HeldMoves
  <2>2. CASE backends[o.inst].guard = "failed" /\ Held(o.inst, "free") /\ OpenIs(o, "lost")
    <3> DEFINE q == [o EXCEPT !.pc = "lost"]
    <3>1. HeldStays
      BY <2>2, OtherGuardMoves
    <3>2. ~OpenHasAdapter(q) /\ ~OpenHolds(q)
      BY OpenMoves DEF OpenHasAdapter, OpenHolds
    <3>3. opens' = (opens \ {o}) \cup {q}
      BY <2>2 DEF OpenIs
    <3> HIDE DEF q
    <3>4. QED
      BY <3>1, <3>2, <3>3, LocksKept
  <2>3. QED
    BY <1>2, <2>1, <2>2 DEF OpenEnsured
<1>3. CASE OpenHistory(o)
  <2>1. CASE opens' = opens \ {o} /\ Held(o.inst, "free")
    BY <1>3, <2>1, <1>0, <1>00, LocksReleased, HeldMoves DEF OpenHistory, OpenHolds
  <2>2. CASE UNCHANGED backends /\ OpenIs(o, "resume")
    BY <1>3, <2>2, OpenStepsOn DEF OpenHistory, OpenHolds, GuardsStay, Adapters
  <2>3. QED
    BY <1>3, <2>1, <2>2 DEF OpenHistory
<1>4. CASE OpenResume(o)
  <2>1. CASE opens' = opens \ {o} /\ Held(o.inst, "free")
    BY <1>4, <2>1, <1>0, <1>00, LocksReleased, HeldMoves DEF OpenResume, OpenHolds
  <2>2. CASE /\ UNCHANGED backends \/ Scoped(o.inst, {o.session})
             /\ OpenIs(o, "resumed") \/ OpenIs(o, "refused")
    <3>1. GuardsStay
      BY <2>2, ScopedMoves DEF GuardsStay, Adapters
    <3>2. QED
      BY <1>4, <2>2, <3>1, OpenStepsOn DEF OpenResume, OpenHolds
  <2>3. QED
    BY <1>4, <2>1, <2>2 DEF OpenResume
<1>5. CASE OpenResumed(o)
  <2>1. o.inst \in Adapters
    BY <1>5 DEF OpenResumed, LockInv, OpenHasAdapter, OpenHolds
  <2>2. Held(o.inst, "free") \/ \E b : backends' = [backends EXCEPT ![o.inst] = b]
    BY <1>5 DEF OpenResumed
  <2>3. /\ Adapters' = Adapters
        /\ \A j \in Adapters : j # o.inst => backends'[j].guard = backends[j].guard
    BY <2>1, <2>2, HeldMoves, AdapterRewritten
  <2>4. QED
    BY <1>5, <2>3, <1>0, <1>00, LocksReleased DEF OpenResumed, OpenHolds
<1>6. CASE OpenStreamLost(o) \/ OpenRetry(o)
  <2>1. HeldStays
    BY <1>6 DEF OpenStreamLost, OpenRetry, HeldStays, Adapters
  <2> DEFINE q == [o EXCEPT !.pc = "retry", !.gen = connect_generation]
  <2>2. ~OpenHasAdapter(q) /\ ~OpenHolds(q)
    BY OpenMoves DEF OpenHasAdapter, OpenHolds
  <2>3. opens' \subseteq opens \cup {q}
    BY <1>6 DEF OpenStreamLost, OpenRetry
  <2> HIDE DEF q
  <2>4. QED
    BY <2>1, <2>2, <2>3, LocksKept
<1>7. QED
  BY <1>1, <1>2, <1>3, <1>4, <1>5, <1>6

(* A delivery takes no lock, goes on under its own, or lets go of it.      *)
LEMMA DeliverStepsOn ==
  ASSUME TypeOK, LockInv, NEW d \in delivers, UNCHANGED opens, NEW e,
         delivers' = (delivers \ {d}) \cup {e}, e.inst = d.inst,
         \/ HeldStays /\ ~DeliverHolds(e) /\ (e.pc = "ensure" => d.inst \in Adapters)
            /\ ~(e.pc = "lock")
         \/ GuardsStay /\ DeliverHolds(d) /\ DeliverHolds(e)
         \/ DeliverHolds(d) /\ Held(d.inst, "free") /\ ~DeliverHasAdapter(e)
  PROVE  LockInv'
<1>1. CASE HeldStays /\ ~DeliverHolds(e) /\ (e.pc = "ensure" => d.inst \in Adapters)
           /\ ~(e.pc = "lock")
  BY <1>1, LocksKept DEF DeliverHasAdapter
<1>2. CASE GuardsStay /\ DeliverHolds(d) /\ DeliverHolds(e)
  BY <1>2, DeliverKeepsLock
<1>3. CASE DeliverHolds(d) /\ Held(d.inst, "free") /\ ~DeliverHasAdapter(e)
  <2>1. /\ \A o \in opens : ~(OpenHolds(o) /\ o.inst = d.inst)
        /\ \A f \in delivers \ {d} : ~(DeliverHolds(f) /\ f.inst = d.inst)
    BY <1>3 DEF LockInv
  <2>2. QED
    BY <1>3, <2>1, LocksReleased, HeldMoves
<1>4. QED
  BY <1>1, <1>2, <1>3

(* A delivery ends, and its lock is free again.                            *)
LEMMA DeliverEnds ==
  ASSUME TypeOK, LockInv, NEW d \in delivers, UNCHANGED opens, delivers' = delivers \ {d},
         HeldStays \/ (DeliverHolds(d) /\ Held(d.inst, "free"))
  PROVE  LockInv'
<1>1. CASE HeldStays
  BY <1>1, LocksKept
<1>2. CASE DeliverHolds(d) /\ Held(d.inst, "free")
  <2>1. /\ \A o \in opens : ~(OpenHolds(o) /\ o.inst = d.inst)
        /\ \A f \in delivers \ {d} : ~(DeliverHolds(f) /\ f.inst = d.inst)
    BY <1>2 DEF LockInv
  <2>2. QED
    BY <1>2, <2>1, LocksReleased, HeldMoves
<1>3. QED
  BY <1>1, <1>2

(* A delivery comes out of ensure_stream with the lock, or without it.     *)
LEMMA AimingKeepsLocks ==
  ASSUME TypeOK, LockInv, NEW d \in delivers, DeliverAims(d)
  PROVE  LockInv'
<1>1. d.inst \in Adapters
  BY DEF DeliverAims, LockInv, DeliverHasAdapter
<1>2. CASE Held(d.inst, "free") /\ DeliverIs(d, "back") /\ backends[d.inst].guard # "held"
  <2> DEFINE e == [d EXCEPT !.pc = "back"]
  <2>1. e.inst = d.inst /\ ~DeliverHolds(e) /\ e.pc = "back"
    BY DeliverMoves DEF DeliverHolds
  <2>2. delivers' = (delivers \ {d}) \cup {e} /\ HeldStays
    BY <1>2, OtherGuardMoves DEF DeliverIs
  <2> HIDE DEF e
  <2>3. QED
    BY <2>1, <2>2, DeliverStepsOn DEF DeliverAims
<1>3. ASSUME backends[d.inst].guard # "held", NEW e, DeliverHolds(e), e.inst = d.inst,
             delivers' = (delivers \ {d}) \cup {e},
             \/ Held(d.inst, "held")
             \/ backends' = [backends EXCEPT ![d.inst].guard = "held", ![d.inst].scope = {}]
      PROVE  LockInv'
  <2>1. /\ Adapters' = Adapters
        /\ \A j \in Adapters :
             backends'[j].guard = IF j = d.inst THEN "held" ELSE backends[j].guard
    <3>1. CASE Held(d.inst, "held")
      BY <3>1, HeldMoves
    <3>2. CASE backends' = [backends EXCEPT ![d.inst].guard = "held", ![d.inst].scope = {}]
      BY <1>1, <3>2, AdapterTyped DEF TypeOK, AdaptersTypeOK, Adapters, Adapter
    <3>3. QED
      BY <1>3, <3>1, <3>2
  <2>2. UNCHANGED opens
    BY DEF DeliverAims
  <2>3. QED
    BY <1>1, <1>3, <2>1, <2>2, DeliverTakesLock
<1>4. CASE /\ backends[d.inst].guard = "ok"
           /\ Held(d.inst, "held")
           /\ delivers' = (delivers \ {d}) \cup {[d EXCEPT !.pc = "submit", !.target = live]}
  <2> DEFINE e == [d EXCEPT !.pc = "submit", !.target = live]
  <2>1. DeliverHolds(e) /\ e.inst = d.inst
    BY DeliverMoves DEF DeliverHolds
  <2> HIDE DEF e
  <2>2. QED
    BY <1>3, <1>4, <2>1 DEF e
<1>5. CASE /\ backends[d.inst].guard = "ok"
           /\ Held(d.inst, "held")
           /\ delivers' = (delivers \ {d}) \cup {[d EXCEPT !.pc = "resume", !.target = stored]}
  <2> DEFINE e == [d EXCEPT !.pc = "resume", !.target = stored]
  <2>1. DeliverHolds(e) /\ e.inst = d.inst
    BY DeliverMoves DEF DeliverHolds
  <2> HIDE DEF e
  <2>2. QED
    BY <1>3, <1>5, <2>1 DEF e
<1>6. CASE /\ backends[d.inst].guard = "ok"
           /\ backends' = [backends EXCEPT ![d.inst].guard = "held", ![d.inst].scope = {}]
           /\ DeliverIs(d, "create")
  <2> DEFINE e == [d EXCEPT !.pc = "create"]
  <2>1. DeliverHolds(e) /\ e.inst = d.inst
    BY DeliverMoves DEF DeliverHolds
  <2>2. delivers' = (delivers \ {d}) \cup {e}
    BY <1>6 DEF DeliverIs
  <2> HIDE DEF e
  <2>3. QED
    BY <1>3, <1>6, <2>1, <2>2
<1>7. QED
  BY <1>2, <1>4, <1>5, <1>6 DEF DeliverAims

(* The other steps of a delivery.                                          *)
LEMMA DeliverTasksKeepLocks ==
  ASSUME TypeOK, LockInv, NEW d \in delivers,
         \/ DeliverChecks(d) \/ DeliverConnects(d) \/ DeliverWaits(d)
         \/ DeliverReadsBackend(d) \/ DeliverLocks(d) \/ DeliverResumes(d) \/ DeliverCreates(d)
         \/ DeliverAttaches(d) \/ DeliverSubmits(d) \/ DeliverTakesBack(d)
  PROVE  LockInv'
<1>0. UNCHANGED opens
  BY DEF DeliverChecks, DeliverConnects, DeliverWaits, DeliverReadsBackend, DeliverLocks,
         DeliverResumes, DeliverCreates, DeliverAttaches, DeliverSubmits, DeliverTakesBack
<1>1. ASSUME NEW pc \in {"connect", "wait", "ready", "back"}, DeliverIs(d, pc),
             UNCHANGED backends
      PROVE  LockInv'
  <2> DEFINE e == [d EXCEPT !.pc = pc]
  <2>1. e.inst = d.inst /\ ~DeliverHolds(e) /\ e.pc # "ensure" /\ e.pc # "lock"
    BY DeliverMoves DEF DeliverHolds
  <2>2. delivers' = (delivers \ {d}) \cup {e} /\ HeldStays
    BY <1>1 DEF DeliverIs, HeldStays, Adapters
  <2> HIDE DEF e
  <2>3. QED
    BY <1>0, <2>1, <2>2, DeliverStepsOn
<1>2. CASE DeliverChecks(d) \/ DeliverConnects(d) \/ DeliverWaits(d)
  BY <1>1, <1>2 DEF DeliverChecks, DeliverConnects, DeliverWaits
<1>3. CASE DeliverReadsBackend(d)
  <2> DEFINE e == [d EXCEPT !.pc = "lock", !.inst = Current]
  <2>1. ~DeliverHolds(e) /\ e.inst \in Adapters
    BY DeliverMoves, CurrentTyped DEF DeliverHolds
  <2>2. delivers' = (delivers \ {d}) \cup {e} /\ HeldStays
    BY <1>3 DEF DeliverReadsBackend, HeldStays, Adapters
  <2> HIDE DEF e
  <2>3. QED
    BY <1>0, <2>1, <2>2, LocksKept
<1>4. CASE DeliverLocks(d)
  <2> DEFINE e == [d EXCEPT !.pc = "ensure"]
  <2>1. e.inst = d.inst /\ ~DeliverHolds(e) /\ e.pc # "lock"
    BY DeliverMoves DEF DeliverHolds
  <2>2. delivers' = (delivers \ {d}) \cup {e} /\ HeldStays
    BY <1>4, OtherGuardMoves DEF DeliverLocks, DeliverIs, Free
  <2>3. d.inst \in Adapters
    BY <1>4 DEF DeliverLocks, LockInv, DeliverHasAdapter
  <2> HIDE DEF e
  <2>4. QED
    BY <1>0, <2>1, <2>2, <2>3, DeliverStepsOn
<1>5. ASSUME NEW pc \in {"resume", "resumed", "create", "created", "submit"}, DeliverHolds(d),
             DeliverIs(d, pc), GuardsStay
      PROVE  LockInv'
  <2> DEFINE e == [d EXCEPT !.pc = pc]
  <2>1. e.inst = d.inst /\ DeliverHolds(e)
    BY DeliverMoves DEF DeliverHolds
  <2>2. delivers' = (delivers \ {d}) \cup {e}
    BY <1>5 DEF DeliverIs
  <2> HIDE DEF e
  <2>3. QED
    BY <1>0, <1>5, <2>1, <2>2, DeliverStepsOn
<1>6. ASSUME DeliverHolds(d), DeliverIs(d, "back"), Held(d.inst, "free")
      PROVE  LockInv'
  <2> DEFINE e == [d EXCEPT !.pc = "back"]
  <2>1. e.inst = d.inst /\ ~DeliverHasAdapter(e)
    BY DeliverMoves DEF DeliverHolds, DeliverHasAdapter
  <2>2. delivers' = (delivers \ {d}) \cup {e}
    BY <1>6 DEF DeliverIs
  <2> HIDE DEF e
  <2>3. QED
    BY <1>0, <1>6, <2>1, <2>2, DeliverStepsOn
<1>7. CASE DeliverResumes(d)
  <2>1. DeliverHolds(d)
    BY <1>7 DEF DeliverResumes, DeliverHolds
  <2>2. CASE Scoped(d.inst, {d.target}) /\ DeliverIs(d, "resumed")
    BY <1>5, <2>1, <2>2, ScopedMoves DEF GuardsStay
  <2>3. CASE Held(d.inst, "free") /\ DeliverIs(d, "back")
    BY <1>6, <2>1, <2>3
  <2>4. QED
    BY <1>7, <2>2, <2>3 DEF DeliverResumes
<1>8. CASE DeliverCreates(d)
  <2>1. DeliverHolds(d)
    BY <1>8 DEF DeliverCreates, DeliverHolds
  <2>2. ASSUME NEW s \in Session, Scoped(d.inst, {s}),
               delivers' = (delivers \ {d}) \cup {[d EXCEPT !.pc = "created", !.target = s]}
        PROVE  LockInv'
    <3> DEFINE e == [d EXCEPT !.pc = "created", !.target = s]
    <3>1. e.inst = d.inst /\ DeliverHolds(e)
      BY DeliverMoves DEF DeliverHolds
    <3>2. GuardsStay
      BY <2>2, ScopedMoves DEF GuardsStay
    <3> HIDE DEF e
    <3>3. QED
      BY <1>0, <2>1, <2>2, <3>1, <3>2, DeliverStepsOn DEF e
  <2>3. CASE Held(d.inst, "free") /\ DeliverIs(d, "back")
    BY <1>6, <2>1, <2>3
  <2>4. QED
    BY <1>8, <2>2, <2>3 DEF DeliverCreates
<1>9. CASE DeliverAttaches(d)
  <2>1. DeliverHolds(d)
    BY <1>9 DEF DeliverAttaches, DeliverHolds
  <2>2. CASE Held(d.inst, "free") /\ DeliverIs(d, "back")
    BY <1>6, <2>1, <2>2
  <2>3. CASE UNCHANGED backends /\ DeliverIs(d, "submit")
    BY <1>5, <2>1, <2>3 DEF GuardsStay, Adapters
  <2>4. QED
    BY <1>9, <2>2, <2>3 DEF DeliverAttaches
<1>10. CASE DeliverSubmits(d)
  <2>1. DeliverHolds(d) /\ Held(d.inst, "free")
    BY <1>10 DEF DeliverSubmits, DeliverHolds
  <2>2. CASE delivers' = delivers \ {d}
    BY <1>0, <2>1, <2>2, DeliverEnds
  <2>3. CASE DeliverIs(d, "back")
    BY <1>6, <2>1, <2>3
  <2>4. QED
    BY <1>10, <2>2, <2>3 DEF DeliverSubmits
<1>11. CASE DeliverTakesBack(d)
  BY <1>0, <1>11, DeliverEnds DEF DeliverTakesBack, HeldStays, Adapters
<1>12. QED
  BY <1>2, <1>3, <1>4, <1>7, <1>8, <1>9, <1>10, <1>11

(* An adapter's record changes, its guard apart.                           *)
LEMMA LocksRewritten ==
  ASSUME TypeOK, LockInv, NEW i \in Adapters, NEW b, backends' = [backends EXCEPT ![i] = b],
         b.guard = backends[i].guard, UNCHANGED <<opens, delivers>>
  PROVE  LockInv'
<1>1. Adapters' = Adapters /\ \A j \in Adapters : backends'[j] = IF j = i THEN b ELSE backends[j]
  BY AdapterRewritten
<1>2. ASSUME NEW j \in Adapters, backends[j].guard = "held"
      PROVE  backends'[j].guard = "held"
  <2>1. CASE j = i
    BY <1>1, <1>2, <2>1
  <2>2. CASE j # i
    BY <1>1, <1>2, <2>2
  <2>3. QED
    BY <2>1, <2>2
<1>3. HeldStays
  BY <1>1, <1>2 DEF HeldStays
<1>4. QED
  BY <1>3, LocksKept

(* Commands, streams and the tasks that close or unscope an adapter.       *)
LEMMA OthersKeepLocks ==
  ASSUME TypeOK, LockInv, CommandNext \/ StreamNext \/ ListFails \/ AdapterTaskNext
  PROVE  LockInv'
<1>1. CASE \/ CommandConnect \/ DisableBackend \/ ApplyWorkspace \/ NewChat \/ Submit
           \/ CommandStop \/ DismissClarify \/ ListFails
           \/ \E n \in DOMAIN queue : SendQueuedNow(n) \/ Unqueue(n)
  BY <1>1, LocksUntouched DEF CommandConnect, DisableBackend, ApplyWorkspace, NewChat, Submit,
     CommandStop, DismissClarify, ListFails, SendQueuedNow, Unqueue
<1>2. ASSUME NEW k \in Kind, SwitchBackend(k)
      PROVE  LockInv'
  <2>1. HeldStays
    BY <1>2 DEF SwitchBackend, HeldStays, TypeOK, AdaptersTypeOK, Adapters
  <2>2. QED
    BY <1>2, <2>1, LocksKept DEF SwitchBackend
<1>3. ASSUME NEW s \in Session, OpenSession(s)
      PROVE  LockInv'
  BY <1>3, LocksAfterOpen DEF OpenSession
<1>4. CASE StreamNext
  <2>1. PICK i \in Adapters :
          \/ StreamConnects(i) \/ StreamFails(i) \/ StreamDrops(i)
          \/ \E s \in Session :
               \/ \E k \in {"Delta", "Complete", "TurnFailed"} : StreamFrame(i, s, k)
               \/ StreamQuestion(i, s)
               \/ StreamSessionInfo(i, s)
    BY <1>4 DEF StreamNext
  <2>2. ASSUME NEW event, NEW b, Reports(i, event, b), b.guard = backends[i].guard
        PROVE  LockInv'
    BY <2>2, LocksRewritten DEF Reports
  <2>3. backends[i] \in Adapter
    BY AdapterTyped
  <2>4. CASE StreamConnects(i)
    BY <2>2, <2>3, <2>4 DEF StreamConnects, Adapter
  <2>5. CASE StreamFails(i)
    BY <2>2, <2>3, <2>5 DEF StreamFails, Adapter
  <2>6. CASE StreamDrops(i)
    BY <2>2, <2>3, <2>6 DEF StreamDrops, Adapter
  <2>7. ASSUME NEW s \in Session, NEW k \in {"Delta", "Complete", "TurnFailed"},
               StreamFrame(i, s, k)
        PROVE  LockInv'
    BY <2>2, <2>7 DEF StreamFrame
  <2>8. ASSUME NEW s \in Session, StreamQuestion(i, s)
        PROVE  LockInv'
    BY <2>2, <2>8 DEF StreamQuestion
  <2>9. ASSUME NEW s \in Session, StreamSessionInfo(i, s)
        PROVE  LockInv'
    BY <2>2, <2>3, <2>9 DEF StreamSessionInfo, Adapter
  <2>10. QED
    BY <2>1, <2>4, <2>5, <2>6, <2>7, <2>8, <2>9
<1>5. ASSUME NEW i \in Adapters, AdapterDisconnects(i)
      PROVE  LockInv'
  <2> DEFINE b == [backends[i] EXCEPT !.stream = 0, !.up = FALSE, !.scope = {}]
  <2>1. backends[i] \in Adapter
    BY AdapterTyped
  <2>2. backends' = [backends EXCEPT ![i] = b] /\ b.guard = backends[i].guard
    BY <1>5, <2>1 DEF AdapterDisconnects, Adapter
  <2> HIDE DEF b
  <2>3. QED
    BY <1>5, <2>2, LocksRewritten DEF AdapterDisconnects
<1>6. ASSUME NEW t \in scopes, ClearScope(t)
      PROVE  LockInv'
  <2>1. HeldStays
    BY <1>6, ScopedMoves DEF ClearScope, HeldStays, Adapters
  <2>2. QED
    BY <1>6, <2>1, LocksKept DEF ClearScope
<1>7. ASSUME NEW a \in answers, AnswerEnds(a)
      PROVE  LockInv'
  BY <1>7, LocksUntouched DEF AnswerEnds
<1>8. QED
  BY <1>1, <1>2, <1>3, <1>4, <1>5, <1>6, <1>7 DEF CommandNext, AdapterTaskNext

(* Timers, restarts, stops, pumps and the window thread hold no lock.      *)
LEMMA TurnsKeepLocks ==
  ASSUME TypeOK, LockInv, RetryNext \/ RestartNext \/ StopTaskNext \/ PumpNext \/ WindowContinues
  PROVE  LockInv'
<1>1. CASE RetryNext \/ RestartNext
  BY <1>1, LocksUntouched DEF RetryNext, RestartNext, RetryFires, RetryConnects,
     ServerRestarted, RestartConnects
<1>2. CASE StopTaskNext
  <2>1. PICK t \in stops : StopInterrupts(t) \/ StopGraceEnds(t) \/ StopAfterTurn(t) \/ StopSends(t)
    BY <1>2 DEF StopTaskNext
  <2>2. CASE StopSends(t)
    BY <2>2, LocksAfterSend DEF StopSends
  <2>3. QED
    BY <2>1, <2>2, LocksUntouched DEF StopInterrupts, StopGraceEnds, StopAfterTurn
<1>3. CASE PumpNext
  <2>1. PICK p \in pumps :
          \/ DropsEvent(p) \/ HandleConnected(p) \/ HandleSessionInfo(p) \/ HandleClarify(p)
          \/ HandleLost(p) \/ HandleTurn(p)
          \/ PumpStreamLost(p) \/ PumpRetry(p) \/ PumpAfterTurn(p) \/ PumpSends(p)
    BY <1>3 DEF PumpNext
  <2>2. CASE PumpSends(p)
    BY <2>2, LocksAfterSend DEF PumpSends
  <2>3. QED
    BY <2>1, <2>2, LocksUntouched DEF DropsEvent, HandleConnected, HandleSessionInfo,
       HandleClarify, HandleLost, HandleTurn, PumpStreamLost, PumpRetry, PumpAfterTurn
<1>4. CASE WindowContinues
  <2>1. CASE WindowSends
    BY <2>1, LocksAfterSend DEF WindowSends
  <2>2. QED
    BY <1>4, <2>1, LocksUntouched DEF WindowContinues, WindowConnects, WindowClearsScope,
       WindowAnswers, WindowStops, WindowAfterTurn
<1>5. QED
  BY <1>1, <1>2, <1>3, <1>4

(* Every step of the client, its user and the network.                     *)
LEMMA StepKeepsLocks ==
  ASSUME TypeOK, LockInv, [Next]_vars
  PROVE  LockInv'
<1>1. CASE DeliverNext
  BY <1>1, DeliverTasksKeepLocks, AimingKeepsLocks DEF DeliverNext
<1>2. CASE UNCHANGED vars
  BY <1>2, LocksUntouched DEF vars
<1>3. QED
  BY <1>1, <1>2, ConnectTasksKeepLocks, EnsureKeepsLocks, OpenTasksKeepLocks,
     OthersKeepLocks, TurnsKeepLocks DEF Next, TaskNext, Idle

-----------------------------------------------------------------------------
(* However many tasks wait for one adapter, past ensure_stream only one of the *)
(* opens and deliveries has it (`Arc<AsyncMutex<Backend>>`, state.rs:58-62). *)
THEOREM AdaptersAreExclusive == Spec => []LockInv
<1>1. Init => LockInv
  BY DEF Init, LockInv
<1>2. LockInv /\ TypeOK /\ [Next]_vars => LockInv'
  BY StepKeepsLocks
<1>3. QED
  BY <1>1, <1>2, TypeCorrect, PTL DEF Spec

-----------------------------------------------------------------------------
(* Nothing is announced. *)

(* No action but StreamSessionInfo, which such a gateway never takes, puts an *)
(* announcement into a channel: an event of another kind goes in ...          *)
LEMMA QuietAfterEmit ==
  ASSUME ~AnnouncesSessions, TypeOK, NothingAnnounced, NEW e, NEW event \in Event, event.kind # "SessionInfo",
         pumps' = Emit(pumps, e, event)
  PROVE  NothingAnnounced'
<1> SUFFICES ASSUME NEW q \in pumps', NEW n \in DOMAIN q.events
             PROVE  q.events[n].kind # "SessionInfo"
  BY DEF NothingAnnounced
<1>1. PICK p \in pumps : q = IF p.epoch = e THEN [p EXCEPT !.events = Append(@, event)] ELSE p
  BY DEF Emit
<1>2. p \in Pump /\ p.events \in Seq(Event)
  BY DEF TypeOK, TasksTypeOK, Pump
<1>3. CASE p.epoch = e
  <2>1. q.events = Append(p.events, event)
    BY <1>1, <1>2, <1>3 DEF Pump
  <2>2. CASE n = Len(p.events) + 1
    BY <1>2, <2>1, <2>2, AppendProperties
  <2>3. CASE n # Len(p.events) + 1
    <3>1. n \in DOMAIN p.events /\ q.events[n] = p.events[n]
      BY <1>2, <2>1, <2>3, AppendProperties
    <3>2. QED
      BY <3>1 DEF NothingAnnounced
  <2>4. QED
    BY <2>2, <2>3
<1>4. CASE p.epoch # e
  BY <1>1, <1>4 DEF NothingAnnounced
<1>5. QED
  BY <1>3, <1>4

(* ... or the first event of a channel comes out ... *)
LEMMA QuietAfterHandled ==
  ASSUME ~AnnouncesSessions, TypeOK, NothingAnnounced, NEW p \in pumps, p.events # <<>>, NEW pc, Handled(p, pc)
  PROVE  NothingAnnounced'
<1> DEFINE q == [p EXCEPT !.events = Tail(@), !.pc = pc]
<1>1. p \in Pump /\ p.events \in Seq(Event)
  BY DEF TypeOK, TasksTypeOK, Pump
<1>2. q.events = Tail(p.events)
  BY <1>1 DEF Pump
<1>3. ASSUME NEW n \in DOMAIN Tail(p.events)
      PROVE  Tail(p.events)[n].kind # "SessionInfo"
  <2>1. n + 1 \in DOMAIN p.events /\ Tail(p.events)[n] = p.events[n + 1]
    BY <1>1
  <2>2. QED
    BY <2>1 DEF NothingAnnounced
<1>4. pumps' = (pumps \ {p}) \cup {q}
  BY DEF Handled
<1> HIDE DEF q
<1>5. QED
  BY <1>2, <1>3, <1>4 DEF NothingAnnounced

(* ... or a pump goes on with what follows an event. *)
LEMMA QuietAfterMove ==
  ASSUME ~AnnouncesSessions, NothingAnnounced, NEW p \in pumps, NEW q, q.events = p.events,
         pumps' = (pumps \ {p}) \cup {q}
  PROVE  NothingAnnounced'
BY DEF NothingAnnounced

(* The last word of a stream is no announcement.                           *)
LEMMA QuietAfterLastWord ==
  ASSUME ~AnnouncesSessions, TypeOK, NothingAnnounced, NEW i, LastWord(i)
  PROVE  NothingAnnounced'
<1>1. Plain("Disconnected") \in Event /\ Plain("Disconnected").kind # "SessionInfo"
  BY PlainTyped DEF Plain
<1>2. QED
  BY <1>1, QuietAfterEmit DEF LastWord, NothingAnnounced

(* A gateway that announces nothing reports everything else.               *)
LEMMA StreamsStayQuiet ==
  ASSUME ~AnnouncesSessions, TypeOK, NothingAnnounced, StreamNext
  PROVE  NothingAnnounced'
<1>1. PICK i \in Adapters :
        \/ StreamConnects(i) \/ StreamFails(i) \/ StreamDrops(i)
        \/ \E s \in Session :
             \/ \E k \in {"Delta", "Complete", "TurnFailed"} : StreamFrame(i, s, k)
             \/ StreamQuestion(i, s)
             \/ StreamSessionInfo(i, s)
  BY DEF StreamNext
<1>2. ASSUME NEW event \in Event, event.kind # "SessionInfo", NEW b, Reports(i, event, b)
      PROVE  NothingAnnounced'
  BY <1>2, QuietAfterEmit DEF Reports
<1>3. \A k \in {"Connected", "Disconnected", "Failed"} :
        Plain(k) \in Event /\ Plain(k).kind # "SessionInfo"
  BY PlainTyped DEF Plain
<1>4. CASE StreamConnects(i) \/ StreamFails(i) \/ StreamDrops(i)
  BY <1>2, <1>3, <1>4 DEF StreamConnects, StreamFails, StreamDrops
<1>5. ASSUME NEW s \in Session, NEW k \in {"Delta", "Complete", "TurnFailed", "Clarify"}
      PROVE  /\ [kind |-> k, session |-> s] \in Event
             /\ [kind |-> k, session |-> s].kind # "SessionInfo"
  BY DEF Event
<1>6. ASSUME NEW s \in Session, NEW k \in {"Delta", "Complete", "TurnFailed"}, StreamFrame(i, s, k)
      PROVE  NothingAnnounced'
  BY <1>2, <1>5, <1>6 DEF StreamFrame
<1>7. ASSUME NEW s \in Session, StreamQuestion(i, s)
      PROVE  NothingAnnounced'
  BY <1>2, <1>5, <1>7 DEF StreamQuestion
<1>8. QED
  BY <1>1, <1>4, <1>6, <1>7 DEF StreamSessionInfo

(* Pumps only take events out.                                             *)
LEMMA PumpsStayQuiet ==
  ASSUME ~AnnouncesSessions, TypeOK, NothingAnnounced, NEW p \in pumps,
         \/ DropsEvent(p) \/ HandleConnected(p) \/ HandleSessionInfo(p) \/ HandleClarify(p)
         \/ HandleLost(p) \/ HandleTurn(p)
         \/ PumpStreamLost(p) \/ PumpRetry(p) \/ PumpAfterTurn(p) \/ PumpSends(p)
  PROVE  NothingAnnounced'
<1>1. CASE \/ DropsEvent(p) \/ HandleConnected(p) \/ HandleSessionInfo(p) \/ HandleClarify(p)
           \/ HandleLost(p) \/ HandleTurn(p)
  BY <1>1, QuietAfterHandled DEF DropsEvent, HandleConnected, HandleSessionInfo, HandleClarify,
     HandleLost, HandleTurn, Ready
<1>2. CASE PumpStreamLost(p) \/ PumpRetry(p) \/ PumpAfterTurn(p) \/ PumpSends(p)
  <2>1. p \in Pump
    BY DEF TypeOK, TasksTypeOK
  <2>2. PICK q : q.events = p.events /\ pumps' = (pumps \ {p}) \cup {q}
    <3>1. CASE PumpStreamLost(p)
      BY <2>1, <3>1 DEF PumpStreamLost, Pump
    <3>2. CASE PumpRetry(p)
      BY <2>1, <3>2 DEF PumpRetry, Pump
    <3>3. CASE PumpAfterTurn(p)
      <4> DEFINE q == [p EXCEPT !.pc = IF NextQueued = NoText THEN "idle" ELSE "send",
                                !.text = NextQueued]
      <4>1. q.events = p.events
        BY <2>1 DEF Pump
      <4>2. pumps' = (pumps \ {p}) \cup {q}
        BY <3>3 DEF PumpAfterTurn
      <4>3. QED
        BY <4>1, <4>2
    <3>4. CASE PumpSends(p)
      BY <2>1, <3>4 DEF PumpSends, Pump
    <3>5. QED
      BY <1>2, <3>1, <3>2, <3>3, <3>4
  <2>3. QED
    BY <2>2, QuietAfterMove
<1>3. QED
  BY <1>1, <1>2

(* A new channel is empty.                                                 *)
LEMMA EnsureStaysQuiet ==
  ASSUME ~AnnouncesSessions, TypeOK, NothingAnnounced, EnsureStreamNext
  PROVE  NothingAnnounced'
<1>1. PICK i \in Adapters : EnsureBegin(i) \/ EnsureDial(i) \/ EnsureSettle(i)
  BY DEF EnsureStreamNext
<1>2. CASE EnsureBegin(i)
  <2>1. CASE UNCHANGED pumps
    BY <2>1 DEF NothingAnnounced
  <2> DEFINE q == [epoch |-> connection_epoch + 1, events |-> <<>>, pc |-> "idle", gen |-> 0,
                   text |-> NoText]
  <2>2. CASE pumps' = pumps \cup {q}
    <3>1. DOMAIN q.events = {}
      OBVIOUS
    <3> HIDE DEF q
    <3>2. QED
      BY <2>2, <3>1 DEF NothingAnnounced
  <2>3. QED
    BY <1>2, <2>1, <2>2 DEF EnsureBegin
<1>3. CASE EnsureDial(i)
  BY <1>3, QuietAfterLastWord DEF EnsureDial
<1>4. CASE EnsureSettle(i)
  BY <1>4 DEF EnsureSettle, NothingAnnounced
<1>5. QED
  BY <1>1, <1>2, <1>3, <1>4

(* Every step of the client, its user and the network.                     *)
LEMMA StepStaysQuiet ==
  ASSUME TypeOK, NothingAnnounced, [Next]_vars
  PROVE  NothingAnnounced'
<1> SUFFICES ASSUME ~AnnouncesSessions
             PROVE  NothingAnnounced'
  BY DEF NothingAnnounced
<1>0. ASSUME UNCHANGED pumps
      PROVE  NothingAnnounced'
  BY <1>0 DEF NothingAnnounced
<1>1. CASE ConnectTaskNext \/ RetryNext \/ RestartNext \/ OpenTaskNext
  <2>1. UNCHANGED pumps
    BY <1>1 DEF ConnectTaskNext, RetryNext, RestartNext, OpenTaskNext,
       ConnectProbed, ConnectAttach, ConnectEnsured, ConnectRetry, ConnectReopen, ConnectOpen,
       RetryFires, RetryConnects, ServerRestarted, RestartConnects,
       OpenAttach, OpenEnsured, OpenHistory, OpenResume, OpenResumed, OpenStreamLost, OpenRetry
  <2>2. QED
    BY <1>0, <2>1
<1>2. CASE DeliverNext
  <2>1. UNCHANGED pumps
    BY <1>2 DEF DeliverNext, DeliverChecks, DeliverConnects, DeliverWaits, DeliverReadsBackend,
       DeliverLocks, DeliverAims, DeliverResumes, DeliverCreates, DeliverAttaches,
       DeliverSubmits, DeliverTakesBack
  <2>2. QED
    BY <1>0, <2>1
<1>3. CASE StopTaskNext \/ WindowContinues
  <2>1. UNCHANGED pumps
    BY <1>3 DEF StopTaskNext, WindowContinues, StopInterrupts, StopGraceEnds, StopAfterTurn,
       StopSends, WindowConnects, WindowClearsScope, WindowSends, WindowAnswers, WindowStops,
       WindowAfterTurn
  <2>2. QED
    BY <1>0, <2>1
<1>4. CASE CommandNext \/ ListFails
  <2>1. UNCHANGED pumps
    BY <1>4 DEF CommandNext, ListFails, CommandConnect, DisableBackend, ApplyWorkspace,
       SwitchBackend, OpenSession, NewChat, Submit, CommandStop, DismissClarify,
       SendQueuedNow, Unqueue
  <2>2. QED
    BY <1>0, <2>1
<1>5. CASE AdapterTaskNext
  BY <1>0, <1>5, QuietAfterLastWord DEF AdapterTaskNext, AdapterDisconnects, ClearScope, AnswerEnds
<1>6. CASE PumpNext
  BY <1>6, PumpsStayQuiet DEF PumpNext
<1>7. CASE UNCHANGED vars
  BY <1>0, <1>7 DEF vars
<1>8. QED
  BY <1>1, <1>2, <1>3, <1>4, <1>5, <1>6, <1>7, EnsureStaysQuiet, StreamsStayQuiet
     DEF Next, TaskNext, Idle

-----------------------------------------------------------------------------
(* The aim of a delivery. *)

(* The conversation on screen stays, with the adapter it is reached through ... *)
ViewStays ==
  /\ UNCHANGED <<view_generation, stored>> /\ Current' = Current
  /\ created \subseteq created'

(* ... or is left. *)
ViewLeft == view_generation' = view_generation + 1 /\ created \subseteq created'

(* An aim holds while the view stays, and asks less once it is left.       *)
LEMMA AimSurvives ==
  ASSUME TypeOK, NEW d \in delivers, Aim(d), ViewStays \/ ViewLeft
  PROVE  Aim(d)'
<1>1. d.view \in Nat /\ view_generation \in Nat
  BY DEF TypeOK, TasksTypeOK, DeliverTask, ViewTypeOK
<1>2. CASE ViewStays
  BY <1>2 DEF ViewStays, Aim, FromThisView, Its, DeliverHasAdapter, DeliverHolds
<1>3. CASE ViewLeft
  <2>1. d.view <= view_generation' /\ ~FromThisView(d)'
    BY <1>1, <1>3 DEF ViewLeft, Aim, FromThisView
  <2>2. (d.pc = "created" => [session |-> d.target, view |-> d.view] \in created)'
        /\ (d.pc = "submit" => AnnouncesSessions \/ Its(d.home, d.view, d.target))'
    BY <1>3 DEF ViewLeft, Aim, Its
  <2>3. QED
    BY <2>1, <2>2 DEF Aim
<1>4. QED
  BY <1>2, <1>3

(* Deliveries that only wait or end keep their aims.                       *)
LEMMA AimsSurvive ==
  ASSUME TypeOK, AimInv, ViewStays \/ ViewLeft, delivers' \subseteq delivers
  PROVE  AimInv'
BY AimSurvives DEF AimInv

(* send() aims at the session on screen (send.rs:70-91).                   *)
LEMMA AimAfterSend ==
  ASSUME TypeOK, AimInv, NEW text, Send(text), UNCHANGED <<viewVars, historyVars, backends>>
  PROVE  AimInv'
<1>1. ViewStays
  BY DEF ViewStays, Current
<1>2. PICK e : /\ e.view = view_generation /\ e.home = stored /\ e.pc = "check"
               /\ delivers' = delivers \cup {e}
  BY DEF Send
<1>3. view_generation \in Nat
  BY DEF TypeOK, ViewTypeOK
<1>4. Aim(e)'
  BY <1>1, <1>2, <1>3 DEF ViewStays, Aim, FromThisView, Its, DeliverHasAdapter, DeliverHolds
<1>5. QED
  BY <1>1, <1>2, <1>4, AimSurvives DEF AimInv

(* A delivery moves, and the aim of its new position holds.                *)
LEMMA AimAfterMove ==
  ASSUME TypeOK, AimInv, NEW d \in delivers, NEW e, delivers' = (delivers \ {d}) \cup {e},
         ViewStays, e.view = d.view, e.home = d.home,
         FromThisView(d) =>
           /\ DeliverHasAdapter(e) => e.inst = Current
           /\ e.pc \in {"resume", "resumed"} => e.target = stored
           /\ e.pc \in {"create", "created"} => stored = None,
         e.pc = "created" => [session |-> e.target, view |-> e.view] \in created',
         e.pc = "submit" => AnnouncesSessions \/ Its(d.home, d.view, e.target)
  PROVE  AimInv'
<1>1. Aim(d)
  BY DEF AimInv
<1>2. Aim(e)'
  BY <1>1 DEF ViewStays, Aim, FromThisView, Its, DeliverHasAdapter, DeliverHolds
<1>3. QED
  BY <1>2, AimSurvives DEF AimInv

(* Steps that only move a delivery from one region to the next. *)
LEMMA AimAfterAdvance ==
  ASSUME TypeOK, AimInv, NEW d \in delivers, NEW pc, DeliverIs(d, pc), ViewStays,
         \/ pc \in {"connect", "wait", "ready", "back"}
         \/ d.pc = "lock" /\ pc = "ensure"
         \/ d.pc = "resume" /\ pc = "resumed"
  PROVE  AimInv'
<1> DEFINE e == [d EXCEPT !.pc = pc]
<1>1. /\ e.pc = pc /\ e.inst = d.inst /\ e.view = d.view /\ e.home = d.home
      /\ e.target = d.target
  BY DeliverMoves
<1>2. delivers' = (delivers \ {d}) \cup {e}
  BY DEF DeliverIs
<1>3. Aim(d)
  BY DEF AimInv
<1> HIDE DEF e
<1>4. QED
  BY <1>1, <1>2, <1>3, AimAfterMove DEF Aim, DeliverHasAdapter, DeliverHolds

(* The region that decides where a prompt goes (send.rs:118-153).          *)
LEMMA AimingAims ==
  ASSUME TypeOK, OneSession, AimInv, NEW d \in delivers, DeliverAims(d)
  PROVE  AimInv'
<1>0. Aim(d)
  BY DEF AimInv
<1>00. d.pc = "ensure" /\ DeliverHasAdapter(d)
  BY DEF DeliverAims, DeliverHasAdapter
<1>1. Current' = Current
  <2>1. CASE backends' = [backends EXCEPT ![d.inst].guard = "held", ![d.inst].scope = {}]
    BY <2>1 DEF Current, TypeOK, AdaptersTypeOK
  <2>2. QED
    BY <2>1, HeldMoves DEF DeliverAims
<1>2. ViewStays
  BY <1>1 DEF ViewStays, DeliverAims
<1>3. CASE DeliverIs(d, "back")
  BY <1>2, <1>3, AimAfterAdvance
<1>4. CASE /\ ~DeliverIsStale(d) /\ live # None
           /\ delivers' = (delivers \ {d}) \cup {[d EXCEPT !.pc = "submit", !.target = live]}
  <2> DEFINE e == [d EXCEPT !.pc = "submit", !.target = live]
  <2>1. /\ e.pc = "submit" /\ e.inst = d.inst /\ e.view = d.view /\ e.home = d.home
        /\ e.target = live
    BY DeliverMoves
  <2>2. FromThisView(d) /\ (AnnouncesSessions \/ live = stored)
    BY <1>4 DEF DeliverIsStale, FromThisView, OneSession
  <2>3. AnnouncesSessions \/ Its(d.home, d.view, live)
    BY <1>0, <1>4, <2>2 DEF Aim
  <2>4. delivers' = (delivers \ {d}) \cup {e}
    BY <1>4
  <2> HIDE DEF e
  <2>5. QED
    BY <1>0, <1>00, <1>2, <2>1, <2>3, <2>4, AimAfterMove DEF Aim
<1>5. CASE /\ live = None /\ stored # None
           /\ delivers' = (delivers \ {d}) \cup {[d EXCEPT !.pc = "resume", !.target = stored]}
  <2> DEFINE e == [d EXCEPT !.pc = "resume", !.target = stored]
  <2>1. /\ e.pc = "resume" /\ e.inst = d.inst /\ e.view = d.view /\ e.home = d.home
        /\ e.target = stored
    BY DeliverMoves
  <2>2. delivers' = (delivers \ {d}) \cup {e}
    BY <1>5
  <2> HIDE DEF e
  <2>3. QED
    BY <1>0, <1>00, <1>2, <2>1, <2>2, AimAfterMove DEF Aim
<1>6. CASE stored = None /\ DeliverIs(d, "create")
  <2> DEFINE e == [d EXCEPT !.pc = "create"]
  <2>1. /\ e.pc = "create" /\ e.inst = d.inst /\ e.view = d.view /\ e.home = d.home
    BY DeliverMoves
  <2>2. delivers' = (delivers \ {d}) \cup {e}
    BY <1>6 DEF DeliverIs
  <2> HIDE DEF e
  <2>3. QED
    BY <1>0, <1>00, <1>2, <1>6, <2>1, <2>2, AimAfterMove DEF Aim
<1>7. QED
  BY <1>3, <1>4, <1>5, <1>6 DEF DeliverAims

(* A new session belongs to the view it was made for (send.rs:152-157).    *)
LEMMA CreatingAims ==
  ASSUME TypeOK, AimInv, NEW d \in delivers, DeliverCreates(d)
  PROVE  AimInv'
<1>0. Aim(d) /\ d.pc = "create"
  BY DEF AimInv, DeliverCreates
<1>1. CASE Held(d.inst, "free") /\ DeliverIs(d, "back")
  <2>1. ViewStays
    BY <1>1, HeldMoves DEF ViewStays, DeliverCreates
  <2>2. QED
    BY <1>1, <2>1, AimAfterAdvance
<1>2. ASSUME NEW s \in Session, Scoped(d.inst, {s}),
             created' = created \cup {[session |-> s, view |-> d.view]},
             delivers' = (delivers \ {d}) \cup {[d EXCEPT !.pc = "created", !.target = s]}
      PROVE  AimInv'
  <2> DEFINE e == [d EXCEPT !.pc = "created", !.target = s]
  <2>1. /\ e.pc = "created" /\ e.inst = d.inst /\ e.view = d.view /\ e.home = d.home
        /\ e.target = s
    BY DeliverMoves
  <2>2. ViewStays
    BY <1>2, ScopedMoves DEF ViewStays, DeliverCreates
  <2>3. delivers' = (delivers \ {d}) \cup {e}
    BY <1>2
  <2>4. DeliverHasAdapter(d)
    BY <1>0 DEF DeliverHasAdapter, DeliverHolds
  <2> HIDE DEF e
  <2>5. QED
    BY <1>0, <1>2, <2>1, <2>2, <2>3, <2>4, AimAfterMove DEF Aim
<1>3. QED
  BY <1>1, <1>2 DEF DeliverCreates

(* Taking over the session, resumed or new.  A new one changes the session on *)
(* screen, and no other delivery of the view can be between its lock and its *)
(* submit then: it would hold the same adapter.                            *)
LEMMA AttachingAims ==
  ASSUME TypeOK, LockInv, OneSession, AimInv, NEW d \in delivers, DeliverAttaches(d)
  PROVE  AimInv' /\ OneSession'
<1>0. Aim(d) /\ d.pc \in {"resumed", "created"} /\ DeliverHolds(d) /\ DeliverHasAdapter(d)
  BY DEF AimInv, DeliverAttaches, DeliverHolds, DeliverHasAdapter
<1>00. d.target \in Session /\ d.target # None
  BY <1>0, DeliverTarget, ConstantsAssumption
<1>1. CASE DeliverIsStale(d)
  <2>1. ViewStays
    BY <1>1, HeldMoves DEF ViewStays, DeliverAttaches
  <2>2. OneSession'
    BY <1>1 DEF DeliverAttaches, OneSession
  <2>3. QED
    BY <1>1, <2>1, <2>2, AimAfterAdvance DEF DeliverAttaches
<1>2. CASE ~DeliverIsStale(d)
  <2> DEFINE e == [d EXCEPT !.pc = "submit"]
  <2>1. /\ e.pc = "submit" /\ e.inst = d.inst /\ e.view = d.view /\ e.home = d.home
        /\ e.target = d.target
    BY DeliverMoves
  <2>2. delivers' = (delivers \ {d}) \cup {e}
    BY <1>2 DEF DeliverAttaches, DeliverIs
  <2>3. FromThisView(d)
    BY <1>2 DEF DeliverIsStale, FromThisView
  <2>4. /\ UNCHANGED <<view_generation, created, backends>> /\ Current' = Current
        /\ live' = d.target /\ stored' = d.target
        /\ selected' = IF d.pc = "created" THEN d.target ELSE selected
    BY <1>2 DEF DeliverAttaches, Current
  <2> HIDE DEF e
  <2>5. CASE d.pc = "resumed"
    <3>1. d.target = stored
      BY <1>0, <2>3, <2>5 DEF Aim
    <3>2. OneSession'
      BY <2>4, <2>5, <3>1 DEF OneSession
    <3>3. ViewStays /\ Its(d.home, d.view, d.target)
      BY <1>0, <1>00, <2>3, <2>4, <3>1 DEF ViewStays, Aim
    <3>4. QED
      BY <1>0, <2>1, <2>2, <2>3, <3>2, <3>3, AimAfterMove DEF Aim
  <2>6. CASE d.pc = "created"
    <3>1. stored = None /\ [session |-> d.target, view |-> d.view] \in created
      BY <1>0, <2>3, <2>6 DEF Aim
    <3>2. OneSession'
      BY <2>4, <2>6 DEF OneSession
    <3>3. d.home = None
      BY <1>0, <2>3, <3>1 DEF Aim, Its
    <3>4. Its(d.home, d.view, d.target)
      BY <3>1, <3>3 DEF Its
    <3>5. Aim(e)'
      BY <1>0, <2>1, <2>3, <2>4, <3>4 DEF Aim, FromThisView, Its, DeliverHasAdapter, DeliverHolds
    <3>6. ASSUME NEW f \in delivers, f # d
          PROVE  Aim(f)'
      <4>1. Aim(f)
        BY DEF AimInv
      <4>2. CASE ~FromThisView(f)
        BY <2>4, <4>1, <4>2 DEF Aim, FromThisView, Its
      <4>3. CASE FromThisView(f)
        <5>1. f.home = None /\ f.view = d.view
          BY <2>3, <3>1, <4>1, <4>3 DEF Aim, Its, FromThisView
        <5>2. Its(f.home, f.view, d.target)
          BY <3>1, <5>1 DEF Its
        <5>3. f.pc \notin {"resume", "resumed"}
          <6>1. ASSUME f.pc \in {"resume", "resumed"}
                PROVE  FALSE
            <7>1. f.target = None
              BY <3>1, <4>1, <4>3, <6>1 DEF Aim
            <7>2. f.target \in Session
              BY <6>1, DeliverTarget
            <7>3. QED
              BY <7>1, <7>2, ConstantsAssumption
          <6>2. QED
            BY <6>1
        <5>4. f.pc \notin {"create", "created"}
          <6>1. ASSUME f.pc \in {"create", "created"}
                PROVE  FALSE
            <7>1. DeliverHolds(f) /\ f.inst = Current
              BY <4>1, <4>3, <6>1 DEF Aim, DeliverHolds, DeliverHasAdapter
            <7>2. d.inst = Current
              BY <1>0, <2>3 DEF Aim
            <7>3. QED
              BY <1>0, <3>6, <7>1, <7>2 DEF LockInv
          <6>2. QED
            BY <6>1
        <5>5. QED
          BY <2>4, <4>1, <4>3, <5>2, <5>3, <5>4
             DEF Aim, FromThisView, Its, DeliverHasAdapter, DeliverHolds
      <4>4. QED
        BY <4>2, <4>3
    <3>7. AimInv'
      BY <2>2, <3>5, <3>6 DEF AimInv
    <3>8. QED
      BY <3>2, <3>7
  <2>7. QED
    BY <1>0, <2>5, <2>6
<1>3. QED
  BY <1>1, <1>2

(* Every step of a delivery.                                               *)
LEMMA DeliverTasksKeepAim ==
  ASSUME TypeOK, LockInv, OneSession, AimInv, DeliverNext
  PROVE  AimInv' /\ OneSession'
<1>1. PICK d \in delivers :
        \/ DeliverChecks(d) \/ DeliverConnects(d) \/ DeliverWaits(d)
        \/ DeliverReadsBackend(d) \/ DeliverLocks(d) \/ DeliverAims(d)
        \/ DeliverResumes(d) \/ DeliverCreates(d) \/ DeliverAttaches(d)
        \/ DeliverSubmits(d) \/ DeliverTakesBack(d)
  BY DEF DeliverNext
<1>2. CASE DeliverChecks(d) \/ DeliverConnects(d) \/ DeliverWaits(d)
  <2>1. ViewStays /\ OneSession'
    BY <1>2 DEF DeliverChecks, DeliverConnects, DeliverWaits, ViewStays, OneSession, Current
  <2>2. QED
    BY <1>2, <2>1, AimAfterAdvance DEF DeliverChecks, DeliverConnects, DeliverWaits
<1>3. CASE DeliverReadsBackend(d)
  <2> DEFINE e == [d EXCEPT !.pc = "lock", !.inst = Current]
  <2>1. /\ e.pc = "lock" /\ e.inst = Current /\ e.view = d.view /\ e.home = d.home
    BY DeliverMoves
  <2>2. delivers' = (delivers \ {d}) \cup {e}
    BY <1>3 DEF DeliverReadsBackend
  <2>3. ViewStays /\ OneSession'
    BY <1>3 DEF DeliverReadsBackend, ViewStays, OneSession, Current
  <2> HIDE DEF e
  <2>4. QED
    BY <2>1, <2>2, <2>3, AimAfterMove
<1>4. CASE DeliverLocks(d)
  <2>1. ViewStays /\ OneSession'
    BY <1>4, HeldMoves DEF DeliverLocks, ViewStays, OneSession
  <2>2. QED
    BY <1>4, <2>1, AimAfterAdvance DEF DeliverLocks
<1>5. CASE DeliverAims(d)
  <2>1. OneSession'
    BY <1>5 DEF DeliverAims, OneSession
  <2>2. QED
    BY <1>5, <2>1, AimingAims
<1>6. CASE DeliverResumes(d)
  <2>1. ViewStays /\ OneSession'
    BY <1>6, HeldMoves, ScopedMoves DEF DeliverResumes, ViewStays, OneSession
  <2>2. QED
    BY <1>6, <2>1, AimAfterAdvance DEF DeliverResumes
<1>7. CASE DeliverCreates(d)
  <2>1. OneSession'
    BY <1>7 DEF DeliverCreates, OneSession
  <2>2. QED
    BY <1>7, <2>1, CreatingAims
<1>8. CASE DeliverAttaches(d)
  BY <1>8, AttachingAims
<1>9. CASE DeliverSubmits(d)
  <2>1. ViewStays /\ OneSession'
    BY <1>9, HeldMoves DEF DeliverSubmits, ViewStays, OneSession
  <2>2. CASE delivers' = delivers \ {d}
    BY <2>1, <2>2, AimsSurvive
  <2>3. CASE DeliverIs(d, "back")
    BY <2>1, <2>3, AimAfterAdvance
  <2>4. QED
    BY <1>9, <2>1, <2>2, <2>3 DEF DeliverSubmits
<1>10. CASE DeliverTakesBack(d)
  <2>1. ViewStays /\ OneSession'
    BY <1>10 DEF DeliverTakesBack, ViewStays, OneSession, Current
  <2>2. QED
    BY <1>10, <2>1, AimsSurvive DEF DeliverTakesBack
<1>11. QED
  BY <1>1, <1>2, <1>3, <1>4, <1>5, <1>6, <1>7, <1>8, <1>9, <1>10

-----------------------------------------------------------------------------
(* Everything else. *)

(* A step in which no delivery moves: the view stays or is left. *)
NoDeliveryMoves ==
  /\ UNCHANGED <<delivers, delivered>> /\ created \subseteq created'
  /\ ViewStays \/ ViewLeft
  /\ OneSession'

(* A step that leaves the view, the deliveries and the current adapter alone. *)
LEMMA ViewUntouched ==
  ASSUME OneSession, Current' = Current,
         UNCHANGED <<selected, stored, live, view_generation, delivers, delivered, created>>
  PROVE  NoDeliveryMoves
BY DEF NoDeliveryMoves, ViewStays, OneSession

(* open() leaves the view, also when it opens the session it shows.        *)
LEMMA OpenLeavesView ==
  ASSUME TypeOK, NEW s \in Session, Open(s), UNCHANGED <<delivers, backends>>
  PROVE  NoDeliveryMoves
BY DEF Open, AdvanceView, NoDeliveryMoves, ViewLeft, OneSession

(* The connect task.                                                       *)
LEMMA ConnectTasksMoveNoDelivery ==
  ASSUME TypeOK, OneSession, ConnectTaskNext
  PROVE  NoDeliveryMoves
<1>1. PICK c \in connects :
      \/ ConnectProbed(c) \/ ConnectAttach(c) \/ ConnectEnsured(c)
      \/ ConnectRetry(c) \/ ConnectReopen(c) \/ ConnectOpen(c)
  BY DEF ConnectTaskNext
<1>2. CASE ConnectProbed(c) \/ ConnectRetry(c) \/ ConnectReopen(c)
  BY <1>2, ViewUntouched DEF ConnectProbed, ConnectRetry, ConnectReopen, Current
<1>3. CASE ConnectAttach(c) \/ ConnectEnsured(c)
  <2>1. Current' = Current
    BY <1>3, HeldMoves DEF ConnectAttach, ConnectEnsured, Current
  <2>2. QED
    BY <1>3, <2>1, ViewUntouched DEF ConnectAttach, ConnectEnsured
<1>4. CASE ConnectOpen(c)
  <2>1. CASE Reopens(c.session)
    <3>1. c.session \in Session
      BY <2>1 DEF Reopens, TypeOK, TasksTypeOK, ConnectTask, SessionOrNone
    <3>2. QED
      BY <1>4, <2>1, <3>1, OpenLeavesView DEF ConnectOpen
  <2>2. CASE ~Reopens(c.session)
    BY <1>4, <2>2, ViewUntouched DEF ConnectOpen, Current
  <2>3. QED
    BY <2>1, <2>2
<1>5. QED
  BY <1>1, <1>2, <1>3, <1>4

(* ensure_stream.                                                          *)
LEMMA EnsureMovesNoDelivery ==
  ASSUME TypeOK, OneSession, EnsureStreamNext
  PROVE  NoDeliveryMoves
<1>1. PICK i \in Adapters : EnsureBegin(i) \/ EnsureDial(i) \/ EnsureSettle(i)
  BY DEF EnsureStreamNext
<1>2. UNCHANGED <<viewVars, delivers, historyVars>>
  BY <1>1 DEF EnsureBegin, EnsureDial, EnsureSettle
<1>3. (\E g : Held(i, g)) \/ (\E b : backends' = [backends EXCEPT ![i] = b])
  BY <1>1 DEF EnsureBegin, EnsureDial, EnsureSettle
<1>4. Current' = Current
  BY <1>3, HeldMoves, AdapterRewritten
<1>5. QED
  BY <1>2, <1>4, ViewUntouched

(* The open task: a resume that is not stale is of the session on screen.  *)
LEMMA OpenTasksMoveNoDelivery ==
  ASSUME TypeOK, OneSession, OpenTaskNext
  PROVE  NoDeliveryMoves
<1>1. PICK o \in opens :
      \/ OpenAttach(o) \/ OpenEnsured(o) \/ OpenHistory(o) \/ OpenResume(o)
      \/ OpenResumed(o) \/ OpenStreamLost(o) \/ OpenRetry(o)
  BY DEF OpenTaskNext
<1>2. CASE OpenStreamLost(o) \/ OpenRetry(o)
  BY <1>2, ViewUntouched DEF OpenStreamLost, OpenRetry, Current
<1>3. CASE OpenAttach(o) \/ OpenEnsured(o)
  <2>1. Current' = Current
    BY <1>3, HeldMoves DEF OpenAttach, OpenEnsured, Current
  <2>2. QED
    BY <1>3, <2>1, ViewUntouched DEF OpenAttach, OpenEnsured
<1>4. CASE OpenHistory(o)
  <2>1. Current' = Current
    BY <1>4, HeldMoves DEF OpenHistory, Current
  <2>2. QED
    BY <1>4, <2>1, ViewUntouched DEF OpenHistory
<1>5. CASE OpenResume(o)
  <2>1. Current' = Current
    BY <1>5, HeldMoves, ScopedMoves DEF OpenResume, Current
  <2>2. QED
    BY <1>5, <2>1, ViewUntouched DEF OpenResume
<1>6. CASE OpenResumed(o)
  <2>1. Current' = Current
    <3>1. Held(o.inst, "free") \/ Len(backends') = Len(backends)
      BY <1>6 DEF OpenResumed, TypeOK, AdaptersTypeOK
    <3>2. QED
      BY <3>1, HeldMoves DEF Current
  <2>2. UNCHANGED <<selected, view_generation, delivers, delivered, created>>
    BY <1>6 DEF OpenResumed
  <2>3. CASE UNCHANGED <<live, stored>>
    BY <2>1, <2>2, <2>3, ViewUntouched
  <2>4. CASE ~OpenIsStale(o) /\ live' = o.session /\ stored' = o.session
    <3>1. selected = o.session /\ stored = o.session
      BY <2>4 DEF OpenIsStale, ViewIsCurrent, OneSession
    <3>2. QED
      BY <2>1, <2>2, <2>4, <3>1 DEF NoDeliveryMoves, ViewStays, OneSession
  <2>5. QED
    BY <1>6, <2>3, <2>4 DEF OpenResumed
<1>7. QED
  BY <1>1, <1>2, <1>3, <1>4, <1>5, <1>6

(* The user's commands.                                                    *)
LEMMA CommandsMoveNoDelivery ==
  ASSUME TypeOK, OneSession, CommandNext \/ ListFails
  PROVE  NoDeliveryMoves
<1>1. CASE \/ CommandConnect \/ ApplyWorkspace \/ Submit \/ CommandStop \/ DismissClarify
           \/ ListFails \/ \E n \in DOMAIN queue : SendQueuedNow(n) \/ Unqueue(n)
  BY <1>1, ViewUntouched DEF CommandConnect, ApplyWorkspace, Submit, CommandStop,
     DismissClarify, ListFails, SendQueuedNow, Unqueue, Current
<1>2. CASE DisableBackend
  BY <1>2 DEF DisableBackend, AdvanceView, NoDeliveryMoves, ViewLeft, OneSession
<1>3. ASSUME NEW k \in Kind, SwitchBackend(k)
      PROVE  NoDeliveryMoves
  BY <1>3 DEF SwitchBackend, AdvanceView, NoDeliveryMoves, ViewLeft, OneSession
<1>4. ASSUME NEW s \in Session, OpenSession(s)
      PROVE  NoDeliveryMoves
  BY <1>4, OpenLeavesView DEF OpenSession
<1>5. CASE NewChat
  BY <1>5 DEF NewChat, AdvanceView, NoDeliveryMoves, ViewLeft, OneSession
<1>6. QED
  BY <1>1, <1>2, <1>3, <1>4, <1>5 DEF CommandNext

(* The streams and the tasks that close or unscope an adapter.             *)
LEMMA StreamsMoveNoDelivery ==
  ASSUME TypeOK, OneSession, StreamNext \/ AdapterTaskNext
  PROVE  NoDeliveryMoves
<1>1. CASE StreamNext
  <2>1. PICK i \in Adapters :
          \/ StreamConnects(i) \/ StreamFails(i) \/ StreamDrops(i)
          \/ \E s \in Session :
               \/ \E k \in {"Delta", "Complete", "TurnFailed"} : StreamFrame(i, s, k)
               \/ StreamQuestion(i, s)
               \/ StreamSessionInfo(i, s)
    BY <1>1 DEF StreamNext
  <2>2. ASSUME NEW event, NEW b, Reports(i, event, b)
        PROVE  NoDeliveryMoves
    <3>1. Current' = Current
      BY <2>2, AdapterRewritten DEF Reports
    <3>2. QED
      BY <2>2, <3>1, ViewUntouched DEF Reports
  <2>3. CASE StreamConnects(i)
    BY <2>2, <2>3 DEF StreamConnects
  <2>4. CASE StreamFails(i)
    BY <2>2, <2>4 DEF StreamFails
  <2>5. CASE StreamDrops(i)
    BY <2>2, <2>5 DEF StreamDrops
  <2>6. ASSUME NEW s \in Session, NEW k \in {"Delta", "Complete", "TurnFailed"},
               StreamFrame(i, s, k)
        PROVE  NoDeliveryMoves
    BY <2>2, <2>6 DEF StreamFrame
  <2>7. ASSUME NEW s \in Session, StreamQuestion(i, s)
        PROVE  NoDeliveryMoves
    BY <2>2, <2>7 DEF StreamQuestion
  <2>8. ASSUME NEW s \in Session, StreamSessionInfo(i, s)
        PROVE  NoDeliveryMoves
    BY <2>2, <2>8 DEF StreamSessionInfo
  <2>9. QED
    BY <2>1, <2>3, <2>4, <2>5, <2>6, <2>7, <2>8
<1>2. CASE AdapterTaskNext
  <2>1. Current' = Current
    <3>1. ASSUME NEW i \in Adapters, AdapterDisconnects(i)
          PROVE  Current' = Current
      BY <3>1 DEF AdapterDisconnects, Current, TypeOK, AdaptersTypeOK
    <3>2. ASSUME NEW t \in scopes, ClearScope(t)
          PROVE  Current' = Current
      BY <3>2, ScopedMoves DEF ClearScope, Current
    <3>3. ASSUME NEW a \in answers, AnswerEnds(a)
          PROVE  Current' = Current
      BY <3>3 DEF AnswerEnds, Current
    <3>4. QED
      BY <1>2, <3>1, <3>2, <3>3 DEF AdapterTaskNext
  <2>2. UNCHANGED <<viewVars, delivers, historyVars>>
    BY <1>2 DEF AdapterTaskNext, AdapterDisconnects, ClearScope, AnswerEnds
  <2>3. QED
    BY <2>1, <2>2, ViewUntouched
<1>3. QED
  BY <1>1, <1>2

(* Timers and the restart of the managed server: live goes, the view stays. *)
LEMMA RestartsMoveNoDelivery ==
  ASSUME TypeOK, OneSession, RetryNext \/ RestartNext
  PROVE  NoDeliveryMoves
<1>1. UNCHANGED <<selected, stored, view_generation, delivers, delivered, created, backends>>
  BY DEF RetryNext, RestartNext, RetryFires, RetryConnects, ServerRestarted, RestartConnects
<1>2. live' \in {live, None}
  BY DEF RetryNext, RestartNext, RetryFires, RetryConnects, ServerRestarted, RestartConnects
<1>3. QED
  BY <1>1, <1>2 DEF NoDeliveryMoves, ViewStays, OneSession, Current

(* What follows a turn, an event or a command: nothing, or a prompt is sent. *)
PromptSent ==
  /\ \E text : Send(text)
  /\ UNCHANGED <<viewVars, historyVars, backends>>

(* The pumps: an announcement moves the live id and nothing else. *)
LEMMA PumpsMoveNoDelivery ==
  ASSUME TypeOK, OneSession, NothingAnnounced, PumpNext
  PROVE  NoDeliveryMoves \/ PromptSent
<1>1. PICK p \in pumps :
        \/ DropsEvent(p) \/ HandleConnected(p) \/ HandleSessionInfo(p) \/ HandleClarify(p)
        \/ HandleLost(p) \/ HandleTurn(p)
        \/ PumpStreamLost(p) \/ PumpRetry(p) \/ PumpAfterTurn(p) \/ PumpSends(p)
  BY DEF PumpNext
<1>2. CASE HandleSessionInfo(p)
  <2>1. p.events # <<>> /\ Head(p.events).kind = "SessionInfo"
    BY <1>2 DEF HandleSessionInfo, Ready
  <2>2. p.events \in Seq(Event)
    BY DEF TypeOK, TasksTypeOK, Pump
  <2>3. 1 \in DOMAIN p.events /\ Head(p.events) = p.events[1]
    BY <2>1, <2>2
  <2>4. AnnouncesSessions
    BY <2>1, <2>3 DEF NothingAnnounced
  <2>5. QED
    BY <1>2, <2>4 DEF HandleSessionInfo, NoDeliveryMoves, ViewStays, OneSession, Current
<1>3. CASE HandleLost(p)
  <2>1. UNCHANGED <<selected, stored, view_generation, delivers, delivered, created, backends>>
        /\ live' \in {live, None}
    BY <1>3 DEF HandleLost, DropSubscription
  <2>2. QED
    BY <2>1 DEF NoDeliveryMoves, ViewStays, OneSession, Current
<1>4. CASE PumpSends(p)
  BY <1>4 DEF PumpSends, PromptSent
<1>5. CASE \/ DropsEvent(p) \/ HandleConnected(p) \/ HandleClarify(p) \/ HandleTurn(p)
           \/ PumpStreamLost(p) \/ PumpRetry(p) \/ PumpAfterTurn(p)
  BY <1>5, ViewUntouched DEF DropsEvent, HandleConnected, HandleClarify, HandleTurn,
     PumpStreamLost, PumpRetry, PumpAfterTurn, Current
<1>6. QED
  BY <1>1, <1>2, <1>3, <1>4, <1>5

(* Stops and the window thread.                                            *)
LEMMA TurnsMoveNoDelivery ==
  ASSUME TypeOK, OneSession, StopTaskNext \/ WindowContinues
  PROVE  NoDeliveryMoves \/ PromptSent
<1>1. CASE StopTaskNext
  <2>1. PICK t \in stops : StopInterrupts(t) \/ StopGraceEnds(t) \/ StopAfterTurn(t) \/ StopSends(t)
    BY <1>1 DEF StopTaskNext
  <2>2. CASE StopSends(t)
    BY <2>2 DEF StopSends, PromptSent
  <2>3. QED
    BY <2>1, <2>2, ViewUntouched DEF StopInterrupts, StopGraceEnds, StopAfterTurn, Current
<1>2. CASE WindowContinues
  <2>1. CASE WindowSends
    BY <2>1 DEF WindowSends, PromptSent
  <2>2. QED
    BY <1>2, <2>1, ViewUntouched DEF WindowContinues, WindowConnects, WindowClearsScope,
       WindowAnswers, WindowStops, WindowAfterTurn, Current
<1>3. QED
  BY <1>1, <1>2

(* Every step moves one delivery, sends a prompt or leaves the deliveries alone. *)
LEMMA StepClasses ==
  ASSUME TypeOK, OneSession, NothingAnnounced, [Next]_vars
  PROVE  NoDeliveryMoves \/ PromptSent \/ DeliverNext
<1>1. CASE UNCHANGED vars
  BY <1>1, ViewUntouched DEF vars, Current
<1>2. QED
  BY <1>1, ConnectTasksMoveNoDelivery, EnsureMovesNoDelivery, OpenTasksMoveNoDelivery,
     CommandsMoveNoDelivery, StreamsMoveNoDelivery, RestartsMoveNoDelivery,
     PumpsMoveNoDelivery, TurnsMoveNoDelivery DEF Next, TaskNext, Idle

(* One session on screen, and every prompt on its way to its own.          *)
LEMMA StepRoutes ==
  ASSUME TypeOK, LockInv, OneSession, NothingAnnounced, AimInv, [Next]_vars
  PROVE  OneSession' /\ AimInv'
<1>1. CASE NoDeliveryMoves
  BY <1>1, AimsSurvive DEF NoDeliveryMoves
<1>2. CASE PromptSent
  BY <1>2, AimAfterSend DEF PromptSent, OneSession
<1>3. CASE DeliverNext
  BY <1>3, DeliverTasksKeepAim
<1>4. QED
  BY <1>1, <1>2, <1>3, StepClasses

(* What submit() adds was aimed at its own conversation. *)
LEMMA StepDelivers ==
  ASSUME ~AnnouncesSessions,
         TypeOK, OneSession, NothingAnnounced, AimInv, PromptReachesItsView, [Next]_vars
  PROVE  PromptReachesItsView'
<1>1. CASE NoDeliveryMoves \/ PromptSent
  BY <1>1 DEF NoDeliveryMoves, PromptSent, PromptReachesItsView
<1>2. CASE DeliverNext
  <2>1. PICK d \in delivers :
        \/ DeliverChecks(d) \/ DeliverConnects(d) \/ DeliverWaits(d)
        \/ DeliverReadsBackend(d) \/ DeliverLocks(d) \/ DeliverAims(d)
        \/ DeliverResumes(d) \/ DeliverCreates(d) \/ DeliverAttaches(d)
        \/ DeliverSubmits(d) \/ DeliverTakesBack(d)
    BY <1>2 DEF DeliverNext
  <2>2. CASE DeliverSubmits(d)
    <3> DEFINE r == [text |-> d.text, home |-> d.home, view |-> d.view, session |-> d.target]
    <3>1. delivered' \subseteq delivered \cup {r} /\ UNCHANGED created
      BY <2>2 DEF DeliverSubmits
    <3>2. Its(d.home, d.view, d.target)
      BY <2>2 DEF DeliverSubmits, AimInv, Aim
    <3>3. IF r.home # None THEN r.session = r.home
          ELSE [session |-> r.session, view |-> r.view] \in created
      BY <3>2 DEF Its
    <3> HIDE DEF r
    <3>4. QED
      BY <3>1, <3>3 DEF PromptReachesItsView
  <2>3. CASE ~DeliverSubmits(d)
    <3>1. UNCHANGED delivered /\ created \subseteq created'
      BY <2>1, <2>3 DEF DeliverChecks, DeliverConnects, DeliverWaits, DeliverReadsBackend,
         DeliverLocks, DeliverAims, DeliverResumes, DeliverCreates, DeliverAttaches,
         DeliverTakesBack
    <3>2. QED
      BY <3>1 DEF PromptReachesItsView
  <2>4. QED
    BY <2>2, <2>3
<1>3. QED
  BY <1>1, <1>2, StepClasses

-----------------------------------------------------------------------------
(* The queue. *)

(* What the queue may hold. *)
OfThisView(text) ==
  IF text.home # None THEN text.home = stored
  ELSE stored = None \/ \E c \in created : c.session = stored

(* The queue loses or reorders prompts while the conversation stays, or a  *)
(* prompt of this view joins it. *)
LEMMA QueueKeepsItsOwn ==
  ASSUME QueueFollowsView, UNCHANGED stored, created \subseteq created',
         \A n \in DOMAIN queue' : \/ \E m \in DOMAIN queue : queue'[n] = queue[m]
                                  \/ OfThisView(queue'[n])
  PROVE  QueueFollowsView'
<1> SUFFICES ASSUME NEW n \in DOMAIN queue'
             PROVE  OfThisView(queue[n])'
  BY DEF QueueFollowsView, OfThisView
<1>1. OfThisView(queue'[n])
  BY DEF QueueFollowsView, OfThisView
<1>2. QED
  BY <1>1 DEF OfThisView

(* An empty queue is anybody's. *)
LEMMA EmptyQueueFollows ==
  ASSUME queue' = <<>>
  PROVE  QueueFollowsView'
BY DEF QueueFollowsView

(* after_turn() takes the first one out. *)
LEMMA AfterTurnQueues ==
  ASSUME TypeOK, QueueFollowsView, AfterTurn, UNCHANGED <<stored, created>>
  PROVE  QueueFollowsView'
<1>1. queue \in Seq(Text)
  BY DEF TypeOK, TurnTypeOK
<1>2. CASE queue' = queue
  BY <1>2, QueueKeepsItsOwn
<1>3. CASE queue # <<>> /\ queue' = Tail(queue)
  <2>1. ASSUME NEW n \in DOMAIN queue'
        PROVE  \E m \in DOMAIN queue : queue'[n] = queue[m]
    <3>1. n + 1 \in DOMAIN queue /\ queue'[n] = queue[n + 1]
      BY <1>1, <1>3, <2>1
    <3>2. QED
      BY <3>1
  <2>2. QED
    BY <2>1, QueueKeepsItsOwn
<1>4. QED
  BY <1>2, <1>3 DEF AfterTurn, NextQueued

(* What the commands of the queue leave in it was there. *)
LEMMA QueueCommandsFollow ==
  ASSUME TypeOK, QueueFollowsView, NEW n \in DOMAIN queue, SendQueuedNow(n) \/ Unqueue(n)
  PROVE  QueueFollowsView'
<1>1. UNCHANGED <<stored, created>>
  BY DEF SendQueuedNow, Unqueue
<1>2. queue \in Seq(Text) /\ n \in 1 .. Len(queue) /\ queue[n] \in Text
  BY DEF TypeOK, TurnTypeOK
<1>3. /\ Without(n) \in Seq(Text)
      /\ \A m \in DOMAIN Without(n) : \E k \in DOMAIN queue : Without(n)[m] = queue[k]
  <2>1. ASSUME NEW m \in DOMAIN Without(n)
        PROVE  (IF m < n THEN m ELSE m + 1) \in DOMAIN queue
    BY <1>2, <2>1, WithoutIs
  <2>2. QED
    BY <2>1, WithoutIs
<1>4. CASE queue' = Without(n)
  BY <1>1, <1>3, <1>4, QueueKeepsItsOwn
<1>5. CASE queue' = <<queue[n]>> \o Without(n)
  <2> DEFINE w == Without(n)
             x == queue[n]
  <2> HIDE DEF w, x
  <2>1. w \in Seq(Text) /\ x \in Text
    BY <1>2, <1>3 DEF w, x
  <2>2. \A m \in DOMAIN (<<x>> \o w) :
          (<<x>> \o w)[m] = IF m = 1 THEN x ELSE w[m - 1]
    BY <2>1
  <2>3. \A m \in DOMAIN (<<x>> \o w) : m # 1 => m - 1 \in DOMAIN w
    BY <2>1
  <2>4. \A m \in DOMAIN queue' : queue'[m] = x \/ \E k \in DOMAIN w : queue'[m] = w[k]
    BY <1>5, <2>2, <2>3 DEF w, x
  <2>5. \A m \in DOMAIN queue' : \E k \in DOMAIN queue : queue'[m] = queue[k]
    BY <1>3, <2>4 DEF w, x
  <2>6. QED
    BY <1>1, <2>5, QueueKeepsItsOwn
<1>6. QED
  BY <1>4, <1>5 DEF SendQueuedNow, Unqueue

(* submit() queues what was typed in the conversation on screen. *)
LEMMA SubmitFollows ==
  ASSUME TypeOK, QueueFollowsView, Submit
  PROVE  QueueFollowsView'
<1> DEFINE text == [id |-> typed + 1, home |-> stored]
<1>1. UNCHANGED <<stored, created>> /\ queue \in Seq(Text)
  BY DEF Submit, TypeOK, TurnTypeOK
<1>2. OfThisView(text)
  BY DEF OfThisView
<1>3. text \in Text
  BY DEF Text, TypeOK, HistoryTypeOK, ViewTypeOK
<1>4. queue' = queue \/ queue' = Append(queue, text)
  BY DEF Submit
<1> HIDE DEF text
<1>5. CASE queue' = queue
  BY <1>1, <1>5, QueueKeepsItsOwn
<1>6. CASE queue' = Append(queue, text)
  <2>1. ASSUME NEW n \in DOMAIN queue', n # Len(queue) + 1
        PROVE  n \in DOMAIN queue /\ queue'[n] = queue[n]
    BY <1>1, <1>3, <1>6, <2>1, AppendProperties
  <2>2. queue'[Len(queue) + 1] = text
    BY <1>1, <1>3, <1>6, AppendProperties
  <2>3. \A n \in DOMAIN queue' : (\E m \in DOMAIN queue : queue'[n] = queue[m])
                                 \/ OfThisView(queue'[n])
    BY <1>2, <2>1, <2>2
  <2>4. QED
    BY <1>1, <2>3, QueueKeepsItsOwn
<1>7. QED
  BY <1>4, <1>5, <1>6

(* A session is taken over by a delivery or an open of this very view: the *)
(* one on screen already, or the one made for the blank chat.              *)
LEMMA TakingOverFollows ==
  ASSUME TypeOK, OneSession, AimInv, QueueFollowsView,
         \/ \E d \in delivers : DeliverAttaches(d)
         \/ \E o \in opens : OpenResumed(o)
  PROVE  QueueFollowsView'
<1>1. UNCHANGED <<queue, created>>
  BY DEF DeliverAttaches, OpenResumed
<1>2. CASE stored' = stored
  BY <1>1, <1>2, QueueKeepsItsOwn
<1>3. ASSUME NEW o \in opens, OpenResumed(o)
      PROVE  stored' = stored
  BY <1>3 DEF OpenResumed, OpenIsStale, ViewIsCurrent, OneSession
<1>4. ASSUME NEW d \in delivers, DeliverAttaches(d), stored' # stored
      PROVE  QueueFollowsView'
  <2>1. /\ FromThisView(d) /\ d.pc \in {"resumed", "created"}
        /\ stored' = d.target /\ d.target # stored
    BY <1>4 DEF DeliverAttaches, DeliverIsStale, FromThisView
  <2>2. Aim(d)
    BY DEF AimInv
  <2>3. d.pc = "created" /\ stored = None /\ [session |-> d.target, view |-> d.view] \in created
    BY <2>1, <2>2 DEF Aim
  <2>4. \E c \in created : c.session = d.target
    BY <2>3
  <2>5. \A n \in DOMAIN queue : queue[n].home = None
    BY <2>3 DEF QueueFollowsView
  <2>6. QED
    BY <1>1, <2>1, <2>4, <2>5 DEF QueueFollowsView
<1>5. QED
  BY <1>2, <1>3, <1>4

(* Every step of the client, its user and the network.                     *)
LEMMA StepQueues ==
  ASSUME TypeOK, OneSession, AimInv, QueueFollowsView, [Next]_vars
  PROVE  QueueFollowsView'
<1>0. ASSUME UNCHANGED <<queue, stored>>, created \subseteq created'
      PROVE  QueueFollowsView'
  BY <1>0, QueueKeepsItsOwn
<1>1. CASE ConnectTaskNext
  <2>1. queue' = <<>> \/ UNCHANGED <<queue, stored, created>>
    BY <1>1 DEF ConnectTaskNext, ConnectProbed, ConnectAttach, ConnectEnsured, ConnectRetry,
       ConnectReopen, ConnectOpen, Open, ReturnPendingToComposer
  <2>2. QED
    BY <1>0, <2>1, EmptyQueueFollows
<1>2. CASE EnsureStreamNext \/ RetryNext \/ RestartNext
  BY <1>0, <1>2 DEF EnsureStreamNext, EnsureBegin, EnsureDial, EnsureSettle, RetryNext,
     RetryFires, RetryConnects, RestartNext, ServerRestarted, RestartConnects
<1>3. CASE OpenTaskNext
  <2>1. PICK o \in opens :
      \/ OpenAttach(o) \/ OpenEnsured(o) \/ OpenHistory(o) \/ OpenResume(o)
      \/ OpenResumed(o) \/ OpenStreamLost(o) \/ OpenRetry(o)
    BY <1>3 DEF OpenTaskNext
  <2>2. QED
    BY <1>0, <2>1, TakingOverFollows DEF OpenAttach, OpenEnsured, OpenHistory, OpenResume,
       OpenStreamLost, OpenRetry
<1>4. CASE DeliverNext
  <2>1. PICK d \in delivers :
        \/ DeliverChecks(d) \/ DeliverConnects(d) \/ DeliverWaits(d)
        \/ DeliverReadsBackend(d) \/ DeliverLocks(d) \/ DeliverAims(d)
        \/ DeliverResumes(d) \/ DeliverCreates(d) \/ DeliverAttaches(d)
        \/ DeliverSubmits(d) \/ DeliverTakesBack(d)
    BY <1>4 DEF DeliverNext
  <2>2. CASE DeliverAttaches(d)
    BY <2>2, TakingOverFollows
  <2>3. CASE ~DeliverAttaches(d)
    BY <1>0, <2>1, <2>3 DEF DeliverChecks, DeliverConnects, DeliverWaits, DeliverReadsBackend,
       DeliverLocks, DeliverAims, DeliverResumes, DeliverCreates, DeliverSubmits,
       DeliverTakesBack
  <2>4. QED
    BY <2>2, <2>3
<1>5. CASE StopTaskNext \/ WindowContinues \/ PumpNext
  <2>1. UNCHANGED <<stored, created>> /\ (UNCHANGED queue \/ AfterTurn)
    <3>1. CASE StopTaskNext
      BY <3>1 DEF StopTaskNext, StopInterrupts, StopGraceEnds, StopAfterTurn, StopSends
    <3>2. CASE WindowContinues
      BY <3>2 DEF WindowContinues, WindowConnects, WindowClearsScope, WindowSends,
         WindowAnswers, WindowStops, WindowAfterTurn
    <3>3. CASE PumpNext
      BY <3>3 DEF PumpNext, DropsEvent, HandleConnected, HandleSessionInfo, HandleClarify,
         HandleLost, HandleTurn, PumpStreamLost, PumpRetry, PumpAfterTurn, PumpSends
    <3>4. QED
      BY <1>5, <3>1, <3>2, <3>3
  <2>2. QED
    BY <1>0, <2>1, AfterTurnQueues
<1>6. CASE CommandNext \/ ListFails
  <2>1. CASE \/ CommandConnect \/ DisableBackend \/ ApplyWorkspace \/ CommandStop
             \/ DismissClarify \/ ListFails
    BY <1>0, <2>1 DEF CommandConnect, DisableBackend, ApplyWorkspace, CommandStop,
       DismissClarify, ListFails
  <2>2. CASE NewChat \/ (\E k \in Kind : SwitchBackend(k)) \/ (\E s \in Session : OpenSession(s))
    BY <2>2, EmptyQueueFollows DEF NewChat, SwitchBackend, OpenSession, Open,
       ReturnPendingToComposer
  <2>3. CASE \E n \in DOMAIN queue : SendQueuedNow(n) \/ Unqueue(n)
    BY <2>3, QueueCommandsFollow
  <2>4. QED
    BY <1>6, <2>1, <2>2, <2>3, SubmitFollows DEF CommandNext
<1>7. CASE AdapterTaskNext \/ StreamNext
  <2>1. UNCHANGED <<queue, stored, created>>
    <3>1. CASE AdapterTaskNext
      BY <3>1 DEF AdapterTaskNext, AdapterDisconnects, ClearScope, AnswerEnds
    <3>2. CASE StreamNext
      BY <3>2 DEF StreamNext, StreamConnects, StreamFails, StreamDrops, StreamFrame,
         StreamQuestion, StreamSessionInfo, Reports
    <3>3. QED
      BY <1>7, <3>1, <3>2
  <2>2. QED
    BY <1>0, <2>1
<1>8. CASE UNCHANGED vars
  BY <1>0, <1>8 DEF vars
<1>9. QED
  BY <1>1, <1>2, <1>3, <1>4, <1>5, <1>6, <1>7, <1>8 DEF Next, TaskNext, Idle

-----------------------------------------------------------------------------
(* At the start nothing is on its way.                                     *)
LEMMA InitRoutes ==
  ASSUME Init
  PROVE  RoutingInv
BY DEF Init, RoutingInv, LockInv, OneSession, NothingAnnounced, AimInv, PromptReachesItsView,
   QueueFollowsView

(* The routing invariant is inductive, given the types.                    *)
LEMMA StepKeepsRouting ==
  ASSUME TypeOK, RoutingInv, [Next]_vars
  PROVE  RoutingInv'
<1>1. LockInv' /\ NothingAnnounced' /\ OneSession' /\ AimInv'
  BY StepKeepsLocks, StepStaysQuiet, StepRoutes DEF RoutingInv
<1>2. (AnnouncesSessions \/ PromptReachesItsView)'
  BY StepDelivers DEF RoutingInv
<1>3. QueueFollowsView'
  BY StepQueues DEF RoutingInv
<1>4. QED
  BY <1>1, <1>2, <1>3 DEF RoutingInv

(* Every reachable state is routed. *)
LEMMA AlwaysRouted == Spec => []RoutingInv
BY InitRoutes, StepKeepsRouting, TypeCorrect, PTL DEF Spec

(* With a gateway that sends no session.info, a prompt reaches the session that *)
(* was on screen when send() ran, or the one made for its blank chat, whatever *)
(* runs between the regions of its delivery (send.rs:106-177).             *)
THEOREM PromptRouting ==
  ASSUME ~AnnouncesSessions
  PROVE  Spec => []PromptReachesItsView
<1>1. RoutingInv => PromptReachesItsView
  BY DEF RoutingInv
<1>2. QED
  BY <1>1, AlwaysRouted, PTL

(* With every gateway, a prompt that waits behind a turn was typed in the  *)
(* conversation on screen, or in the blank chat that became it: whatever   *)
(* leaves a conversation takes its queue back to the composer, and nothing *)
(* else changes which one is stored (connect.rs:361, sessions.rs:113-151,  *)
(* send.rs:128-157).                                                       *)
THEOREM QueueIsOfThisView == Spec => []QueueFollowsView
<1>1. RoutingInv => QueueFollowsView
  BY DEF RoutingInv
<1>2. QED
  BY <1>1, AlwaysRouted, PTL

-----------------------------------------------------------------------------
(* Opened here, or made here. *)
Known(s) == s \in opened \/ \E c \in created : c.session = s

Replies == {"Delta", "Complete", "TurnFailed"}

FiltersKnown == \A i \in Adapters : \A s \in backends[i].scope : Known(s)

RepliesKnown ==
  \A p \in pumps : \A n \in DOMAIN p.events :
    p.events[n].kind \in Replies => Known(p.events[n].session)

(* Whom the tasks ask an adapter for, and what the next prompt resumes. *)
AskedKnown ==
  /\ \A o \in opens : Known(o.session)
  /\ \A d \in delivers : d.pc \in {"resume", "resumed", "created"} => Known(d.target)
  /\ stored = None \/ Known(stored)

KnownInv == FiltersKnown /\ RepliesKnown /\ AskedKnown /\ NoStrangers

-----------------------------------------------------------------------------
(* Who is known stays known. *)
KnownGrows == opened \subseteq opened' /\ created \subseteq created'

LEMMA KnownStays ==
  ASSUME KnownGrows, NEW s, Known(s)
  PROVE  Known(s)'
BY DEF KnownGrows, Known

(* No step forgets a session it opened or made. *)
LEMMA StepGrows ==
  ASSUME [Next]_vars
  PROVE  KnownGrows
<1>1. CASE ConnectTaskNext
  BY <1>1 DEF ConnectTaskNext, ConnectProbed, ConnectAttach,
     ConnectEnsured, ConnectRetry, ConnectReopen, ConnectOpen, Open, KnownGrows
<1>2. CASE EnsureStreamNext \/ RetryNext \/ RestartNext
  BY <1>2 DEF EnsureStreamNext, EnsureBegin, EnsureDial, EnsureSettle, RetryNext,
     RetryFires, RetryConnects, RestartNext, ServerRestarted, RestartConnects, KnownGrows
<1>3. CASE OpenTaskNext
  BY <1>3 DEF OpenTaskNext, OpenAttach, OpenEnsured, OpenHistory, OpenResume, OpenResumed,
     OpenStreamLost, OpenRetry, KnownGrows
<1>4. CASE DeliverNext
  BY <1>4 DEF DeliverNext, DeliverChecks, DeliverConnects, DeliverWaits, DeliverReadsBackend,
     DeliverLocks, DeliverAims, DeliverResumes, DeliverCreates, DeliverAttaches, DeliverSubmits,
     DeliverTakesBack, KnownGrows
<1>5. CASE StopTaskNext \/ WindowContinues
  BY <1>5 DEF StopTaskNext, StopInterrupts, StopGraceEnds, StopAfterTurn, StopSends,
     WindowContinues, WindowConnects, WindowClearsScope, WindowSends, WindowAnswers,
     WindowStops, WindowAfterTurn, KnownGrows
<1>6. CASE PumpNext
  BY <1>6 DEF PumpNext, DropsEvent, HandleConnected, HandleSessionInfo, HandleClarify,
     HandleLost, HandleTurn, PumpStreamLost, PumpRetry, PumpAfterTurn, PumpSends, KnownGrows
<1>7. CASE CommandNext \/ ListFails
  BY <1>7 DEF CommandNext, ListFails, CommandConnect, DisableBackend, ApplyWorkspace,
     SwitchBackend, OpenSession, NewChat, Submit, CommandStop, DismissClarify,
     SendQueuedNow, Unqueue, Open, KnownGrows
<1>8. CASE AdapterTaskNext \/ StreamNext
  BY <1>8 DEF AdapterTaskNext, AdapterDisconnects, ClearScope, AnswerEnds, StreamNext,
     StreamConnects, StreamFails, StreamDrops, StreamFrame, StreamQuestion, StreamSessionInfo,
     Reports, KnownGrows
<1>9. CASE UNCHANGED vars
  BY <1>9 DEF vars, KnownGrows
<1>10. QED
  BY <1>1, <1>2, <1>3, <1>4, <1>5, <1>6, <1>7, <1>8, <1>9 DEF Next, TaskNext, Idle

-----------------------------------------------------------------------------
(* The filters. *)

(* What a filter lets through it let through before, or is known by now. *)
FiltersFollow ==
  \A i \in Adapters' : \A s \in backends'[i].scope :
    (i \in Adapters /\ s \in backends[i].scope) \/ Known(s)'

LEMMA FiltersStayKnown ==
  ASSUME KnownGrows, FiltersKnown, FiltersFollow
  PROVE  FiltersKnown'
<1> SUFFICES ASSUME NEW i \in Adapters', NEW s \in backends'[i].scope
             PROVE  Known(s)'
  BY DEF FiltersKnown
<1>1. Known(s) => Known(s)'
  BY KnownStays
<1>2. QED
  BY <1>1 DEF FiltersFollow, FiltersKnown

(* A lock moves: no filter does. *)
LEMMA HeldFilters ==
  ASSUME TypeOK, NEW i, NEW g, Held(i, g)
  PROVE  FiltersFollow
<1>1. Adapters' = Adapters
  BY HeldMoves
<1>2. ASSUME NEW j \in Adapters
      PROVE  backends'[j].scope = backends[j].scope
  <2>1. backends[j] \in Adapter
    BY AdapterTyped
  <2>2. QED
    BY <2>1 DEF TypeOK, AdaptersTypeOK, Held, Adapters, Adapter
<1>3. QED
  BY <1>1, <1>2 DEF FiltersFollow

(* An adapter is scoped to sessions that are known, or to none. *)
LEMMA ScopedFilters ==
  ASSUME TypeOK, NEW i, NEW ids, Scoped(i, ids), \A s \in ids : Known(s)'
  PROVE  FiltersFollow
<1>1. Adapters' = Adapters
  BY ScopedMoves
<1>2. ASSUME NEW j \in Adapters
      PROVE  backends'[j].scope \in {backends[j].scope, ids}
  <2>1. backends[j] \in Adapter
    BY AdapterTyped
  <2>2. QED
    BY <2>1 DEF TypeOK, AdaptersTypeOK, Scoped, Adapters, Adapter
<1>3. QED
  BY <1>1, <1>2 DEF FiltersFollow

(* An adapter's record is replaced, its filter narrowed. *)
LEMMA RewrittenFilters ==
  ASSUME TypeOK, NEW i \in Adapters, NEW b, backends' = [backends EXCEPT ![i] = b],
         b.scope \subseteq backends[i].scope
  PROVE  FiltersFollow
<1>1. Adapters' = Adapters /\ \A j \in Adapters : backends'[j] = IF j = i THEN b ELSE backends[j]
  BY AdapterRewritten
<1>2. \A j \in Adapters : backends'[j].scope \subseteq backends[j].scope
  BY <1>1
<1>3. QED
  BY <1>1, <1>2 DEF FiltersFollow

(* The adapters are as they were. *)
LEMMA SameFilters ==
  ASSUME UNCHANGED backends
  PROVE  FiltersFollow
BY DEF FiltersFollow, Adapters

(* connect, ensure_stream, open. *)
LEMMA ConnectsFilter ==
  ASSUME TypeOK, ConnectTaskNext \/ EnsureStreamNext
  PROVE  FiltersFollow
<1>1. CASE ConnectTaskNext
  <2>1. UNCHANGED backends \/ \E i, g : Held(i, g)
    BY <1>1 DEF ConnectTaskNext, ConnectProbed, ConnectAttach, ConnectEnsured, ConnectRetry,
       ConnectReopen, ConnectOpen
  <2>2. QED
    BY <2>1, HeldFilters, SameFilters
<1>2. CASE EnsureStreamNext
  <2>1. PICK i \in Adapters : EnsureBegin(i) \/ EnsureDial(i) \/ EnsureSettle(i)
    BY <1>2 DEF EnsureStreamNext
  <2>2. backends[i] \in Adapter
    BY AdapterTyped
  <2>3. CASE EnsureBegin(i)
    <3> DEFINE b == [backends[i] EXCEPT !.guard = "dial", !.channel = connection_epoch + 1]
    <3>1. b.scope = backends[i].scope
      BY <2>2 DEF Adapter
    <3>2. (\E g : Held(i, g)) \/ backends' = [backends EXCEPT ![i] = b]
      BY <2>2, <2>3 DEF EnsureBegin, Adapter, TypeOK, AdaptersTypeOK, Adapters
    <3>3. QED
      BY <3>1, <3>2, HeldFilters, RewrittenFilters
  <2>4. CASE EnsureDial(i)
    <3> DEFINE b(g, s) == [[backends[i] EXCEPT !.epoch = connection_epoch, !.up = FALSE,
                                               !.scope = {}] EXCEPT !.guard = g, !.stream = s]
    <3>1. \A g, s : b(g, s).scope = {}
      BY <2>2 DEF Adapter
    <3>2. \/ backends' = [backends EXCEPT ![i] = b("dialled", backends[i].channel)]
          \/ backends' = [backends EXCEPT ![i] = b("refused", 0)]
      BY <2>4 DEF EnsureDial
    <3> HIDE DEF b
    <3>3. QED
      BY <3>1, <3>2, RewrittenFilters
  <2>5. CASE EnsureSettle(i)
    <3>1. \E g : Held(i, g)
      BY <2>5 DEF EnsureSettle
    <3>2. QED
      BY <3>1, HeldFilters
  <2>6. QED
    BY <2>1, <2>3, <2>4, <2>5
<1>3. QED
  BY <1>1, <1>2

(* An open scopes the adapter to its own session, or takes that back. *)
LEMMA OpensFilter ==
  ASSUME TypeOK, LockInv, KnownGrows, AskedKnown, OpenTaskNext
  PROVE  FiltersFollow
<1>1. PICK o \in opens :
      \/ OpenAttach(o) \/ OpenEnsured(o) \/ OpenHistory(o) \/ OpenResume(o)
      \/ OpenResumed(o) \/ OpenStreamLost(o) \/ OpenRetry(o)
  BY DEF OpenTaskNext
<1>2. CASE \/ OpenAttach(o) \/ OpenEnsured(o) \/ OpenHistory(o)
           \/ OpenStreamLost(o) \/ OpenRetry(o)
  <2>1. UNCHANGED backends \/ \E i, g : Held(i, g)
    BY <1>2 DEF OpenAttach, OpenEnsured, OpenHistory, OpenStreamLost, OpenRetry
  <2>2. QED
    BY <2>1, HeldFilters, SameFilters
<1>3. CASE OpenResume(o)
  <2>1. \A s \in {o.session} : Known(s)'
    BY KnownStays DEF AskedKnown
  <2>2. UNCHANGED backends \/ (\E g : Held(o.inst, g)) \/ Scoped(o.inst, {o.session})
    BY <1>3 DEF OpenResume
  <2>3. QED
    BY <2>1, <2>2, HeldFilters, SameFilters, ScopedFilters
<1>4. CASE OpenResumed(o)
  <2> DEFINE b == [backends[o.inst] EXCEPT !.guard = "free",
                                           !.scope = IF selected = None THEN {} ELSE @]
  <2>1. o.inst \in Adapters
    BY <1>4 DEF OpenResumed, LockInv, OpenHasAdapter, OpenHolds
  <2>2. backends[o.inst] \in Adapter
    BY <2>1, AdapterTyped
  <2>3. Held(o.inst, "free") \/ backends' = [backends EXCEPT ![o.inst] = b]
    BY <1>4, <2>1, <2>2 DEF OpenResumed, Adapter
  <2>4. b.scope \subseteq backends[o.inst].scope
    BY <2>2 DEF Adapter
  <2> HIDE DEF b
  <2>5. QED
    BY <2>1, <2>3, <2>4, HeldFilters, RewrittenFilters
<1>5. QED
  BY <1>1, <1>2, <1>3, <1>4

(* A delivery scopes it to what it resumes or makes, or to nothing before. *)
LEMMA DeliveriesFilter ==
  ASSUME TypeOK, LockInv, KnownGrows, AskedKnown, DeliverNext
  PROVE  FiltersFollow
<1>1. PICK d \in delivers :
        \/ DeliverChecks(d) \/ DeliverConnects(d) \/ DeliverWaits(d)
        \/ DeliverReadsBackend(d) \/ DeliverLocks(d) \/ DeliverAims(d)
        \/ DeliverResumes(d) \/ DeliverCreates(d) \/ DeliverAttaches(d)
        \/ DeliverSubmits(d) \/ DeliverTakesBack(d)
  BY DEF DeliverNext
<1>2. CASE \/ DeliverChecks(d) \/ DeliverConnects(d) \/ DeliverWaits(d)
           \/ DeliverReadsBackend(d) \/ DeliverLocks(d) \/ DeliverAttaches(d)
           \/ DeliverSubmits(d) \/ DeliverTakesBack(d)
  <2>1. UNCHANGED backends \/ \E i, g : Held(i, g)
    BY <1>2 DEF DeliverChecks, DeliverConnects, DeliverWaits, DeliverReadsBackend,
       DeliverLocks, DeliverAttaches, DeliverSubmits, DeliverTakesBack
  <2>2. QED
    BY <2>1, HeldFilters, SameFilters
<1>3. CASE DeliverAims(d)
  <2> DEFINE b == [backends[d.inst] EXCEPT !.guard = "held", !.scope = {}]
  <2>1. d.inst \in Adapters
    BY <1>3 DEF DeliverAims, LockInv, DeliverHasAdapter
  <2>2. backends[d.inst] \in Adapter
    BY <2>1, AdapterTyped
  <2>3. \/ \E g : Held(d.inst, g)
        \/ backends' = [backends EXCEPT ![d.inst].guard = "held", ![d.inst].scope = {}]
    BY <1>3 DEF DeliverAims
  <2>4. CASE \E g : Held(d.inst, g)
    BY <2>4, HeldFilters
  <2>5. CASE backends' = [backends EXCEPT ![d.inst].guard = "held", ![d.inst].scope = {}]
    <3>1. backends' = [backends EXCEPT ![d.inst] = b]
      BY <2>1, <2>2, <2>5 DEF Adapter
    <3>2. b.scope \subseteq backends[d.inst].scope
      BY <2>2 DEF Adapter
    <3> HIDE DEF b
    <3>3. QED
      BY <2>1, <3>1, <3>2, RewrittenFilters
  <2>6. QED
    BY <2>3, <2>4, <2>5
<1>4. CASE DeliverResumes(d)
  <2>1. \A s \in {d.target} : Known(s)'
    BY <1>4, KnownStays DEF AskedKnown, DeliverResumes
  <2>2. (\E g : Held(d.inst, g)) \/ Scoped(d.inst, {d.target})
    BY <1>4 DEF DeliverResumes
  <2>3. QED
    BY <2>1, <2>2, HeldFilters, ScopedFilters
<1>5. CASE DeliverCreates(d)
  <2>1. ASSUME NEW s \in Session, created' = created \cup {[session |-> s, view |-> d.view]}
        PROVE  Known(s)'
    <3> DEFINE c == [session |-> s, view |-> d.view]
    <3>1. c \in created' /\ c.session = s
      BY <2>1
    <3> HIDE DEF c
    <3>2. QED
      BY <3>1 DEF Known
  <2>2. CASE \E g : Held(d.inst, g)
    BY <2>2, HeldFilters
  <2>3. ASSUME NEW s \in Session, Scoped(d.inst, {s}),
               created' = created \cup {[session |-> s, view |-> d.view]}
        PROVE  FiltersFollow
    <3>1. \A t \in {s} : Known(t)'
      BY <2>1, <2>3
    <3>2. QED
      BY <2>3, <3>1, ScopedFilters
  <2>4. QED
    BY <1>5, <2>2, <2>3 DEF DeliverCreates
<1>6. QED
  BY <1>1, <1>2, <1>3, <1>4, <1>5

-----------------------------------------------------------------------------
(* The channels. *)

(* An event enters a channel: a reply of somebody known, or no reply. *)
LEMMA EmittedKnown ==
  ASSUME TypeOK, KnownGrows, RepliesKnown, NEW e, NEW event \in Event,
         event.kind \in Replies => Known(event.session)',
         pumps' = Emit(pumps, e, event)
  PROVE  RepliesKnown'
<1> SUFFICES ASSUME NEW q \in pumps', NEW n \in DOMAIN q.events, q.events[n].kind \in Replies
             PROVE  Known(q.events[n].session)'
  BY DEF RepliesKnown
<1>1. PICK p \in pumps : q = IF p.epoch = e THEN [p EXCEPT !.events = Append(@, event)] ELSE p
  BY DEF Emit
<1>2. p \in Pump /\ p.events \in Seq(Event)
  BY DEF TypeOK, TasksTypeOK, Pump
<1>3. q.events[n] = event \/ \E m \in DOMAIN p.events : q.events[n] = p.events[m]
  <2>1. CASE p.epoch = e
    <3>1. q.events = Append(p.events, event)
      BY <1>1, <1>2, <2>1 DEF Pump
    <3>2. CASE n = Len(p.events) + 1
      BY <1>2, <3>1, <3>2, AppendProperties
    <3>3. CASE n # Len(p.events) + 1
      <4>1. n \in DOMAIN p.events /\ q.events[n] = p.events[n]
        BY <1>2, <3>1, <3>3, AppendProperties
      <4>2. QED
        BY <4>1
    <3>4. QED
      BY <3>2, <3>3
  <2>2. CASE p.epoch # e
    BY <1>1, <2>2
  <2>3. QED
    BY <2>1, <2>2
<1>4. ASSUME NEW m \in DOMAIN p.events, q.events[n] = p.events[m]
      PROVE  Known(q.events[n].session)'
  <2>1. Known(p.events[m].session)
    BY <1>4 DEF RepliesKnown
  <2>2. Known(p.events[m].session)'
    BY <2>1, KnownStays
  <2>3. QED
    BY <1>4, <2>2
<1>5. QED
  BY <1>3, <1>4

(* A pump handles its next event, or goes on after one. *)
LEMMA HandledKnown ==
  ASSUME KnownGrows, RepliesKnown, NEW p \in pumps, NEW q,
         p.events \in Seq(Event),
         q.events = p.events \/ (p.events # <<>> /\ q.events = Tail(p.events)),
         pumps' = (pumps \ {p}) \cup {q}
  PROVE  RepliesKnown'
<1> SUFFICES ASSUME NEW r \in pumps', NEW n \in DOMAIN r.events, r.events[n].kind \in Replies
             PROVE  Known(r.events[n].session)'
  BY DEF RepliesKnown
<1>1. \E o \in pumps : \E m \in DOMAIN o.events : r.events[n] = o.events[m]
  <2>1. CASE r \in pumps
    BY <2>1
  <2>2. CASE r = q /\ q.events = p.events
    BY <2>2
  <2>3. CASE r = q /\ p.events # <<>> /\ q.events = Tail(p.events)
    <3>1. n + 1 \in DOMAIN p.events /\ r.events[n] = p.events[n + 1]
      BY <2>3
    <3>2. QED
      BY <3>1
  <2>4. QED
    BY <2>1, <2>2, <2>3
<1>2. PICK o \in pumps : \E m \in DOMAIN o.events : r.events[n] = o.events[m]
  BY <1>1
<1>3. PICK m \in DOMAIN o.events : r.events[n] = o.events[m]
  BY <1>2
<1>4. Known(o.events[m].session)
  BY <1>3 DEF RepliesKnown
<1>5. Known(o.events[m].session)'
  BY <1>4, KnownStays
<1>6. QED
  BY <1>3, <1>5

(* No event comes or goes. *)
LEMMA SameChannels ==
  ASSUME KnownGrows, RepliesKnown, UNCHANGED pumps
  PROVE  RepliesKnown'
<1> SUFFICES ASSUME NEW p \in pumps, NEW n \in DOMAIN p.events, p.events[n].kind \in Replies
             PROVE  Known(p.events[n].session)'
  BY DEF RepliesKnown
<1>1. Known(p.events[n].session)
  BY DEF RepliesKnown
<1>2. QED
  BY <1>1, KnownStays

(* The last word of a stream is no reply. *)
LEMMA LastWordKnown ==
  ASSUME TypeOK, KnownGrows, RepliesKnown, NEW i, LastWord(i)
  PROVE  RepliesKnown'
<1>1. Plain("Disconnected") \in Event /\ Plain("Disconnected").kind \notin Replies
  BY PlainTyped DEF Plain, Replies
<1>2. QED
  BY <1>1, EmittedKnown, SameChannels DEF LastWord

(* What a stream reports passed its adapter's filter. *)
LEMMA StreamsReportKnown ==
  ASSUME ~AnnouncesSessions, TypeOK, KnownGrows, FiltersKnown, RepliesKnown, StreamNext
  PROVE  RepliesKnown' /\ FiltersFollow
<1>1. PICK i \in Adapters :
        \/ StreamConnects(i) \/ StreamFails(i) \/ StreamDrops(i)
        \/ \E s \in Session :
             \/ \E k \in {"Delta", "Complete", "TurnFailed"} : StreamFrame(i, s, k)
             \/ StreamQuestion(i, s)
             \/ StreamSessionInfo(i, s)
  BY DEF StreamNext
<1>2. backends[i] \in Adapter
  BY AdapterTyped
<1>3. ASSUME NEW event \in Event, event.kind \in Replies => Known(event.session),
             NEW b, b.scope = backends[i].scope, Reports(i, event, b)
      PROVE  RepliesKnown' /\ FiltersFollow
  <2>1. Known(event.session) => Known(event.session)'
    BY KnownStays
  <2>2. RepliesKnown'
    BY <1>3, <2>1, EmittedKnown DEF Reports
  <2>3. FiltersFollow
    BY <1>3, RewrittenFilters DEF Reports
  <2>4. QED
    BY <2>2, <2>3
<1>4. \A k \in {"Connected", "Disconnected", "Failed"} :
        Plain(k) \in Event /\ Plain(k).kind \notin Replies
  BY PlainTyped DEF Plain, Replies
<1>5. CASE StreamConnects(i) \/ StreamFails(i) \/ StreamDrops(i)
  <2> DEFINE up   == [backends[i] EXCEPT !.up = TRUE]
             gone == [backends[i] EXCEPT !.stream = 0]
             lost == [backends[i] EXCEPT !.stream = 0, !.up = FALSE]
  <2>1. /\ up.scope = backends[i].scope /\ gone.scope = backends[i].scope
        /\ lost.scope = backends[i].scope
    BY <1>2 DEF Adapter
  <2>2. \E k \in {"Connected", "Disconnected", "Failed"} :
          Reports(i, Plain(k), up) \/ Reports(i, Plain(k), gone) \/ Reports(i, Plain(k), lost)
    BY <1>5 DEF StreamConnects, StreamFails, StreamDrops
  <2> HIDE DEF up, gone, lost
  <2>3. QED
    BY <1>3, <1>4, <2>1, <2>2
<1>6. ASSUME NEW s \in Session, NEW k \in {"Delta", "Complete", "TurnFailed"}, StreamFrame(i, s, k)
      PROVE  RepliesKnown' /\ FiltersFollow
  <2> DEFINE event == [kind |-> k, session |-> s]
  <2>1. event \in Event /\ event.session = s
    BY DEF Event
  <2>2. Known(s)
    BY <1>6 DEF StreamFrame, BelongsToOpenSession, FiltersKnown
  <2>3. Reports(i, event, backends[i])
    BY <1>6 DEF StreamFrame
  <2> HIDE DEF event
  <2>4. QED
    BY <1>3, <2>1, <2>2, <2>3
<1>7. ASSUME NEW s \in Session, StreamQuestion(i, s)
      PROVE  RepliesKnown' /\ FiltersFollow
  <2> DEFINE event == [kind |-> "Clarify", session |-> s]
  <2>1. event \in Event /\ event.kind \notin Replies
    BY DEF Event, Replies
  <2>2. Reports(i, event, backends[i])
    BY <1>7 DEF StreamQuestion
  <2> HIDE DEF event
  <2>3. QED
    BY <1>3, <2>1, <2>2
<1>8. QED
  BY <1>1, <1>5, <1>6, <1>7 DEF StreamSessionInfo

(* What a pump draws is the reply it takes out. *)
LEMMA PumpsDrawKnown ==
  ASSUME TypeOK, KnownGrows, RepliesKnown, NoStrangers, PumpNext
  PROVE  RepliesKnown' /\ NoStrangers'
<1>1. PICK p \in pumps :
        \/ DropsEvent(p) \/ HandleConnected(p) \/ HandleSessionInfo(p) \/ HandleClarify(p)
        \/ HandleLost(p) \/ HandleTurn(p)
        \/ PumpStreamLost(p) \/ PumpRetry(p) \/ PumpAfterTurn(p) \/ PumpSends(p)
  BY DEF PumpNext
<1>2. p \in Pump /\ p.events \in Seq(Event)
  BY DEF TypeOK, TasksTypeOK, Pump
<1>3. RepliesKnown'
  <2>1. ASSUME NEW pc, p.events # <<>>, Handled(p, pc)
        PROVE  RepliesKnown'
    <3> DEFINE q == [p EXCEPT !.events = Tail(@), !.pc = pc]
    <3>1. q.events = Tail(p.events)
      BY <1>2 DEF Pump
    <3>2. pumps' = (pumps \ {p}) \cup {q}
      BY <2>1 DEF Handled
    <3> HIDE DEF q
    <3>3. QED
      BY <1>2, <2>1, <3>1, <3>2, HandledKnown
  <2>2. CASE \/ DropsEvent(p) \/ HandleConnected(p) \/ HandleSessionInfo(p) \/ HandleClarify(p)
             \/ HandleLost(p) \/ HandleTurn(p)
    BY <2>1, <2>2 DEF DropsEvent, HandleConnected, HandleSessionInfo, HandleClarify,
       HandleLost, HandleTurn, Ready
  <2>3. CASE PumpStreamLost(p)
    <3> DEFINE q == [p EXCEPT !.pc = "retry", !.gen = connect_generation]
    <3>1. q.events = p.events
      BY <1>2 DEF Pump
    <3>2. pumps' = (pumps \ {p}) \cup {q}
      BY <2>3 DEF PumpStreamLost
    <3> HIDE DEF q
    <3>3. QED
      BY <1>2, <3>1, <3>2, HandledKnown
  <2>4. CASE PumpRetry(p)
    <3> DEFINE q == [p EXCEPT !.pc = "idle", !.gen = 0]
    <3>1. q.events = p.events
      BY <1>2 DEF Pump
    <3>2. pumps' = (pumps \ {p}) \cup {q}
      BY <2>4 DEF PumpRetry
    <3> HIDE DEF q
    <3>3. QED
      BY <1>2, <3>1, <3>2, HandledKnown
  <2>5. CASE PumpAfterTurn(p)
    <3> DEFINE q == [p EXCEPT !.pc = IF NextQueued = NoText THEN "idle" ELSE "send",
                              !.text = NextQueued]
    <3>1. q.events = p.events
      BY <1>2 DEF Pump
    <3>2. pumps' = (pumps \ {p}) \cup {q}
      BY <2>5 DEF PumpAfterTurn
    <3> HIDE DEF q
    <3>3. QED
      BY <1>2, <3>1, <3>2, HandledKnown
  <2>6. CASE PumpSends(p)
    <3> DEFINE q == [p EXCEPT !.pc = "idle", !.text = NoText]
    <3>1. q.events = p.events
      BY <1>2 DEF Pump
    <3>2. pumps' = (pumps \ {p}) \cup {q}
      BY <2>6 DEF PumpSends
    <3> HIDE DEF q
    <3>3. QED
      BY <1>2, <3>1, <3>2, HandledKnown
  <2>7. QED
    BY <1>1, <2>2, <2>3, <2>4, <2>5, <2>6
<1>4. origins' \subseteq origins \/ (\E s : origins' = origins \cup {s} /\ Known(s))
  <2>1. CASE HandleTurn(p)
    <3> DEFINE event == Head(p.events)
    <3>1. p.events # <<>> /\ event.kind \in Replies
      BY <2>1 DEF HandleTurn, Ready, Replies
    <3>2. 1 \in DOMAIN p.events /\ event = p.events[1]
      BY <1>2, <3>1
    <3>3. Known(event.session)
      BY <3>1, <3>2 DEF RepliesKnown
    <3>4. origins' = origins \/ origins' = origins \cup {event.session}
      BY <2>1 DEF HandleTurn
    <3>5. QED
      BY <3>3, <3>4
  <2>2. CASE ~HandleTurn(p)
    BY <1>1, <2>2 DEF DropsEvent, HandleConnected, HandleSessionInfo, HandleClarify,
       HandleLost, PumpStreamLost, PumpRetry, PumpAfterTurn, PumpSends
  <2>3. QED
    BY <2>1, <2>2
<1>5. \A s \in origins' : Known(s)
  BY <1>4 DEF NoStrangers, Known
<1>6. \A s \in origins' : Known(s)'
  BY <1>5, KnownStays
<1>7. QED
  BY <1>3, <1>6 DEF NoStrangers, Known

-----------------------------------------------------------------------------
(* The tasks. *)

(* Whom a task that goes on, or a new one, asks for. *)
LEMMA AskedStayKnown ==
  ASSUME KnownGrows, AskedKnown,
         \A o \in opens' : (\E p \in opens : o.session = p.session) \/ Known(o.session)',
         \A d \in delivers' :
           \/ d.pc \notin {"resume", "resumed", "created"}
           \/ \E e \in delivers : e.pc \in {"resume", "resumed", "created"} /\ d.target = e.target
           \/ Known(d.target)',
         stored' \in {None, stored} \/ \E s : stored' = s /\ Known(s)'
  PROVE  AskedKnown'
<1>1. \A o \in opens : Known(o.session)'
  BY KnownStays DEF AskedKnown
<1>2. \A d \in delivers : d.pc \in {"resume", "resumed", "created"} => Known(d.target)'
  BY KnownStays DEF AskedKnown
<1>3. ASSUME stored # None
      PROVE  \E s : s = stored /\ Known(s)'
  BY <1>3, KnownStays DEF AskedKnown
<1>4. stored' = None \/ \E s : stored' = s /\ Known(s)'
  BY <1>3
<1>5. \A o \in opens' : Known(o.session)'
  BY <1>1
<1>6. \A d \in delivers' : d.pc \in {"resume", "resumed", "created"} => Known(d.target)'
  BY <1>2
<1>7. (stored = None \/ Known(stored))'
  BY <1>4 DEF Known
<1>8. QED
  BY <1>5, <1>6, <1>7 DEF AskedKnown, Known

(* open() opens a session that is known from then on. *)
LEMMA AskedAfterOpen ==
  ASSUME TypeOK, KnownGrows, AskedKnown, NEW s, Open(s), UNCHANGED delivers
  PROVE  AskedKnown'
<1>1. Known(s)'
  BY DEF Open, Known
<1>2. stored' = s
  BY DEF Open
<1>3. \A o \in opens' : o \in opens \/ o.session = s
  BY DEF Open
<1>4. \A o \in opens' : (\E p \in opens : o.session = p.session) \/ Known(o.session)'
  BY <1>1, <1>3
<1>5. QED
  BY <1>1, <1>2, <1>4, AskedStayKnown

(* send() asks for nobody yet. *)
LEMMA AskedAfterSend ==
  ASSUME KnownGrows, AskedKnown, NEW text, Send(text), UNCHANGED <<opens, stored>>
  PROVE  AskedKnown'
<1>1. \A d \in delivers' : d \in delivers \/ d.pc = "check"
  BY DEF Send
<1>2. QED
  BY <1>1, AskedStayKnown

(* An open keeps to its session. *)
LEMMA OpensAsk ==
  ASSUME TypeOK, KnownGrows, AskedKnown, OpenTaskNext
  PROVE  AskedKnown'
<1>1. PICK o \in opens :
      \/ OpenAttach(o) \/ OpenEnsured(o) \/ OpenHistory(o) \/ OpenResume(o)
      \/ OpenResumed(o) \/ OpenStreamLost(o) \/ OpenRetry(o)
  BY DEF OpenTaskNext
<1>2. o \in OpenTask
  BY DEF TypeOK, TasksTypeOK
<1>3. \A q \in opens' : \E p \in opens : q.session = p.session
  <2>1. ASSUME NEW pc, OpenIs(o, pc)
        PROVE  \A q \in opens' : \E p \in opens : q.session = p.session
    <3>1. [o EXCEPT !.pc = pc].session = o.session
      BY <1>2 DEF OpenTask
    <3>2. QED
      BY <2>1, <3>1 DEF OpenIs
  <2>2. CASE OpenAttach(o)
    <3>1. [o EXCEPT !.pc = "ensure", !.inst = Current].session = o.session
      BY <1>2 DEF OpenTask
    <3>2. QED
      BY <2>2, <3>1 DEF OpenAttach
  <2>3. CASE OpenStreamLost(o)
    <3>1. [o EXCEPT !.pc = "retry", !.gen = connect_generation].session = o.session
      BY <1>2 DEF OpenTask
    <3>2. QED
      BY <2>3, <3>1 DEF OpenStreamLost
  <2>4. CASE opens' \subseteq opens
    BY <2>4
  <2>5. CASE OpenEnsured(o) \/ OpenHistory(o) \/ OpenResume(o)
    BY <2>1, <2>4, <2>5 DEF OpenEnsured, OpenHistory, OpenResume
  <2>6. CASE OpenResumed(o) \/ OpenRetry(o)
    BY <2>4, <2>6 DEF OpenResumed, OpenRetry
  <2>7. QED
    BY <1>1, <2>2, <2>3, <2>5, <2>6
<1>4. UNCHANGED delivers /\ stored' \in {stored, o.session}
  BY <1>1 DEF OpenAttach, OpenEnsured, OpenHistory, OpenResume, OpenResumed, OpenStreamLost,
     OpenRetry
<1>5. Known(o.session)'
  BY KnownStays DEF AskedKnown
<1>6. QED
  BY <1>3, <1>4, <1>5, AskedStayKnown

(* A delivery asks for the session stored, or for the one it made. *)
LEMMA DeliveriesAsk ==
  ASSUME TypeOK, KnownGrows, AskedKnown, DeliverNext
  PROVE  AskedKnown'
<1>1. PICK d \in delivers :
        \/ DeliverChecks(d) \/ DeliverConnects(d) \/ DeliverWaits(d)
        \/ DeliverReadsBackend(d) \/ DeliverLocks(d) \/ DeliverAims(d)
        \/ DeliverResumes(d) \/ DeliverCreates(d) \/ DeliverAttaches(d)
        \/ DeliverSubmits(d) \/ DeliverTakesBack(d)
  BY DEF DeliverNext
<1>2. UNCHANGED opens
  BY <1>1 DEF DeliverChecks, DeliverConnects, DeliverWaits, DeliverReadsBackend, DeliverLocks,
     DeliverAims, DeliverResumes, DeliverCreates, DeliverAttaches, DeliverSubmits,
     DeliverTakesBack
<1>3. ASSUME NEW e, delivers' = (delivers \ {d}) \cup {e}, UNCHANGED stored,
             e.pc \in {"resume", "resumed", "created"} =>
               \/ d.pc \in {"resume", "resumed", "created"} /\ e.target = d.target
               \/ Known(e.target)'
      PROVE  AskedKnown'
  BY <1>2, <1>3, AskedStayKnown
<1>4. ASSUME NEW pc, DeliverIs(d, pc), UNCHANGED stored,
             pc \in {"resume", "resumed", "created"} => d.pc \in {"resume", "resumed", "created"}
      PROVE  AskedKnown'
  <2> DEFINE e == [d EXCEPT !.pc = pc]
  <2>1. e.pc = pc /\ e.target = d.target
    BY DeliverMoves
  <2>2. delivers' = (delivers \ {d}) \cup {e}
    BY <1>4 DEF DeliverIs
  <2> HIDE DEF e
  <2>3. QED
    BY <1>3, <1>4, <2>1, <2>2
<1>5. CASE DeliverChecks(d) \/ DeliverConnects(d) \/ DeliverWaits(d) \/ DeliverLocks(d)
  BY <1>4, <1>5 DEF DeliverChecks, DeliverConnects, DeliverWaits, DeliverLocks
<1>6. CASE DeliverReadsBackend(d)
  <2> DEFINE e == [d EXCEPT !.pc = "lock", !.inst = Current]
  <2>1. e.pc = "lock"
    BY DeliverMoves
  <2>2. delivers' = (delivers \ {d}) \cup {e} /\ UNCHANGED stored
    BY <1>6 DEF DeliverReadsBackend
  <2> HIDE DEF e
  <2>3. QED
    BY <1>3, <2>1, <2>2
<1>7. CASE DeliverAims(d)
  <2>0. UNCHANGED stored
    BY <1>7 DEF DeliverAims
  <2>1. CASE delivers' = (delivers \ {d}) \cup {[d EXCEPT !.pc = "submit", !.target = live]}
    <3> DEFINE e == [d EXCEPT !.pc = "submit", !.target = live]
    <3>1. e.pc = "submit"
      BY DeliverMoves
    <3>2. delivers' = (delivers \ {d}) \cup {e}
      BY <2>1
    <3> HIDE DEF e
    <3>3. QED
      BY <1>3, <2>0, <3>1, <3>2
  <2>2. CASE /\ stored # None
             /\ delivers' = (delivers \ {d}) \cup {[d EXCEPT !.pc = "resume", !.target = stored]}
    <3>1. PICK s : s = stored
      OBVIOUS
    <3> DEFINE e == [d EXCEPT !.pc = "resume", !.target = s]
    <3>2. e.target = s
      BY DeliverMoves
    <3>3. delivers' = (delivers \ {d}) \cup {e}
      BY <2>2, <3>1
    <3> HIDE DEF e
    <3>4. Known(s)
      BY <2>2, <3>1 DEF AskedKnown
    <3>5. Known(s)'
      BY <3>4, KnownStays
    <3>6. QED
      BY <1>3, <2>0, <3>2, <3>3, <3>5
  <2>3. CASE DeliverIs(d, "back") \/ DeliverIs(d, "create")
    BY <1>4, <2>0, <2>3
  <2>4. QED
    BY <1>7, <2>1, <2>2, <2>3 DEF DeliverAims
<1>8. CASE DeliverResumes(d)
  BY <1>4, <1>8 DEF DeliverResumes
<1>9. CASE DeliverCreates(d)
  <2>0. UNCHANGED stored
    BY <1>9 DEF DeliverCreates
  <2>1. CASE DeliverIs(d, "back")
    BY <1>4, <2>0, <2>1
  <2>2. ASSUME NEW s \in Session, created' = created \cup {[session |-> s, view |-> d.view]},
               delivers' = (delivers \ {d}) \cup {[d EXCEPT !.pc = "created", !.target = s]}
        PROVE  AskedKnown'
    <3> DEFINE e == [d EXCEPT !.pc = "created", !.target = s]
               c == [session |-> s, view |-> d.view]
    <3>1. e.target = s /\ c \in created' /\ c.session = s
      BY <2>2, DeliverMoves
    <3>2. delivers' = (delivers \ {d}) \cup {e}
      BY <2>2
    <3> HIDE DEF e, c
    <3>3. Known(s)'
      BY <3>1 DEF Known
    <3>4. QED
      BY <1>3, <2>0, <3>1, <3>2, <3>3
  <2>3. QED
    BY <1>9, <2>1, <2>2 DEF DeliverCreates
<1>10. CASE DeliverAttaches(d)
  <2> DEFINE e(pc) == [d EXCEPT !.pc = pc]
  <2>1. \A pc : e(pc).pc = pc
    BY DeliverMoves
  <2>2. \E pc \in {"back", "submit"} : delivers' = (delivers \ {d}) \cup {e(pc)}
    BY <1>10 DEF DeliverAttaches, DeliverIs
  <2>3. stored' \in {stored, d.target}
    BY <1>10 DEF DeliverAttaches
  <2> HIDE DEF e
  <2>4. Known(d.target)
    BY <1>10 DEF DeliverAttaches, AskedKnown
  <2>5. Known(d.target)'
    BY <2>4, KnownStays
  <2>6. \A f \in delivers' : f \in delivers \/ f.pc \in {"back", "submit"}
    BY <2>1, <2>2
  <2>7. QED
    BY <1>2, <2>3, <2>5, <2>6, AskedStayKnown
<1>11. CASE DeliverSubmits(d)
  <2>1. UNCHANGED stored
    BY <1>11 DEF DeliverSubmits
  <2>2. CASE delivers' = delivers \ {d}
    BY <1>2, <2>1, <2>2, AskedStayKnown
  <2>3. CASE DeliverIs(d, "back")
    BY <1>4, <2>1, <2>3
  <2>4. QED
    BY <1>11, <2>2, <2>3 DEF DeliverSubmits
<1>12. CASE DeliverTakesBack(d)
  <2>1. UNCHANGED stored /\ delivers' \subseteq delivers
    BY <1>12 DEF DeliverTakesBack
  <2>2. QED
    BY <1>2, <2>1, AskedStayKnown
<1>13. QED
  BY <1>1, <1>5, <1>6, <1>7, <1>8, <1>9, <1>10, <1>11, <1>12

-----------------------------------------------------------------------------
(* The steps together. *)

(* Steps that ask for nobody, and draw nothing. *)
LEMMA NobodyNew ==
  ASSUME KnownGrows, FiltersKnown, AskedKnown, NoStrangers, FiltersFollow,
         UNCHANGED <<opens, delivers>>, stored' \in {None, stored}, origins' \subseteq origins
  PROVE  FiltersKnown' /\ AskedKnown' /\ NoStrangers'
<1>1. FiltersKnown'
  BY FiltersStayKnown
<1>2. AskedKnown'
  BY AskedStayKnown
<1>3. \A s \in origins : Known(s)'
  BY KnownStays DEF NoStrangers, Known
<1>4. QED
  BY <1>1, <1>2, <1>3 DEF NoStrangers, Known

(* The screen, when no reply is drawn. *)
LEMMA NothingDrawn ==
  ASSUME KnownGrows, NoStrangers, origins' \subseteq origins
  PROVE  NoStrangers'
<1>1. \A s \in origins : Known(s)'
  BY KnownStays DEF NoStrangers, Known
<1>2. QED
  BY <1>1 DEF NoStrangers, Known

(* connect() and ensure_stream: a new channel is empty. *)
LEMMA ConnectsKeepKnown ==
  ASSUME TypeOK, KnownGrows, KnownInv, ConnectTaskNext \/ EnsureStreamNext
  PROVE  KnownInv'
<1>0. FiltersKnown'
  BY ConnectsFilter, FiltersStayKnown DEF KnownInv
<1>1. CASE ConnectTaskNext
  <2>1. PICK c \in connects :
      \/ ConnectProbed(c) \/ ConnectAttach(c) \/ ConnectEnsured(c)
      \/ ConnectRetry(c) \/ ConnectReopen(c) \/ ConnectOpen(c)
    BY <1>1 DEF ConnectTaskNext
  <2>2. UNCHANGED <<pumps, delivers>> /\ origins' \subseteq origins
    BY <2>1 DEF ConnectProbed, ConnectAttach, ConnectEnsured, ConnectRetry, ConnectReopen,
       ConnectOpen, Open
  <2>3. UNCHANGED <<opens, stored>> \/ \E s : Open(s)
    BY <2>1 DEF ConnectProbed, ConnectAttach, ConnectEnsured, ConnectRetry, ConnectReopen,
       ConnectOpen
  <2>4. AskedKnown'
    BY <2>2, <2>3, AskedAfterOpen, AskedStayKnown DEF KnownInv
  <2>5. RepliesKnown' /\ NoStrangers'
    BY <2>2, SameChannels, NothingDrawn DEF KnownInv
  <2>6. QED
    BY <1>0, <2>4, <2>5 DEF KnownInv
<1>2. CASE EnsureStreamNext
  <2>1. PICK i \in Adapters : EnsureBegin(i) \/ EnsureDial(i) \/ EnsureSettle(i)
    BY <1>2 DEF EnsureStreamNext
  <2>2. UNCHANGED <<opens, delivers, stored, origins>>
    BY <2>1 DEF EnsureBegin, EnsureDial, EnsureSettle
  <2>3. AskedKnown' /\ NoStrangers'
    BY <2>2, AskedStayKnown, NothingDrawn DEF KnownInv
  <2>4. RepliesKnown'
    <3>1. CASE EnsureBegin(i)
      <4> DEFINE q == [epoch |-> connection_epoch + 1, events |-> <<>>,
                       pc |-> "idle", gen |-> 0, text |-> NoText]
      <4>1. DOMAIN q.events = {}
        OBVIOUS
      <4>2. pumps' = pumps \/ pumps' = pumps \cup {q}
        BY <3>1 DEF EnsureBegin
      <4> HIDE DEF q
      <4>3. ASSUME NEW p \in pumps, NEW n \in DOMAIN p.events, p.events[n].kind \in Replies
            PROVE  Known(p.events[n].session)'
        <5>1. Known(p.events[n].session)
          BY <4>3 DEF KnownInv, RepliesKnown
        <5>2. QED
          BY <5>1, KnownStays
      <4>4. QED
        BY <4>1, <4>2, <4>3 DEF RepliesKnown, Known
    <3>2. CASE EnsureDial(i)
      BY <3>2, LastWordKnown DEF EnsureDial, KnownInv
    <3>3. CASE EnsureSettle(i)
      BY <3>3, SameChannels DEF EnsureSettle, KnownInv
    <3>4. QED
      BY <2>1, <3>1, <3>2, <3>3
  <2>5. QED
    BY <1>0, <2>3, <2>4 DEF KnownInv
<1>3. QED
  BY <1>1, <1>2

(* The tasks of a conversation. *)
LEMMA ConversationsKeepKnown ==
  ASSUME TypeOK, LockInv, KnownGrows, KnownInv, OpenTaskNext \/ DeliverNext
  PROVE  KnownInv'
<1>1. FiltersKnown'
  BY OpensFilter, DeliveriesFilter, FiltersStayKnown DEF KnownInv
<1>2. AskedKnown'
  BY OpensAsk, DeliveriesAsk DEF KnownInv
<1>3. UNCHANGED pumps /\ origins' \subseteq origins
  <2>1. CASE OpenTaskNext
    BY <2>1 DEF OpenTaskNext, OpenAttach, OpenEnsured, OpenHistory, OpenResume, OpenResumed,
       OpenStreamLost, OpenRetry
  <2>2. CASE DeliverNext
    BY <2>2 DEF DeliverNext, DeliverChecks, DeliverConnects, DeliverWaits, DeliverReadsBackend,
       DeliverLocks, DeliverAims, DeliverResumes, DeliverCreates, DeliverAttaches,
       DeliverSubmits, DeliverTakesBack
  <2>3. QED
    BY <2>1, <2>2
<1>4. RepliesKnown' /\ NoStrangers'
  BY <1>3, SameChannels, NothingDrawn DEF KnownInv
<1>5. QED
  BY <1>1, <1>2, <1>4 DEF KnownInv

(* Timers, the server's restart, stops, and what the window thread goes on with. *)
LEMMA TurnsKeepKnown ==
  ASSUME TypeOK, KnownGrows, KnownInv,
         RetryNext \/ RestartNext \/ StopTaskNext \/ WindowContinues
  PROVE  KnownInv'
<1>1. UNCHANGED <<backends, pumps, opens, stored, origins>>
      /\ (UNCHANGED delivers \/ \E text : Send(text))
  <2>1. CASE RetryNext \/ RestartNext
    BY <2>1 DEF RetryNext, RestartNext, RetryFires, RetryConnects, ServerRestarted,
       RestartConnects
  <2>2. CASE StopTaskNext
    BY <2>2 DEF StopTaskNext, StopInterrupts, StopGraceEnds, StopAfterTurn, StopSends
  <2>3. CASE WindowContinues
    BY <2>3 DEF WindowContinues, WindowConnects, WindowClearsScope, WindowSends, WindowAnswers,
       WindowStops, WindowAfterTurn
  <2>4. QED
    BY <2>1, <2>2, <2>3
<1>2. FiltersKnown'
  BY <1>1, SameFilters, FiltersStayKnown DEF KnownInv
<1>3. AskedKnown'
  BY <1>1, AskedAfterSend, AskedStayKnown DEF KnownInv
<1>4. RepliesKnown' /\ NoStrangers'
  BY <1>1, SameChannels, NothingDrawn DEF KnownInv
<1>5. QED
  BY <1>2, <1>3, <1>4 DEF KnownInv

(* The pumps, which draw. *)
LEMMA PumpsKeepKnown ==
  ASSUME TypeOK, KnownGrows, KnownInv, PumpNext
  PROVE  KnownInv'
<1>1. UNCHANGED <<backends, opens, stored>> /\ (UNCHANGED delivers \/ \E text : Send(text))
  BY DEF PumpNext, DropsEvent, HandleConnected, HandleSessionInfo, HandleClarify, HandleLost,
     HandleTurn, PumpStreamLost, PumpRetry, PumpAfterTurn, PumpSends
<1>2. FiltersKnown'
  BY <1>1, SameFilters, FiltersStayKnown DEF KnownInv
<1>3. AskedKnown'
  BY <1>1, AskedAfterSend, AskedStayKnown DEF KnownInv
<1>4. QED
  BY <1>2, <1>3, PumpsDrawKnown DEF KnownInv

(* Commands: leaving a conversation, opening another, a new adapter. *)
LEMMA CommandsKeepKnown ==
  ASSUME TypeOK, KnownGrows, KnownInv, CommandNext \/ ListFails
  PROVE  KnownInv'
<1>1. UNCHANGED <<pumps, delivers>> /\ origins' \subseteq origins
  BY DEF CommandNext, ListFails, CommandConnect, DisableBackend, ApplyWorkspace, SwitchBackend,
     OpenSession, NewChat, Submit, CommandStop, DismissClarify, SendQueuedNow, Unqueue, Open
<1>2. RepliesKnown' /\ NoStrangers'
  BY <1>1, SameChannels, NothingDrawn DEF KnownInv
<1>3. (UNCHANGED opens /\ stored' \in {None, stored}) \/ \E s : Open(s)
  BY DEF CommandNext, ListFails, CommandConnect, DisableBackend, ApplyWorkspace, SwitchBackend,
     OpenSession, NewChat, Submit, CommandStop, DismissClarify, SendQueuedNow, Unqueue
<1>4. AskedKnown'
  BY <1>1, <1>3, AskedAfterOpen, AskedStayKnown DEF KnownInv
<1>5. FiltersFollow
  <2>1. CASE UNCHANGED backends
    BY <2>1, SameFilters
  <2>2. ASSUME NEW k \in Kind, SwitchBackend(k)
        PROVE  FiltersFollow
    <3> DEFINE b == NewAdapter(k)
    <3>1. b \in Adapter /\ b.scope = {}
      BY DEF NewAdapter, Adapter
    <3>2. backends \in Seq(Adapter) /\ backends' = Append(backends, b)
      BY <2>2 DEF SwitchBackend, TypeOK, AdaptersTypeOK
    <3> HIDE DEF b
    <3>3. ASSUME NEW i \in Adapters', i \notin Adapters
          PROVE  backends'[i] = b
      BY <3>1, <3>2, <3>3, AppendProperties DEF Adapters
    <3>4. ASSUME NEW i \in Adapters
          PROVE  backends'[i] = backends[i]
      BY <3>1, <3>2, <3>4, AppendProperties DEF Adapters
    <3>5. QED
      BY <3>1, <3>3, <3>4 DEF FiltersFollow
  <2>3. QED
    BY <2>1, <2>2 DEF CommandNext, ListFails, CommandConnect, DisableBackend, ApplyWorkspace,
       OpenSession, NewChat, Submit, CommandStop, DismissClarify, SendQueuedNow, Unqueue
<1>6. FiltersKnown'
  BY <1>5, FiltersStayKnown DEF KnownInv
<1>7. QED
  BY <1>2, <1>4, <1>6 DEF KnownInv

(* The streams, and the tasks that close or unscope an adapter. *)
LEMMA AdaptersKeepKnown ==
  ASSUME ~AnnouncesSessions, TypeOK, KnownGrows, KnownInv, StreamNext \/ AdapterTaskNext
  PROVE  KnownInv'
<1>1. UNCHANGED <<opens, delivers, stored, origins>>
  <2>1. CASE StreamNext
    BY <2>1 DEF StreamNext, StreamConnects, StreamFails, StreamDrops, StreamFrame,
       StreamQuestion, StreamSessionInfo, Reports
  <2>2. CASE AdapterTaskNext
    BY <2>2 DEF AdapterTaskNext, AdapterDisconnects, ClearScope, AnswerEnds
  <2>3. QED
    BY <2>1, <2>2
<1>2. RepliesKnown' /\ FiltersFollow
  <2>1. CASE StreamNext
    BY <2>1, StreamsReportKnown DEF KnownInv
  <2>2. CASE AdapterTaskNext
    <3>1. ASSUME NEW i \in Adapters, AdapterDisconnects(i)
          PROVE  RepliesKnown' /\ FiltersFollow
      <4> DEFINE b == [backends[i] EXCEPT !.stream = 0, !.up = FALSE, !.scope = {}]
      <4>1. backends[i] \in Adapter
        BY AdapterTyped
      <4>2. b.scope = {}
        BY <4>1 DEF Adapter
      <4>3. backends' = [backends EXCEPT ![i] = b]
        BY <3>1, <4>1 DEF AdapterDisconnects, Adapter, TypeOK, AdaptersTypeOK, Adapters
      <4> HIDE DEF b
      <4>4. QED
        BY <3>1, <4>2, <4>3, RewrittenFilters, LastWordKnown DEF AdapterDisconnects, KnownInv
    <3>2. ASSUME NEW t \in scopes, ClearScope(t)
          PROVE  RepliesKnown' /\ FiltersFollow
      <4>1. UNCHANGED backends \/ Scoped(t.inst, {})
        BY <3>2 DEF ClearScope
      <4>2. FiltersFollow
        BY <4>1, SameFilters, ScopedFilters
      <4>3. QED
        BY <3>2, <4>2, SameChannels DEF ClearScope, KnownInv
    <3>3. ASSUME NEW a \in answers, AnswerEnds(a)
          PROVE  RepliesKnown' /\ FiltersFollow
      BY <3>3, SameFilters, SameChannels DEF AnswerEnds, KnownInv
    <3>4. QED
      BY <2>2, <3>1, <3>2, <3>3 DEF AdapterTaskNext
  <2>3. QED
    BY <2>1, <2>2
<1>3. QED
  BY <1>1, <1>2, NobodyNew DEF KnownInv

(* Every step of the client, its user and the network. *)
LEMMA StepKeepsKnown ==
  ASSUME ~AnnouncesSessions, TypeOK, LockInv, KnownInv, [Next]_vars
  PROVE  KnownInv'
<1>1. KnownGrows
  BY StepGrows
<1>2. CASE UNCHANGED vars
  <2>1. UNCHANGED <<backends, pumps, opens, delivers, stored, origins>>
    BY <1>2 DEF vars
  <2>2. QED
    BY <1>1, <2>1, NobodyNew, SameFilters, SameChannels DEF KnownInv
<1>3. QED
  BY <1>1, <1>2, ConnectsKeepKnown, ConversationsKeepKnown, TurnsKeepKnown, PumpsKeepKnown,
     CommandsKeepKnown, AdaptersKeepKnown DEF Next, TaskNext, Idle

(* At the start only the session the cache names is on screen. *)
LEMMA InitKnown ==
  ASSUME Init
  PROVE  KnownInv
<1>1. PICK k \in Kind : backends = <<NewAdapter(k)>>
  BY DEF Init
<1>2. FiltersKnown
  BY <1>1 DEF FiltersKnown, Adapters, NewAdapter
<1>3. QED
  BY <1>2 DEF Init, KnownInv, RepliesKnown, AskedKnown, NoStrangers, Known

(* With a gateway that sends no session.info, whatever it fans out and     *)
(* whichever opens, prompts and switches overlap, what is drawn is of a    *)
(* session this client opened or made (session_scope.rs, events.rs:54).    *)
THEOREM StrangersStayOut ==
  ASSUME ~AnnouncesSessions
  PROVE  Spec => []NoStrangers
<1>1. Init => KnownInv
  BY InitKnown
<1>2. TypeOK /\ LockInv /\ KnownInv /\ [Next]_vars => KnownInv'
  BY StepKeepsKnown
<1>3. KnownInv => NoStrangers
  BY DEF KnownInv
<1>4. QED
  BY <1>1, <1>2, <1>3, TypeCorrect, AdaptersAreExclusive, PTL DEF Spec

-----------------------------------------------------------------------------
(* The second half: what is on screen is of the backend in use.            *)


(* What a filter lets through before it is put into a channel: replies, and *)
(* questions unless the gateway fans them out.                              *)
Filtered == Replies \cup (IF FansOutQuestions THEN {} ELSE {"Clarify"})

(* Nothing reports to a channel that is yet to come. *)
EpochsLead ==
  /\ \A i \in Adapters :
       backends[i].stream <= connection_epoch /\ backends[i].channel <= connection_epoch
  /\ \A p \in pumps : p.epoch <= connection_epoch

(* The adapter in use, or one that nobody listens to any more. *)
Ours(i) == i = Current \/ backends[i].stream < connection_epoch

(* An adapter that was switched away from can come to be the one listened   *)
(* to: a delivery that read it before opens its stream (send.rs:114).  Then *)
(* its filter lets nothing through ...                                      *)
OldOnesMuted == \A i \in Adapters : Ours(i) \/ backends[i].scope = {}

(* ... and nobody is about to change that. *)
ScopersOurs ==
  /\ \A o \in opens : /\ o.view <= view_generation
                      /\ o.view = view_generation /\ OpenHasAdapter(o) => o.inst = Current
  /\ \A d \in delivers : d.pc \in {"resume", "create"} => Ours(d.inst)

(* What is on its way to the screen, and what has reached it. *)
ChannelOurs ==
  \A p \in pumps : p.epoch = connection_epoch =>
    \A n \in DOMAIN p.events :
      p.events[n].kind \in Filtered => Owner[p.events[n].session] = kind

ScreenOurs ==
  /\ \A s \in origins : Owner[s] = kind
  /\ FansOutQuestions \/ clarify = None \/ Owner[clarify] = kind

OursInv == EpochsLead /\ OldOnesMuted /\ ScopersOurs /\ ChannelOurs /\ ScreenOurs

-----------------------------------------------------------------------------
(* What a step may do to an adapter. *)

AdapterGoes(i) ==
  /\ backends'[i].kind = backends[i].kind
  /\ \/ backends'[i].stream \in {backends[i].stream, 0}
     \/ /\ backends[i].guard = "dial"
        /\ backends'[i].stream = backends[i].channel /\ backends'[i].scope = {}
  /\ backends'[i].channel \in {backends[i].channel, connection_epoch'}
  /\ backends'[i].scope \subseteq backends[i].scope \/ Ours(i)

AdaptersGo ==
  /\ Adapters' = Adapters /\ Current' = Current
  /\ \A i \in Adapters : AdapterGoes(i)

EpochStays == connection_epoch' \in {connection_epoch, connection_epoch + 1}

LEMMA AdaptersStayOurs ==
  ASSUME TypeOK, AdaptersGo, EpochStays, NEW i \in Adapters, Ours(i),
         backends[i].guard # "dial"
  PROVE  Ours(i)'
<1>1. backends[i].stream \in Nat /\ connection_epoch \in Nat
  BY AdapterTyped DEF TypeOK, ConnTypeOK, Adapter
<1>2. backends'[i].stream \in {backends[i].stream, 0}
  BY DEF AdaptersGo, AdapterGoes
<1>3. i = Current => i = Current'
  BY DEF AdaptersGo
<1>4. backends[i].stream < connection_epoch => backends'[i].stream < connection_epoch'
  BY <1>1, <1>2 DEF EpochStays
<1>5. QED
  BY <1>3, <1>4 DEF Ours

LEMMA MutedStay ==
  ASSUME TypeOK, EpochsLead, OldOnesMuted, AdaptersGo, EpochStays
  PROVE  /\ OldOnesMuted'
         /\ \A i \in Adapters' : backends'[i].stream <= connection_epoch'
                                 /\ backends'[i].channel <= connection_epoch'
<1> SUFFICES ASSUME NEW i \in Adapters
             PROVE  /\ Ours(i)' \/ backends'[i].scope = {}
                    /\ backends'[i].stream <= connection_epoch'
                    /\ backends'[i].channel <= connection_epoch'
  BY DEF OldOnesMuted, AdaptersGo
<1>1. backends[i].stream \in Nat /\ backends[i].channel \in Nat /\ connection_epoch \in Nat
  BY AdapterTyped DEF TypeOK, ConnTypeOK, Adapter
<1>2. AdapterGoes(i) /\ backends[i].stream <= connection_epoch
      /\ backends[i].channel <= connection_epoch
  BY DEF AdaptersGo, EpochsLead
<1>3. backends'[i].stream <= connection_epoch' /\ backends'[i].channel <= connection_epoch'
  BY <1>1, <1>2 DEF AdapterGoes, EpochStays
<1>4. CASE backends[i].guard = "dial" /\ backends'[i].scope = {}
  BY <1>3, <1>4
<1>5. CASE backends'[i].stream \in {backends[i].stream, 0}
  <2>1. Ours(i) => Ours(i)'
    BY <1>1, <1>5 DEF Ours, AdaptersGo, EpochStays
  <2>2. ~Ours(i) => backends'[i].scope = {}
    BY <1>2 DEF OldOnesMuted, AdapterGoes
  <2>3. QED
    BY <1>3, <2>1, <2>2
<1>6. QED
  BY <1>2, <1>4, <1>5 DEF AdapterGoes

(* The forms the actions change an adapter in. *)
LEMMA SameAdapters ==
  ASSUME UNCHANGED backends
  PROVE  AdaptersGo
BY DEF AdaptersGo, AdapterGoes, Adapters, Current

LEMMA RewrittenGoes ==
  ASSUME TypeOK, NEW i \in Adapters, NEW b, backends' = [backends EXCEPT ![i] = b],
         b.kind = backends[i].kind,
         \/ b.stream \in {backends[i].stream, 0}
         \/ backends[i].guard = "dial" /\ b.stream = backends[i].channel /\ b.scope = {},
         b.channel \in {backends[i].channel, connection_epoch'},
         b.scope \subseteq backends[i].scope \/ Ours(i)
  PROVE  AdaptersGo
<1>1. /\ Adapters' = Adapters /\ Current' = Current
      /\ \A j \in Adapters : backends'[j] = IF j = i THEN b ELSE backends[j]
  BY AdapterRewritten
<1>2. ASSUME NEW j \in Adapters
      PROVE  AdapterGoes(j)
  <2>1. CASE j = i
    BY <1>1, <2>1 DEF AdapterGoes
  <2>2. CASE j # i
    BY <1>1, <2>2 DEF AdapterGoes
  <2>3. QED
    BY <2>1, <2>2
<1>3. QED
  BY <1>1, <1>2 DEF AdaptersGo

LEMMA HeldGoes ==
  ASSUME TypeOK, NEW i, NEW g, Held(i, g)
  PROVE  AdaptersGo
<1>1. CASE i \in Adapters
  <2> DEFINE b == [backends[i] EXCEPT !.guard = g]
  <2>1. backends[i] \in Adapter
    BY <1>1, AdapterTyped
  <2>2. /\ b.kind = backends[i].kind /\ b.stream = backends[i].stream
        /\ b.channel = backends[i].channel /\ b.scope = backends[i].scope
    BY <2>1 DEF Adapter
  <2>3. backends' = [backends EXCEPT ![i] = b]
    BY <1>1, <2>1 DEF Held, Adapter, TypeOK, AdaptersTypeOK, Adapters
  <2> HIDE DEF b
  <2>4. QED
    BY <1>1, <2>2, <2>3, RewrittenGoes
<1>2. CASE i \notin Adapters
  <2>1. UNCHANGED backends
    BY <1>2 DEF Held, TypeOK, AdaptersTypeOK, Adapters
  <2>2. QED
    BY <2>1, SameAdapters
<1>3. QED
  BY <1>1, <1>2

LEMMA ScopedGoes ==
  ASSUME TypeOK, NEW i, NEW ids, Scoped(i, ids), ids = {} \/ Ours(i)
  PROVE  AdaptersGo
<1>1. CASE i \in Adapters
  <2> DEFINE b == [backends[i] EXCEPT !.scope = ids]
  <2>1. backends[i] \in Adapter
    BY <1>1, AdapterTyped
  <2>2. /\ b.kind = backends[i].kind /\ b.stream = backends[i].stream
        /\ b.channel = backends[i].channel /\ b.scope = ids
    BY <2>1 DEF Adapter
  <2>3. backends' = [backends EXCEPT ![i] = b]
    BY <1>1, <2>1 DEF Scoped, Adapter, TypeOK, AdaptersTypeOK, Adapters
  <2> HIDE DEF b
  <2>4. b.scope \subseteq backends[i].scope \/ Ours(i)
    BY <2>2
  <2>5. QED
    BY <1>1, <2>2, <2>3, <2>4, RewrittenGoes
<1>2. CASE i \notin Adapters
  <2>1. UNCHANGED backends
    BY <1>2 DEF Scoped, TypeOK, AdaptersTypeOK, Adapters
  <2>2. QED
    BY <2>1, SameAdapters
<1>3. QED
  BY <1>1, <1>2

-----------------------------------------------------------------------------
(* What the tasks do to the adapters. *)

LEMMA ConnectsMoveAdapters ==
  ASSUME TypeOK, ConnectTaskNext \/ EnsureStreamNext
  PROVE  AdaptersGo
<1>1. CASE ConnectTaskNext
  <2>1. UNCHANGED backends \/ \E i, g : Held(i, g)
    BY <1>1 DEF ConnectTaskNext, ConnectProbed, ConnectAttach, ConnectEnsured, ConnectRetry,
       ConnectReopen, ConnectOpen
  <2>2. QED
    BY <2>1, HeldGoes, SameAdapters
<1>2. CASE EnsureStreamNext
  <2>1. PICK i \in Adapters : EnsureBegin(i) \/ EnsureDial(i) \/ EnsureSettle(i)
    BY <1>2 DEF EnsureStreamNext
  <2>2. backends[i] \in Adapter
    BY AdapterTyped
  <2>3. CASE EnsureBegin(i)
    <3> DEFINE b == [backends[i] EXCEPT !.guard = "dial", !.channel = connection_epoch + 1]
    <3>1. /\ b.kind = backends[i].kind /\ b.stream = backends[i].stream
          /\ b.channel = connection_epoch + 1 /\ b.scope = backends[i].scope
      BY <2>2 DEF Adapter
    <3>2. \/ \E g : Held(i, g)
          \/ /\ backends' = [backends EXCEPT ![i] = b]
             /\ connection_epoch' = connection_epoch + 1
      BY <2>2, <2>3 DEF EnsureBegin, Adapter, TypeOK, AdaptersTypeOK, Adapters
    <3> HIDE DEF b
    <3>3. QED
      BY <3>1, <3>2, HeldGoes, RewrittenGoes
  <2>4. CASE EnsureDial(i)
    <3> DEFINE b(g, s) == [[backends[i] EXCEPT !.epoch = connection_epoch, !.up = FALSE,
                                               !.scope = {}] EXCEPT !.guard = g, !.stream = s]
    <3>1. \A g, s : /\ b(g, s).scope = {} /\ b(g, s).kind = backends[i].kind
                    /\ b(g, s).stream = s /\ b(g, s).channel = backends[i].channel
      BY <2>2 DEF Adapter
    <3>2. \/ backends' = [backends EXCEPT ![i] = b("dialled", backends[i].channel)]
          \/ backends' = [backends EXCEPT ![i] = b("refused", 0)]
      BY <2>4 DEF EnsureDial
    <3>3. backends[i].guard = "dial"
      BY <2>4 DEF EnsureDial
    <3> HIDE DEF b
    <3>4. ASSUME NEW s \in {backends[i].channel, 0}, NEW g,
                 backends' = [backends EXCEPT ![i] = b(g, s)]
          PROVE  AdaptersGo
      <4>1. PICK new : new = b(g, s)
        OBVIOUS
      <4>2. /\ new.scope = {} /\ new.kind = backends[i].kind
            /\ new.stream = s /\ new.channel = backends[i].channel
        BY <3>1, <4>1
      <4>3. QED
        BY <3>3, <3>4, <4>1, <4>2, RewrittenGoes
    <3>5. QED
      BY <3>2, <3>4
  <2>5. CASE EnsureSettle(i)
    <3>1. \E g : Held(i, g)
      BY <2>5 DEF EnsureSettle
    <3>2. QED
      BY <3>1, HeldGoes
  <2>6. QED
    BY <2>1, <2>3, <2>4, <2>5
<1>3. QED
  BY <1>1, <1>2

(* An open that is not stale has the adapter in use. *)
LEMMA OpensMoveAdapters ==
  ASSUME TypeOK, LockInv, ScopersOurs, OpenTaskNext
  PROVE  AdaptersGo
<1>1. PICK o \in opens :
      \/ OpenAttach(o) \/ OpenEnsured(o) \/ OpenHistory(o) \/ OpenResume(o)
      \/ OpenResumed(o) \/ OpenStreamLost(o) \/ OpenRetry(o)
  BY DEF OpenTaskNext
<1>2. CASE \/ OpenAttach(o) \/ OpenEnsured(o) \/ OpenHistory(o)
           \/ OpenStreamLost(o) \/ OpenRetry(o)
  <2>1. UNCHANGED backends \/ \E i, g : Held(i, g)
    BY <1>2 DEF OpenAttach, OpenEnsured, OpenHistory, OpenStreamLost, OpenRetry
  <2>2. QED
    BY <2>1, HeldGoes, SameAdapters
<1>3. CASE OpenResume(o)
  <2>1. ~OpenIsStale(o) => Ours(o.inst)
    BY <1>3 DEF OpenResume, OpenIsStale, ViewIsCurrent, ScopersOurs, OpenHasAdapter, OpenHolds,
                Ours
  <2>2. \/ UNCHANGED backends \/ (\E g : Held(o.inst, g))
        \/ Scoped(o.inst, {o.session}) /\ ~OpenIsStale(o)
    BY <1>3 DEF OpenResume
  <2>3. QED
    BY <2>1, <2>2, HeldGoes, SameAdapters, ScopedGoes
<1>4. CASE OpenResumed(o)
  <2> DEFINE b == [backends[o.inst] EXCEPT !.guard = "free",
                                           !.scope = IF selected = None THEN {} ELSE @]
  <2>1. o.inst \in Adapters
    BY <1>4 DEF OpenResumed, LockInv, OpenHasAdapter, OpenHolds
  <2>2. backends[o.inst] \in Adapter
    BY <2>1, AdapterTyped
  <2>3. Held(o.inst, "free") \/ backends' = [backends EXCEPT ![o.inst] = b]
    BY <1>4, <2>1, <2>2 DEF OpenResumed, Adapter
  <2>4. /\ b.scope \subseteq backends[o.inst].scope /\ b.kind = backends[o.inst].kind
        /\ b.stream = backends[o.inst].stream /\ b.channel = backends[o.inst].channel
    BY <2>2 DEF Adapter
  <2> HIDE DEF b
  <2>5. QED
    BY <2>1, <2>3, <2>4, HeldGoes, RewrittenGoes
<1>5. QED
  BY <1>1, <1>2, <1>3, <1>4

(* A delivery that resumes or makes a session has the adapter in use, or one *)
(* that nobody listens to any more.                                         *)
LEMMA DeliveriesMoveAdapters ==
  ASSUME TypeOK, LockInv, ScopersOurs, DeliverNext
  PROVE  AdaptersGo
<1>1. PICK d \in delivers :
        \/ DeliverChecks(d) \/ DeliverConnects(d) \/ DeliverWaits(d)
        \/ DeliverReadsBackend(d) \/ DeliverLocks(d) \/ DeliverAims(d)
        \/ DeliverResumes(d) \/ DeliverCreates(d) \/ DeliverAttaches(d)
        \/ DeliverSubmits(d) \/ DeliverTakesBack(d)
  BY DEF DeliverNext
<1>2. CASE \/ DeliverChecks(d) \/ DeliverConnects(d) \/ DeliverWaits(d)
           \/ DeliverReadsBackend(d) \/ DeliverLocks(d) \/ DeliverAttaches(d)
           \/ DeliverSubmits(d) \/ DeliverTakesBack(d)
  <2>1. UNCHANGED backends \/ \E i, g : Held(i, g)
    BY <1>2 DEF DeliverChecks, DeliverConnects, DeliverWaits, DeliverReadsBackend,
       DeliverLocks, DeliverAttaches, DeliverSubmits, DeliverTakesBack
  <2>2. QED
    BY <2>1, HeldGoes, SameAdapters
<1>3. CASE DeliverAims(d)
  <2> DEFINE b == [backends[d.inst] EXCEPT !.guard = "held", !.scope = {}]
  <2>1. d.inst \in Adapters
    BY <1>3 DEF DeliverAims, LockInv, DeliverHasAdapter
  <2>2. backends[d.inst] \in Adapter
    BY <2>1, AdapterTyped
  <2>3. \/ \E g : Held(d.inst, g)
        \/ backends' = [backends EXCEPT ![d.inst].guard = "held", ![d.inst].scope = {}]
    BY <1>3 DEF DeliverAims
  <2>4. CASE \E g : Held(d.inst, g)
    BY <2>4, HeldGoes
  <2>5. CASE backends' = [backends EXCEPT ![d.inst].guard = "held", ![d.inst].scope = {}]
    <3>1. backends' = [backends EXCEPT ![d.inst] = b]
      BY <2>1, <2>2, <2>5 DEF Adapter
    <3>2. /\ b.scope = {} /\ b.kind = backends[d.inst].kind
          /\ b.stream = backends[d.inst].stream /\ b.channel = backends[d.inst].channel
      BY <2>2 DEF Adapter
    <3> HIDE DEF b
    <3>3. QED
      BY <2>1, <3>1, <3>2, RewrittenGoes
  <2>6. QED
    BY <2>3, <2>4, <2>5
<1>4. CASE DeliverResumes(d) \/ DeliverCreates(d)
  <2>1. Ours(d.inst)
    BY <1>4 DEF DeliverResumes, DeliverCreates, ScopersOurs
  <2>2. (\E g : Held(d.inst, g)) \/ \E ids : Scoped(d.inst, ids)
    BY <1>4 DEF DeliverResumes, DeliverCreates
  <2>3. QED
    BY <2>1, <2>2, HeldGoes, ScopedGoes
<1>5. QED
  BY <1>1, <1>2, <1>3, <1>4

(* The streams, and the tasks that close or unscope an adapter. *)
LEMMA ReportedGoes ==
  ASSUME TypeOK, NEW i \in Adapters, NEW event, NEW b, Reports(i, event, b),
         b = backends[i] \/ b = [backends[i] EXCEPT !.up = TRUE]
           \/ b = [backends[i] EXCEPT !.stream = 0]
           \/ b = [backends[i] EXCEPT !.stream = 0, !.up = FALSE]
  PROVE  AdaptersGo
<1>1. backends[i] \in Adapter
  BY AdapterTyped
<1>2. /\ b.kind = backends[i].kind /\ b.stream \in {backends[i].stream, 0}
      /\ b.channel = backends[i].channel /\ b.scope = backends[i].scope
  BY <1>1 DEF Adapter
<1>3. QED
  BY <1>2, RewrittenGoes DEF Reports

LEMMA StreamsMoveAdapters ==
  ASSUME ~AnnouncesSessions, TypeOK, StreamNext \/ AdapterTaskNext
  PROVE  AdaptersGo
<1>1. CASE StreamNext
  BY <1>1, ReportedGoes DEF StreamNext, StreamConnects, StreamFails, StreamDrops, StreamFrame,
     StreamQuestion, StreamSessionInfo
<1>2. ASSUME NEW i \in Adapters, AdapterDisconnects(i)
      PROVE  AdaptersGo
  <2> DEFINE b == [backends[i] EXCEPT !.stream = 0, !.up = FALSE, !.scope = {}]
  <2>1. backends[i] \in Adapter
    BY AdapterTyped
  <2>2. /\ b.scope = {} /\ b.kind = backends[i].kind /\ b.stream = 0
        /\ b.channel = backends[i].channel
    BY <2>1 DEF Adapter
  <2>3. backends' = [backends EXCEPT ![i] = b]
    BY <1>2, <2>1 DEF AdapterDisconnects, Adapter, TypeOK, AdaptersTypeOK, Adapters
  <2> HIDE DEF b
  <2>4. QED
    BY <2>2, <2>3, RewrittenGoes
<1>3. ASSUME NEW t \in scopes, ClearScope(t)
      PROVE  AdaptersGo
  <2>1. UNCHANGED backends \/ Scoped(t.inst, {})
    BY <1>3 DEF ClearScope
  <2>2. QED
    BY <2>1, SameAdapters, ScopedGoes
<1>4. ASSUME NEW a \in answers, AnswerEnds(a)
      PROVE  AdaptersGo
  BY <1>4, SameAdapters DEF AnswerEnds
<1>5. QED
  BY <1>1, <1>2, <1>3, <1>4 DEF AdapterTaskNext

(* Everything but a switch leaves the adapter in use where it is. *)
LEMMA StepMovesAdapters ==
  ASSUME ~AnnouncesSessions, TypeOK, LockInv, ScopersOurs, [Next]_vars
  PROVE  AdaptersGo \/ \E k \in Kind : SwitchBackend(k)
<1>1. CASE RetryNext \/ RestartNext \/ StopTaskNext \/ PumpNext \/ WindowContinues
  <2>1. UNCHANGED backends
    BY <1>1 DEF RetryNext, RestartNext, RetryFires, RetryConnects, ServerRestarted,
       RestartConnects, StopTaskNext, StopInterrupts, StopGraceEnds, StopAfterTurn, StopSends,
       PumpNext, DropsEvent, HandleConnected, HandleSessionInfo, HandleClarify, HandleLost,
       HandleTurn, PumpStreamLost, PumpRetry, PumpAfterTurn, PumpSends,
       WindowContinues, WindowConnects, WindowClearsScope, WindowSends, WindowAnswers,
       WindowStops, WindowAfterTurn
  <2>2. QED
    BY <2>1, SameAdapters
<1>2. CASE CommandNext \/ ListFails
  <2>1. UNCHANGED backends \/ \E k \in Kind : SwitchBackend(k)
    BY <1>2 DEF CommandNext, ListFails, CommandConnect, DisableBackend, ApplyWorkspace,
       OpenSession, NewChat, Submit, CommandStop, DismissClarify, SendQueuedNow, Unqueue
  <2>2. QED
    BY <2>1, SameAdapters
<1>3. CASE UNCHANGED vars
  BY <1>3, SameAdapters DEF vars
<1>4. QED
  BY <1>1, <1>2, <1>3, ConnectsMoveAdapters, OpensMoveAdapters, DeliveriesMoveAdapters,
     StreamsMoveAdapters DEF Next, TaskNext, Idle

LEMMA EpochStep ==
  ASSUME TypeOK, [Next]_vars
  PROVE  EpochStays
<1>1. CASE ConnectTaskNext \/ EnsureStreamNext
  BY <1>1 DEF ConnectTaskNext, ConnectProbed, ConnectAttach, ConnectEnsured, ConnectRetry,
     ConnectReopen, ConnectOpen, ScheduleRetry, EnsureStreamNext, EnsureBegin, EnsureDial,
     EnsureSettle, EpochStays
<1>2. CASE RetryNext \/ RestartNext
  BY <1>2 DEF RetryNext, RestartNext, RetryFires, RetryConnects, ServerRestarted,
     RestartConnects, Connect, EpochStays
<1>3. CASE OpenTaskNext \/ DeliverNext
  BY <1>3 DEF OpenTaskNext, OpenAttach, OpenEnsured, OpenHistory, OpenResume, OpenResumed,
     OpenStreamLost, OpenRetry, ScheduleRetry, DeliverNext, DeliverChecks, DeliverConnects,
     DeliverWaits, DeliverReadsBackend, DeliverLocks, DeliverAims, DeliverResumes,
     DeliverCreates, DeliverAttaches, DeliverSubmits, DeliverTakesBack, Connect, EpochStays
<1>4. CASE StopTaskNext \/ PumpNext \/ WindowContinues
  BY <1>4 DEF StopTaskNext, StopInterrupts, StopGraceEnds, StopAfterTurn, StopSends,
     PumpNext, DropsEvent, HandleConnected, HandleSessionInfo, HandleClarify, HandleLost,
     HandleTurn, PumpStreamLost, PumpRetry, PumpAfterTurn, PumpSends, ScheduleRetry,
     WindowContinues, WindowConnects, WindowClearsScope, WindowSends, WindowAnswers,
     WindowStops, WindowAfterTurn, Connect, EpochStays
<1>5. CASE CommandNext \/ ListFails
  BY <1>5 DEF CommandNext, ListFails, CommandConnect, DisableBackend, ApplyWorkspace,
     SwitchBackend, OpenSession, NewChat, Submit, CommandStop, DismissClarify, SendQueuedNow,
     Unqueue, Connect, EpochStays
<1>6. CASE AdapterTaskNext \/ StreamNext
  BY <1>6 DEF AdapterTaskNext, AdapterDisconnects, ClearScope, AnswerEnds, StreamNext,
     StreamConnects, StreamFails, StreamDrops, StreamFrame, StreamQuestion, StreamSessionInfo,
     Reports, EpochStays
<1>7. CASE UNCHANGED vars
  BY <1>7 DEF vars, EpochStays
<1>8. QED
  BY <1>1, <1>2, <1>3, <1>4, <1>5, <1>6, <1>7 DEF Next, TaskNext, Idle
-----------------------------------------------------------------------------
(* A switch leaves every channel, task and adapter behind. *)
LEMMA SwitchKeepsOwn ==
  ASSUME TypeOK, LockInv, OursInv, NEW k \in Kind, SwitchBackend(k)
  PROVE  OursInv'
<1> DEFINE b == NewAdapter(k)
<1>1. b \in Adapter /\ b.scope = {} /\ b.stream = 0 /\ b.channel = 0
  BY DEF NewAdapter, Adapter
<1>2. backends \in Seq(Adapter) /\ backends' = Append(backends, b)
  BY DEF SwitchBackend, TypeOK, AdaptersTypeOK
<1> HIDE DEF b
<1>3. connection_epoch \in Nat /\ connection_epoch' = connection_epoch + 1
  BY DEF TypeOK, ConnTypeOK, SwitchBackend
<1>4. view_generation \in Nat /\ view_generation' = view_generation + 1
  BY DEF TypeOK, ViewTypeOK, SwitchBackend, AdvanceView
<1>5. ASSUME NEW i \in Adapters
      PROVE  /\ backends'[i] = backends[i] /\ backends[i].stream < connection_epoch'
             /\ backends[i].stream <= connection_epoch'
             /\ backends[i].channel <= connection_epoch'
  <2>1. backends'[i] = backends[i]
    BY <1>1, <1>2, <1>5, AppendProperties DEF Adapters
  <2>2. backends[i].stream \in Nat /\ backends[i].channel \in Nat
    BY AdapterTyped DEF Adapter
  <2>3. backends[i].stream <= connection_epoch /\ backends[i].channel <= connection_epoch
    BY DEF OursInv, EpochsLead
  <2>4. QED
    BY <1>3, <2>1, <2>2, <2>3
<1>6. ASSUME NEW i \in Adapters', i \notin Adapters
      PROVE  backends'[i] = b
  BY <1>1, <1>2, <1>6, AppendProperties DEF Adapters
<1>7. ASSUME NEW p \in pumps
      PROVE  p.epoch < connection_epoch' /\ p.epoch <= connection_epoch'
  <2>1. p.epoch \in Nat /\ p.epoch <= connection_epoch
    BY DEF TypeOK, TasksTypeOK, Pump, OursInv, EpochsLead
  <2>2. QED
    BY <1>3, <2>1
<1>8. UNCHANGED <<pumps, opens, delivers>> /\ origins' = {} /\ clarify' = None
  BY DEF SwitchBackend
<1>9. EpochsLead'
  BY <1>1, <1>3, <1>5, <1>6, <1>7, <1>8 DEF EpochsLead
<1>10. OldOnesMuted'
  BY <1>1, <1>5, <1>6 DEF OldOnesMuted, Ours
<1>11. ScopersOurs'
  <2>1. ASSUME NEW o \in opens
        PROVE  o.view <= view_generation' /\ o.view # view_generation'
    <3>1. o.view \in Nat /\ o.view <= view_generation
      BY DEF TypeOK, TasksTypeOK, OpenTask, OursInv, ScopersOurs
    <3>2. QED
      BY <1>4, <3>1
  <2>2. ASSUME NEW d \in delivers, d.pc \in {"resume", "create"}
        PROVE  Ours(d.inst)'
    <3>1. d.inst \in Adapters
      BY <2>2 DEF LockInv, DeliverHasAdapter, DeliverHolds
    <3>2. QED
      BY <1>5, <3>1 DEF Ours
  <2>3. QED
    BY <1>8, <2>1, <2>2 DEF ScopersOurs
<1>12. ChannelOurs'
  <2>1. \A p \in pumps' : p.epoch # connection_epoch'
    <3>1. ASSUME NEW p \in pumps
          PROVE  p.epoch # connection_epoch'
      <4>1. p.epoch \in Nat
        BY DEF TypeOK, TasksTypeOK, Pump
      <4>2. QED
        BY <1>3, <1>7, <4>1
    <3>2. QED
      BY <1>8, <3>1
  <2>2. QED
    BY <2>1 DEF ChannelOurs
<1>13. ScreenOurs'
  BY <1>8 DEF ScreenOurs
<1>14. QED
  BY <1>9, <1>10, <1>11, <1>12, <1>13 DEF OursInv

-----------------------------------------------------------------------------
(* The tasks that may scope an adapter. *)

(* An open goes on with the adapter it has, takes the one in use, or is new. *)
OpensGo ==
  /\ view_generation' \in {view_generation, view_generation + 1}
  /\ \A o \in opens' :
       \/ \E p \in opens : /\ o.view = p.view
                           /\ OpenHasAdapter(o) =>
                                (OpenHasAdapter(p) /\ o.inst = p.inst) \/ o.inst = Current
       \/ o.view = view_generation' /\ ~OpenHasAdapter(o)

(* A delivery is aimed at the adapter in use. *)
DeliversGo ==
  \A d \in delivers' : d.pc \in {"resume", "create"} => d \in delivers \/ d.inst = Current

LEMMA ScopersStayOurs ==
  ASSUME TypeOK, LockInv, AdaptersGo, EpochStays, ScopersOurs, OpensGo, DeliversGo
  PROVE  ScopersOurs'
<1>1. ASSUME NEW o \in opens'
      PROVE  /\ o.view <= view_generation'
             /\ o.view = view_generation' /\ OpenHasAdapter(o) => o.inst = Current'
  <2>1. view_generation \in Nat
    BY DEF TypeOK, ViewTypeOK
  <2>2. CASE o.view = view_generation' /\ ~OpenHasAdapter(o)
    BY <2>1, <2>2 DEF OpensGo
  <2>3. ASSUME NEW p \in opens, o.view = p.view,
               OpenHasAdapter(o) =>
                 (OpenHasAdapter(p) /\ o.inst = p.inst) \/ o.inst = Current
        PROVE  /\ o.view <= view_generation'
               /\ o.view = view_generation' /\ OpenHasAdapter(o) => o.inst = Current'
    <3>1. p.view \in Nat /\ p.view <= view_generation
      BY DEF TypeOK, TasksTypeOK, OpenTask, ScopersOurs
    <3>2. o.view <= view_generation'
      BY <2>1, <2>3, <3>1 DEF OpensGo
    <3>3. o.view = view_generation' => p.view = view_generation
      BY <2>1, <2>3, <3>1 DEF OpensGo
    <3>4. QED
      BY <2>3, <3>2, <3>3 DEF ScopersOurs, AdaptersGo
  <2>4. QED
    BY <2>2, <2>3 DEF OpensGo
<1>2. ASSUME NEW d \in delivers', d.pc \in {"resume", "create"}
      PROVE  Ours(d.inst)'
  <2>1. CASE d.inst = Current
    BY <2>1 DEF Ours, AdaptersGo
  <2>2. CASE d \in delivers
    <3>1. d.inst \in Adapters /\ backends[d.inst].guard = "held"
      BY <1>2, <2>2 DEF LockInv, DeliverHasAdapter, DeliverHolds
    <3>2. Ours(d.inst)
      BY <1>2, <2>2 DEF ScopersOurs
    <3>3. QED
      BY <3>1, <3>2, AdaptersStayOurs
  <2>3. QED
    BY <1>2, <2>1, <2>2 DEF DeliversGo
<1>3. QED
  BY <1>1, <1>2 DEF ScopersOurs, OpenHasAdapter, OpenHolds

(* An open is started by open() and goes on by itself. *)
LEMMA OpenedGoes ==
  ASSUME TypeOK, NEW s, Open(s)
  PROVE  OpensGo
BY DEF Open, AdvanceView, OpensGo, OpenHasAdapter, OpenHolds

LEMMA SameOpensGo ==
  ASSUME UNCHANGED opens, UNCHANGED view_generation \/ AdvanceView
  PROVE  OpensGo
BY DEF OpensGo, AdvanceView, OpenHasAdapter, OpenHolds

LEMMA OpenTasksGo ==
  ASSUME TypeOK, OpenTaskNext
  PROVE  OpensGo
<1>1. PICK o \in opens :
      \/ OpenAttach(o) \/ OpenEnsured(o) \/ OpenHistory(o) \/ OpenResume(o)
      \/ OpenResumed(o) \/ OpenStreamLost(o) \/ OpenRetry(o)
  BY DEF OpenTaskNext
<1>2. o \in OpenTask
  BY DEF TypeOK, TasksTypeOK
<1>3. UNCHANGED view_generation
  BY <1>1 DEF OpenAttach, OpenEnsured, OpenHistory, OpenResume, OpenResumed, OpenStreamLost,
     OpenRetry
<1>4. ASSUME NEW q, opens' = (opens \ {o}) \cup {q}, q.view = o.view,
             OpenHasAdapter(q) => (OpenHasAdapter(o) /\ q.inst = o.inst) \/ q.inst = Current
      PROVE  OpensGo
  BY <1>3, <1>4 DEF OpensGo
<1>5. CASE opens' \subseteq opens
  BY <1>3, <1>5 DEF OpensGo
<1>6. ASSUME NEW pc, OpenIs(o, pc), OpenHasAdapter(o) \/ pc = "lost"
      PROVE  OpensGo
  <2> DEFINE q == [o EXCEPT !.pc = pc]
  <2>1. q.view = o.view /\ q.pc = pc /\ q.inst = o.inst
    BY <1>2 DEF OpenTask
  <2>2. opens' = (opens \ {o}) \cup {q}
    BY <1>6 DEF OpenIs
  <2> HIDE DEF q
  <2>3. QED
    BY <1>4, <1>6, <2>1, <2>2 DEF OpenHasAdapter, OpenHolds
<1>7. CASE OpenAttach(o)
  <2> DEFINE q == [o EXCEPT !.pc = "ensure", !.inst = Current]
  <2>1. q.view = o.view /\ q.inst = Current
    BY <1>2 DEF OpenTask
  <2>2. opens' \subseteq opens \/ opens' = (opens \ {o}) \cup {q}
    BY <1>7 DEF OpenAttach
  <2> HIDE DEF q
  <2>3. QED
    BY <1>4, <1>5, <2>1, <2>2
<1>8. CASE OpenStreamLost(o)
  <2> DEFINE q == [o EXCEPT !.pc = "retry", !.gen = connect_generation]
  <2>1. q.view = o.view /\ q.pc = "retry"
    BY <1>2 DEF OpenTask
  <2>2. opens' = (opens \ {o}) \cup {q}
    BY <1>8 DEF OpenStreamLost
  <2> HIDE DEF q
  <2>3. QED
    BY <1>4, <2>1, <2>2 DEF OpenHasAdapter, OpenHolds
<1>9. CASE OpenEnsured(o) \/ OpenHistory(o) \/ OpenResume(o)
  BY <1>5, <1>6, <1>9 DEF OpenEnsured, OpenHistory, OpenResume, OpenHasAdapter, OpenHolds
<1>10. CASE OpenResumed(o) \/ OpenRetry(o)
  BY <1>5, <1>10 DEF OpenResumed, OpenRetry
<1>11. QED
  BY <1>1, <1>7, <1>8, <1>9, <1>10

LEMMA StepMovesOpens ==
  ASSUME TypeOK, [Next]_vars
  PROVE  OpensGo
<1>1. CASE ConnectTaskNext
  <2>1. (UNCHANGED <<opens, view_generation>>) \/ \E s : Open(s)
    BY <1>1 DEF ConnectTaskNext, ConnectProbed, ConnectAttach, ConnectEnsured, ConnectRetry,
       ConnectReopen, ConnectOpen
  <2>2. QED
    BY <2>1, SameOpensGo, OpenedGoes
<1>2. CASE CommandNext \/ ListFails
  <2>1. (UNCHANGED opens /\ (UNCHANGED view_generation \/ AdvanceView)) \/ \E s : Open(s)
    BY <1>2 DEF CommandNext, ListFails, CommandConnect, DisableBackend, ApplyWorkspace,
       SwitchBackend, OpenSession, NewChat, Submit, CommandStop, DismissClarify,
       SendQueuedNow, Unqueue
  <2>2. QED
    BY <2>1, SameOpensGo, OpenedGoes
<1>3. CASE EnsureStreamNext \/ RetryNext \/ RestartNext
  BY <1>3, SameOpensGo DEF EnsureStreamNext, EnsureBegin, EnsureDial, EnsureSettle, RetryNext,
     RetryFires, RetryConnects, RestartNext, ServerRestarted, RestartConnects
<1>4. CASE DeliverNext
  BY <1>4, SameOpensGo DEF DeliverNext, DeliverChecks, DeliverConnects, DeliverWaits,
     DeliverReadsBackend, DeliverLocks, DeliverAims, DeliverResumes, DeliverCreates,
     DeliverAttaches, DeliverSubmits, DeliverTakesBack
<1>5. CASE StopTaskNext \/ WindowContinues
  BY <1>5, SameOpensGo DEF StopTaskNext, StopInterrupts, StopGraceEnds, StopAfterTurn,
     StopSends, WindowContinues, WindowConnects, WindowClearsScope, WindowSends,
     WindowAnswers, WindowStops, WindowAfterTurn
<1>6. CASE PumpNext
  BY <1>6, SameOpensGo DEF PumpNext, DropsEvent, HandleConnected, HandleSessionInfo,
     HandleClarify, HandleLost, HandleTurn, PumpStreamLost, PumpRetry, PumpAfterTurn, PumpSends
<1>7. CASE AdapterTaskNext \/ StreamNext
  BY <1>7, SameOpensGo DEF AdapterTaskNext, AdapterDisconnects, ClearScope, AnswerEnds,
     StreamNext, StreamConnects, StreamFails, StreamDrops, StreamFrame, StreamQuestion,
     StreamSessionInfo, Reports
<1>8. CASE UNCHANGED vars
  BY <1>8, SameOpensGo DEF vars
<1>9. QED
  BY <1>1, <1>2, <1>3, <1>4, <1>5, <1>6, <1>7, <1>8, OpenTasksGo DEF Next, TaskNext, Idle

LEMMA StepAimsDeliveries ==
  ASSUME TypeOK, AimInv, [Next]_vars
  PROVE  DeliversGo
<1>1. CASE DeliverNext
  <2>1. PICK d \in delivers :
        \/ DeliverChecks(d) \/ DeliverConnects(d) \/ DeliverWaits(d)
        \/ DeliverReadsBackend(d) \/ DeliverLocks(d) \/ DeliverAims(d)
        \/ DeliverResumes(d) \/ DeliverCreates(d) \/ DeliverAttaches(d)
        \/ DeliverSubmits(d) \/ DeliverTakesBack(d)
    BY <1>1 DEF DeliverNext
  <2>2. ASSUME NEW e, delivers' = (delivers \ {d}) \cup {e},
               e.pc \in {"resume", "create"} => e.inst = Current
        PROVE  DeliversGo
    BY <2>2 DEF DeliversGo
  <2>3. ASSUME NEW pc, DeliverIs(d, pc), pc \in {"resume", "create"} => d.inst = Current
        PROVE  DeliversGo
    <3> DEFINE e == [d EXCEPT !.pc = pc]
    <3>1. e.pc = pc /\ e.inst = d.inst
      BY DeliverMoves
    <3>2. delivers' = (delivers \ {d}) \cup {e}
      BY <2>3 DEF DeliverIs
    <3> HIDE DEF e
    <3>3. QED
      BY <2>2, <2>3, <3>1, <3>2
  <2>4. CASE DeliverAims(d)
    <3>1. ~DeliverIsStale(d) => d.inst = Current
      BY <2>4 DEF AimInv, Aim, FromThisView, DeliverIsStale, DeliverAims, DeliverHasAdapter
    <3> DEFINE s == [d EXCEPT !.pc = "submit", !.target = live]
               r == [d EXCEPT !.pc = "resume", !.target = stored]
    <3>2. s.pc = "submit" /\ r.inst = d.inst
      BY DeliverMoves
    <3>3. \/ DeliverIs(d, "back")
          \/ delivers' = (delivers \ {d}) \cup {s}
          \/ ~DeliverIsStale(d) /\ delivers' = (delivers \ {d}) \cup {r}
          \/ ~DeliverIsStale(d) /\ DeliverIs(d, "create")
      BY <2>4 DEF DeliverAims
    <3> HIDE DEF s, r
    <3>4. QED
      BY <2>2, <2>3, <3>1, <3>2, <3>3
  <2>5. CASE DeliverReadsBackend(d)
    <3> DEFINE e == [d EXCEPT !.pc = "lock", !.inst = Current]
    <3>1. e.pc = "lock"
      BY DeliverMoves
    <3>2. delivers' = (delivers \ {d}) \cup {e}
      BY <2>5 DEF DeliverReadsBackend
    <3> HIDE DEF e
    <3>3. QED
      BY <2>2, <3>1, <3>2
  <2>6. CASE DeliverCreates(d)
    <3> DEFINE e(s) == [d EXCEPT !.pc = "created", !.target = s]
    <3>1. \A s : e(s).pc = "created"
      BY DeliverMoves
    <3>2. DeliverIs(d, "back") \/ \E s \in Session : delivers' = (delivers \ {d}) \cup {e(s)}
      BY <2>6 DEF DeliverCreates
    <3> HIDE DEF e
    <3>3. QED
      BY <2>2, <2>3, <3>1, <3>2
  <2>7. CASE delivers' \subseteq delivers
    BY <2>7 DEF DeliversGo
  <2>8. CASE \/ DeliverChecks(d) \/ DeliverConnects(d) \/ DeliverWaits(d) \/ DeliverLocks(d)
             \/ DeliverResumes(d) \/ DeliverAttaches(d)
    BY <2>3, <2>8 DEF DeliverChecks, DeliverConnects, DeliverWaits, DeliverLocks,
       DeliverResumes, DeliverAttaches
  <2>9. CASE DeliverSubmits(d) \/ DeliverTakesBack(d)
    BY <2>3, <2>7, <2>9 DEF DeliverSubmits, DeliverTakesBack
  <2>10. QED
    BY <2>1, <2>4, <2>5, <2>6, <2>8, <2>9
<1>2. CASE ~DeliverNext
  <2>1. UNCHANGED delivers \/ \E text : Send(text)
    <3>1. CASE ConnectTaskNext \/ EnsureStreamNext \/ RetryNext \/ RestartNext
      BY <3>1 DEF ConnectTaskNext, ConnectProbed, ConnectAttach, ConnectEnsured, ConnectRetry,
         ConnectReopen, ConnectOpen, EnsureStreamNext, EnsureBegin, EnsureDial, EnsureSettle,
         RetryNext, RetryFires, RetryConnects, RestartNext, ServerRestarted, RestartConnects
    <3>2. CASE OpenTaskNext \/ AdapterTaskNext \/ StreamNext
      BY <3>2 DEF OpenTaskNext, OpenAttach, OpenEnsured, OpenHistory, OpenResume, OpenResumed,
         OpenStreamLost, OpenRetry, AdapterTaskNext, AdapterDisconnects, ClearScope, AnswerEnds,
         StreamNext, StreamConnects, StreamFails, StreamDrops, StreamFrame, StreamQuestion,
         StreamSessionInfo, Reports
    <3>3. CASE StopTaskNext \/ WindowContinues \/ PumpNext
      BY <3>3 DEF StopTaskNext, StopInterrupts, StopGraceEnds, StopAfterTurn, StopSends,
         WindowContinues, WindowConnects, WindowClearsScope, WindowSends, WindowAnswers,
         WindowStops, WindowAfterTurn, PumpNext, DropsEvent, HandleConnected,
         HandleSessionInfo, HandleClarify, HandleLost, HandleTurn, PumpStreamLost, PumpRetry,
         PumpAfterTurn, PumpSends
    <3>4. CASE CommandNext \/ ListFails
      BY <3>4 DEF CommandNext, ListFails, CommandConnect, DisableBackend, ApplyWorkspace,
         SwitchBackend, OpenSession, NewChat, Submit, CommandStop, DismissClarify,
         SendQueuedNow, Unqueue
    <3>5. CASE UNCHANGED vars
      BY <3>5 DEF vars
    <3>6. QED
      BY <1>2, <3>1, <3>2, <3>3, <3>4, <3>5 DEF Next, TaskNext, Idle
  <2>2. QED
    BY <2>1 DEF Send, DeliversGo
<1>3. QED
  BY <1>1, <1>2
-----------------------------------------------------------------------------
(* The channels. *)

(* What the channel listened to holds it held before, or is of this backend; *)
(* a channel that is new is empty.                                          *)
PumpGoes(q) ==
  \E p \in pumps :
    /\ q.epoch = p.epoch
    /\ \A n \in DOMAIN q.events :
         \/ \E m \in DOMAIN p.events : q.events[n] = p.events[m]
         \/ p.epoch = connection_epoch /\ q.events[n].kind \in Filtered =>
              Owner[q.events[n].session] = kind

PumpsGo ==
  \A q \in pumps' : PumpGoes(q) \/ (q.epoch = connection_epoch' /\ q.events = <<>>)

(* The adapter in use stays, and so does its kind. *)
LEMMA KindStays ==
  ASSUME TypeOK, AdaptersGo
  PROVE  kind' = kind
<1>1. Current \in Adapters
  BY DEF TypeOK, AdaptersTypeOK, Current, Adapters
<1>2. QED
  BY <1>1 DEF AdaptersGo, AdapterGoes, kind

LEMMA ChannelsStayOurs ==
  ASSUME TypeOK, AdaptersGo, EpochStays, EpochsLead, ChannelOurs, PumpsGo
  PROVE  ChannelOurs' /\ \A p \in pumps' : p.epoch <= connection_epoch'
<1>0. connection_epoch \in Nat
  BY DEF TypeOK, ConnTypeOK
<1> SUFFICES ASSUME NEW q \in pumps'
             PROVE  /\ q.epoch <= connection_epoch'
                    /\ q.epoch = connection_epoch' =>
                         \A n \in DOMAIN q.events :
                           q.events[n].kind \in Filtered => Owner[q.events[n].session] = kind'
  BY DEF ChannelOurs, Filtered
<1>1. CASE q.epoch = connection_epoch' /\ q.events = <<>>
  <2>1. DOMAIN q.events = {}
    BY <1>1
  <2>2. QED
    BY <1>0, <1>1, <2>1 DEF EpochStays
<1>2. CASE PumpGoes(q)
  <2>1. PICK p \in pumps :
          /\ q.epoch = p.epoch
          /\ \A n \in DOMAIN q.events :
               \/ \E m \in DOMAIN p.events : q.events[n] = p.events[m]
               \/ p.epoch = connection_epoch /\ q.events[n].kind \in Filtered =>
                    Owner[q.events[n].session] = kind
    BY <1>2 DEF PumpGoes
  <2>2. p.epoch \in Nat /\ p.epoch <= connection_epoch
    BY DEF TypeOK, TasksTypeOK, Pump, EpochsLead
  <2>3. q.epoch <= connection_epoch' /\ (q.epoch = connection_epoch' => p.epoch = connection_epoch)
    BY <1>0, <2>1, <2>2 DEF EpochStays
  <2>4. ASSUME p.epoch = connection_epoch, NEW n \in DOMAIN q.events,
               q.events[n].kind \in Filtered
        PROVE  Owner[q.events[n].session] = kind
    BY <2>1, <2>4 DEF ChannelOurs
  <2>5. kind' = kind
    BY KindStays
  <2>6. QED
    BY <2>3, <2>4, <2>5
<1>3. QED
  BY <1>1, <1>2 DEF PumpsGo

(* The forms the actions change the channels in. *)
LEMMA SamePumpsGo ==
  ASSUME UNCHANGED pumps
  PROVE  PumpsGo
<1>1. ASSUME NEW q \in pumps
      PROVE  PumpGoes(q)
  BY DEF PumpGoes
<1>2. QED
  BY <1>1 DEF PumpsGo

LEMMA EmittedGoes ==
  ASSUME TypeOK, NEW e, NEW event \in Event,
         e = connection_epoch /\ event.kind \in Filtered => Owner[event.session] = kind,
         pumps' = Emit(pumps, e, event)
  PROVE  PumpsGo
<1> SUFFICES ASSUME NEW q \in pumps'
             PROVE  PumpGoes(q)
  BY DEF PumpsGo
<1>1. PICK p \in pumps : q = IF p.epoch = e THEN [p EXCEPT !.events = Append(@, event)] ELSE p
  BY DEF Emit
<1>2. p \in Pump /\ p.events \in Seq(Event)
  BY DEF TypeOK, TasksTypeOK, Pump
<1>3. CASE p.epoch = e
  <2>1. q.events = Append(p.events, event) /\ q.epoch = p.epoch
    BY <1>1, <1>2, <1>3 DEF Pump
  <2>2. ASSUME NEW n \in DOMAIN q.events
        PROVE  q.events[n] = event \/ \E m \in DOMAIN p.events : q.events[n] = p.events[m]
    <3>1. CASE n = Len(p.events) + 1
      BY <1>2, <2>1, <3>1, AppendProperties
    <3>2. CASE n # Len(p.events) + 1
      <4>1. n \in DOMAIN p.events /\ q.events[n] = p.events[n]
        BY <1>2, <2>1, <3>2, AppendProperties
      <4>2. QED
        BY <4>1
    <3>3. QED
      BY <3>1, <3>2
  <2>3. ASSUME NEW n \in DOMAIN q.events
        PROVE  \/ \E m \in DOMAIN p.events : q.events[n] = p.events[m]
               \/ p.epoch = connection_epoch /\ q.events[n].kind \in Filtered =>
                    Owner[q.events[n].session] = kind
    BY <1>3, <2>2
  <2>4. QED
    BY <2>1, <2>3 DEF PumpGoes
<1>4. CASE p.epoch # e
  BY <1>1, <1>4 DEF PumpGoes
<1>5. QED
  BY <1>3, <1>4

LEMMA LastWordGoes ==
  ASSUME TypeOK, NEW i, LastWord(i)
  PROVE  PumpsGo
<1>1. Plain("Disconnected") \in Event /\ Plain("Disconnected").kind \notin Filtered
  BY PlainTyped DEF Plain, Filtered, Replies
<1>2. QED
  BY <1>1, EmittedGoes, SamePumpsGo DEF LastWord

LEMMA PumpMovesOn ==
  ASSUME NEW p \in pumps, NEW q, p.events \in Seq(Event), q.epoch = p.epoch,
         q.events = p.events \/ (p.events # <<>> /\ q.events = Tail(p.events)),
         pumps' = (pumps \ {p}) \cup {q}
  PROVE  PumpsGo
<1>1. ASSUME NEW r \in pumps
      PROVE  PumpGoes(r)
  BY DEF PumpGoes
<1>2. PumpGoes(q)
  <2>1. ASSUME NEW n \in DOMAIN q.events
        PROVE  \E m \in DOMAIN p.events : q.events[n] = p.events[m]
    <3>1. CASE q.events = p.events
      BY <3>1
    <3>2. CASE p.events # <<>> /\ q.events = Tail(p.events)
      <4>1. n + 1 \in DOMAIN p.events /\ q.events[n] = p.events[n + 1]
        BY <3>2
      <4>2. QED
        BY <4>1
    <3>3. QED
      BY <3>1, <3>2
  <2>2. QED
    BY <2>1 DEF PumpGoes
<1>3. QED
  BY <1>1, <1>2 DEF PumpsGo

(* A reply passes a filter only if its adapter is the one in use, or nobody *)
(* listens to it.                                                           *)
LEMMA StreamsFillChannels ==
  ASSUME ~AnnouncesSessions, TypeOK, OldOnesMuted, StreamNext
  PROVE  PumpsGo
<1>1. PICK i \in Adapters :
        \/ StreamConnects(i) \/ StreamFails(i) \/ StreamDrops(i)
        \/ \E s \in Session :
             \/ \E k \in {"Delta", "Complete", "TurnFailed"} : StreamFrame(i, s, k)
             \/ StreamQuestion(i, s)
             \/ StreamSessionInfo(i, s)
  BY DEF StreamNext
<1>2. \A k \in {"Connected", "Disconnected", "Failed"} :
        Plain(k) \in Event /\ Plain(k).kind \notin Filtered
  BY PlainTyped DEF Plain, Filtered, Replies
<1>3. CASE StreamConnects(i) \/ StreamFails(i) \/ StreamDrops(i)
  <2>1. \E k \in {"Connected", "Disconnected", "Failed"} :
          pumps' = Emit(pumps, backends[i].stream, Plain(k))
    BY <1>3 DEF StreamConnects, StreamFails, StreamDrops, Reports
  <2>2. QED
    BY <1>2, <2>1, EmittedGoes
<1>4. ASSUME NEW s \in backends[i].scope, backends[i].stream = connection_epoch,
             Owner[s] = backends[i].kind
      PROVE  Owner[s] = kind
  <2>1. Ours(i)
    BY <1>4 DEF OldOnesMuted
  <2>2. i = Current
    <3>1. connection_epoch \in Nat
      BY DEF TypeOK, ConnTypeOK
    <3>2. QED
      BY <1>4, <2>1, <3>1 DEF Ours
  <2>3. QED
    BY <1>4, <2>2 DEF kind
<1>5. ASSUME NEW s \in Session, NEW k \in {"Delta", "Complete", "TurnFailed"}, StreamFrame(i, s, k)
      PROVE  PumpsGo
  <2> DEFINE event == [kind |-> k, session |-> s]
  <2>1. event \in Event /\ event.session = s
    BY DEF Event
  <2>2. backends[i].stream = connection_epoch => Owner[s] = kind
    BY <1>4, <1>5 DEF StreamFrame, BelongsToOpenSession
  <2>3. pumps' = Emit(pumps, backends[i].stream, event)
    BY <1>5 DEF StreamFrame, Reports
  <2> HIDE DEF event
  <2>4. QED
    BY <2>1, <2>2, <2>3, EmittedGoes
<1>6. ASSUME NEW s \in Session, StreamQuestion(i, s)
      PROVE  PumpsGo
  <2> DEFINE event == [kind |-> "Clarify", session |-> s]
  <2>1. event \in Event /\ event.session = s /\ event.kind = "Clarify"
    BY DEF Event
  <2>2. FansOutQuestions => event.kind \notin Filtered
    BY <2>1 DEF Filtered, Replies
  <2>3. ~FansOutQuestions /\ backends[i].stream = connection_epoch => Owner[s] = kind
    BY <1>4, <1>6 DEF StreamQuestion, BelongsToOpenSession
  <2>4. pumps' = Emit(pumps, backends[i].stream, event)
    BY <1>6 DEF StreamQuestion, Reports
  <2> HIDE DEF event
  <2>5. QED
    BY <2>1, <2>2, <2>3, <2>4, EmittedGoes
<1>7. QED
  BY <1>1, <1>3, <1>5, <1>6 DEF StreamSessionInfo

LEMMA PumpsEmptyChannels ==
  ASSUME TypeOK, PumpNext
  PROVE  PumpsGo
<1>1. PICK p \in pumps :
        \/ DropsEvent(p) \/ HandleConnected(p) \/ HandleSessionInfo(p) \/ HandleClarify(p)
        \/ HandleLost(p) \/ HandleTurn(p)
        \/ PumpStreamLost(p) \/ PumpRetry(p) \/ PumpAfterTurn(p) \/ PumpSends(p)
  BY DEF PumpNext
<1>2. p \in Pump /\ p.events \in Seq(Event)
  BY DEF TypeOK, TasksTypeOK, Pump
<1>3. ASSUME NEW pc, p.events # <<>>, Handled(p, pc)
      PROVE  PumpsGo
  <2> DEFINE q == [p EXCEPT !.events = Tail(@), !.pc = pc]
  <2>1. q.events = Tail(p.events) /\ q.epoch = p.epoch
    BY <1>2 DEF Pump
  <2>2. pumps' = (pumps \ {p}) \cup {q}
    BY <1>3 DEF Handled
  <2> HIDE DEF q
  <2>3. QED
    BY <1>2, <1>3, <2>1, <2>2, PumpMovesOn
<1>4. CASE \/ DropsEvent(p) \/ HandleConnected(p) \/ HandleSessionInfo(p) \/ HandleClarify(p)
           \/ HandleLost(p) \/ HandleTurn(p)
  BY <1>3, <1>4 DEF DropsEvent, HandleConnected, HandleSessionInfo, HandleClarify,
     HandleLost, HandleTurn, Ready
<1>5. CASE PumpStreamLost(p)
  <2> DEFINE q == [p EXCEPT !.pc = "retry", !.gen = connect_generation]
  <2>1. q.events = p.events /\ q.epoch = p.epoch
    BY <1>2 DEF Pump
  <2>2. pumps' = (pumps \ {p}) \cup {q}
    BY <1>5 DEF PumpStreamLost
  <2> HIDE DEF q
  <2>3. QED
    BY <1>2, <2>1, <2>2, PumpMovesOn
<1>6. CASE PumpRetry(p)
  <2> DEFINE q == [p EXCEPT !.pc = "idle", !.gen = 0]
  <2>1. q.events = p.events /\ q.epoch = p.epoch
    BY <1>2 DEF Pump
  <2>2. pumps' = (pumps \ {p}) \cup {q}
    BY <1>6 DEF PumpRetry
  <2> HIDE DEF q
  <2>3. QED
    BY <1>2, <2>1, <2>2, PumpMovesOn
<1>7. CASE PumpAfterTurn(p)
  <2> DEFINE q == [p EXCEPT !.pc = IF NextQueued = NoText THEN "idle" ELSE "send",
                            !.text = NextQueued]
  <2>1. q.events = p.events /\ q.epoch = p.epoch
    BY <1>2 DEF Pump
  <2>2. pumps' = (pumps \ {p}) \cup {q}
    BY <1>7 DEF PumpAfterTurn
  <2> HIDE DEF q
  <2>3. QED
    BY <1>2, <2>1, <2>2, PumpMovesOn
<1>8. CASE PumpSends(p)
  <2> DEFINE q == [p EXCEPT !.pc = "idle", !.text = NoText]
  <2>1. q.events = p.events /\ q.epoch = p.epoch
    BY <1>2 DEF Pump
  <2>2. pumps' = (pumps \ {p}) \cup {q}
    BY <1>8 DEF PumpSends
  <2> HIDE DEF q
  <2>3. QED
    BY <1>2, <2>1, <2>2, PumpMovesOn
<1>9. QED
  BY <1>1, <1>4, <1>5, <1>6, <1>7, <1>8

LEMMA StepMovesChannels ==
  ASSUME ~AnnouncesSessions, TypeOK, OldOnesMuted, [Next]_vars
  PROVE  PumpsGo
<1>1. CASE ConnectTaskNext \/ RetryNext \/ RestartNext
  BY <1>1, SamePumpsGo DEF ConnectTaskNext, ConnectProbed, ConnectAttach, ConnectEnsured,
     ConnectRetry, ConnectReopen, ConnectOpen, RetryNext, RetryFires, RetryConnects,
     RestartNext, ServerRestarted, RestartConnects
<1>2. ASSUME NEW i \in Adapters, EnsureBegin(i)
      PROVE  PumpsGo
  <2> DEFINE q == [epoch |-> connection_epoch + 1, events |-> <<>>,
                   pc |-> "idle", gen |-> 0, text |-> NoText]
  <2>1. q.events = <<>> /\ q.epoch = connection_epoch + 1
    OBVIOUS
  <2>2. \/ UNCHANGED pumps
        \/ pumps' = pumps \cup {q} /\ connection_epoch' = connection_epoch + 1
    BY <1>2 DEF EnsureBegin
  <2> HIDE DEF q
  <2>3. ASSUME NEW p \in pumps
        PROVE  PumpGoes(p)
    BY DEF PumpGoes
  <2>4. QED
    BY <2>1, <2>2, <2>3, SamePumpsGo DEF PumpsGo
<1>3. CASE EnsureStreamNext
  BY <1>2, <1>3, LastWordGoes, SamePumpsGo DEF EnsureStreamNext, EnsureDial, EnsureSettle
<1>4. CASE OpenTaskNext \/ DeliverNext
  BY <1>4, SamePumpsGo DEF OpenTaskNext, OpenAttach, OpenEnsured, OpenHistory, OpenResume,
     OpenResumed, OpenStreamLost, OpenRetry, DeliverNext, DeliverChecks, DeliverConnects,
     DeliverWaits, DeliverReadsBackend, DeliverLocks, DeliverAims, DeliverResumes,
     DeliverCreates, DeliverAttaches, DeliverSubmits, DeliverTakesBack
<1>5. CASE StopTaskNext \/ WindowContinues
  BY <1>5, SamePumpsGo DEF StopTaskNext, StopInterrupts, StopGraceEnds, StopAfterTurn,
     StopSends, WindowContinues, WindowConnects, WindowClearsScope, WindowSends,
     WindowAnswers, WindowStops, WindowAfterTurn
<1>6. CASE CommandNext \/ ListFails
  BY <1>6, SamePumpsGo DEF CommandNext, ListFails, CommandConnect, DisableBackend,
     ApplyWorkspace, SwitchBackend, OpenSession, NewChat, Submit, CommandStop,
     DismissClarify, SendQueuedNow, Unqueue
<1>7. CASE AdapterTaskNext
  BY <1>7, LastWordGoes, SamePumpsGo DEF AdapterTaskNext, AdapterDisconnects, ClearScope,
     AnswerEnds
<1>8. CASE UNCHANGED vars
  BY <1>8, SamePumpsGo DEF vars
<1>9. QED
  BY <1>1, <1>3, <1>4, <1>5, <1>6, <1>7, <1>8, StreamsFillChannels, PumpsEmptyChannels
     DEF Next, TaskNext, Idle

-----------------------------------------------------------------------------
(* The screen. *)

(* An event at the head of the channel listened to. *)
Arrives(event) ==
  \E p \in pumps : /\ p.epoch = connection_epoch
                   /\ \E n \in DOMAIN p.events : p.events[n] = event

(* What is drawn was drawn before, or has just arrived. *)
ScreenGoes ==
  /\ \/ origins' \subseteq origins
     \/ \E event : /\ Arrives(event) /\ event.kind \in Replies
                   /\ origins' = origins \cup {event.session}
  /\ \/ clarify' \in {None, clarify}
     \/ \E event : Arrives(event) /\ event.kind = "Clarify" /\ clarify' = event.session

LEMMA ScreenStaysOurs ==
  ASSUME TypeOK, AdaptersGo, ChannelOurs, ScreenOurs, ScreenGoes
  PROVE  ScreenOurs'
<1>1. kind' = kind
  BY KindStays
<1>2. ASSUME NEW event, Arrives(event), event.kind \in Filtered
      PROVE  Owner[event.session] = kind
  BY <1>2 DEF Arrives, ChannelOurs
<1>3. \A s \in origins' : Owner[s] = kind'
  BY <1>1, <1>2 DEF ScreenGoes, ScreenOurs, Filtered
<1>4. FansOutQuestions \/ clarify' = None \/ Owner[clarify'] = kind'
  BY <1>1, <1>2 DEF ScreenGoes, ScreenOurs, Filtered
<1>5. QED
  BY <1>3, <1>4 DEF ScreenOurs

LEMMA PumpsDraw ==
  ASSUME TypeOK, PumpNext
  PROVE  ScreenGoes
<1>1. PICK p \in pumps :
        \/ DropsEvent(p) \/ HandleConnected(p) \/ HandleSessionInfo(p) \/ HandleClarify(p)
        \/ HandleLost(p) \/ HandleTurn(p)
        \/ PumpStreamLost(p) \/ PumpRetry(p) \/ PumpAfterTurn(p) \/ PumpSends(p)
  BY DEF PumpNext
<1>2. p.events \in Seq(Event)
  BY DEF TypeOK, TasksTypeOK, Pump
<1> DEFINE event == Head(p.events)
<1>3. ASSUME NEW kinds, Ready(p, kinds)
      PROVE  Arrives(event) /\ event.kind \in kinds
  <2>1. p.events # <<>> /\ p.epoch = connection_epoch /\ event.kind \in kinds
    BY <1>3 DEF Ready, Stale
  <2>2. 1 \in DOMAIN p.events /\ p.events[1] = event
    BY <1>2, <2>1
  <2>3. QED
    BY <2>1, <2>2 DEF Arrives
<1>4. CASE HandleTurn(p)
  <2>1. Arrives(event) /\ event.kind \in Replies
    BY <1>3, <1>4 DEF HandleTurn, Replies
  <2>2. clarify' = clarify /\ (origins' = origins \/ origins' = origins \cup {event.session})
    BY <1>4 DEF HandleTurn
  <2> HIDE DEF event
  <2>3. QED
    BY <2>1, <2>2 DEF ScreenGoes
<1>5. CASE HandleClarify(p)
  <2>1. Arrives(event) /\ event.kind = "Clarify"
    BY <1>3, <1>5 DEF HandleClarify
  <2>2. UNCHANGED origins /\ (clarify' = clarify \/ clarify' = event.session)
    BY <1>5 DEF HandleClarify
  <2> HIDE DEF event
  <2>3. QED
    BY <2>1, <2>2 DEF ScreenGoes
<1>6. CASE ~HandleTurn(p) /\ ~HandleClarify(p)
  BY <1>1, <1>6 DEF DropsEvent, HandleConnected, HandleSessionInfo, HandleLost, DropQuestion,
     PumpStreamLost, PumpRetry, PumpAfterTurn, AfterTurn, PumpSends, ScreenGoes
<1>7. QED
  BY <1>4, <1>5, <1>6

LEMMA StepDraws ==
  ASSUME TypeOK, [Next]_vars
  PROVE  ScreenGoes
<1>1. CASE ConnectTaskNext \/ EnsureStreamNext \/ RetryNext \/ RestartNext
  BY <1>1 DEF ConnectTaskNext, ConnectProbed, ConnectAttach, ConnectEnsured, ConnectRetry,
     ConnectReopen, ConnectOpen, Open, EnsureStreamNext, EnsureBegin, EnsureDial, EnsureSettle,
     RetryNext, RetryFires, RetryConnects, RestartNext, ServerRestarted, RestartConnects,
     ScreenGoes
<1>2. CASE OpenTaskNext \/ DeliverNext
  BY <1>2 DEF OpenTaskNext, OpenAttach, OpenEnsured, OpenHistory, OpenResume, OpenResumed,
     OpenStreamLost, OpenRetry, DeliverNext, DeliverChecks, DeliverConnects, DeliverWaits,
     DeliverReadsBackend, DeliverLocks, DeliverAims, DeliverResumes, DeliverCreates,
     DeliverAttaches, DeliverSubmits, DeliverTakesBack, ScreenGoes
<1>3. CASE StopTaskNext \/ WindowContinues
  BY <1>3 DEF StopTaskNext, StopInterrupts, StopGraceEnds, StopAfterTurn, StopSends, AfterTurn,
     WindowContinues, WindowConnects, WindowClearsScope, WindowSends, WindowAnswers,
     WindowStops, WindowAfterTurn, ScreenGoes
<1>4. CASE CommandNext \/ ListFails
  BY <1>4 DEF CommandNext, ListFails, CommandConnect, DisableBackend, ApplyWorkspace,
     SwitchBackend, OpenSession, Open, NewChat, Submit, CommandStop, DismissClarify,
     SendQueuedNow, Unqueue, ScreenGoes
<1>5. CASE AdapterTaskNext \/ StreamNext
  BY <1>5 DEF AdapterTaskNext, AdapterDisconnects, ClearScope, AnswerEnds, StreamNext,
     StreamConnects, StreamFails, StreamDrops, StreamFrame, StreamQuestion, StreamSessionInfo,
     Reports, ScreenGoes
<1>6. CASE UNCHANGED vars
  BY <1>6 DEF vars, ScreenGoes
<1>7. QED
  BY <1>1, <1>2, <1>3, <1>4, <1>5, <1>6, PumpsDraw DEF Next, TaskNext, Idle

-----------------------------------------------------------------------------
LEMMA StepKeepsOwn ==
  ASSUME ~AnnouncesSessions, TypeOK, LockInv, AimInv, OursInv, [Next]_vars
  PROVE  OursInv'
<1>1. CASE \E k \in Kind : SwitchBackend(k)
  BY <1>1, SwitchKeepsOwn
<1>2. CASE AdaptersGo
  <2>1. EpochStays /\ OpensGo /\ DeliversGo /\ PumpsGo /\ ScreenGoes
    BY EpochStep, StepMovesOpens, StepAimsDeliveries, StepMovesChannels, StepDraws DEF OursInv
  <2>2. OldOnesMuted' /\ EpochsLead'
    BY <1>2, <2>1, MutedStay, ChannelsStayOurs DEF OursInv, EpochsLead
  <2>3. ScopersOurs'
    BY <1>2, <2>1, ScopersStayOurs DEF OursInv
  <2>4. ChannelOurs'
    BY <1>2, <2>1, ChannelsStayOurs DEF OursInv
  <2>5. ScreenOurs'
    BY <1>2, <2>1, ScreenStaysOurs DEF OursInv
  <2>6. QED
    BY <2>2, <2>3, <2>4, <2>5 DEF OursInv
<1>3. QED
  BY <1>1, <1>2, StepMovesAdapters DEF OursInv

LEMMA InitOwn ==
  ASSUME Init
  PROVE  OursInv
<1>1. PICK k \in Kind : backends = <<NewAdapter(k)>>
  BY DEF Init
<1>2. EpochsLead /\ OldOnesMuted
  BY <1>1 DEF Init, EpochsLead, OldOnesMuted, Adapters, NewAdapter
<1>3. QED
  BY <1>2 DEF Init, OursInv, ScopersOurs, ChannelOurs, ScreenOurs

LEMMA AlwaysOwn ==
  ASSUME ~AnnouncesSessions
  PROVE  Spec => []OursInv
<1>1. Init => OursInv
  BY InitOwn
<1>2. RoutingInv => LockInv /\ AimInv
  BY DEF RoutingInv
<1>3. TypeOK /\ LockInv /\ AimInv /\ OursInv /\ [Next]_vars => OursInv'
  BY StepKeepsOwn
<1>4. QED
  BY <1>1, <1>2, <1>3, TypeCorrect, AlwaysRouted, PTL DEF Spec

(* With a gateway that sends no session.info and keeps its questions to the *)
(* session they were asked in, no reply and no question of another backend *)
(* is on screen after a switch, however late the streams it replaced, the  *)
(* opens and the deliveries they overlap with speak (state.rs:91-95,       *)
(* events.rs:17, send.rs:114).                                          *)
THEOREM RepliesCorrect ==
  ASSUME ~AnnouncesSessions, ~FansOutQuestions
  PROVE  Spec => []RepliesOfThisBackend
<1>1. OursInv => RepliesOfThisBackend
  BY DEF OursInv, ScreenOurs, RepliesOfThisBackend
<1>2. QED
  BY <1>1, AlwaysOwn, PTL

(* Where questions are fanned out, that still holds of every reply.        *)
THEOREM RepliesAreOurs ==
  ASSUME ~AnnouncesSessions
  PROVE  Spec => [](\A s \in origins : Owner[s] = kind)
<1>1. OursInv => \A s \in origins : Owner[s] = kind
  BY DEF OursInv, ScreenOurs
<1>2. QED
  BY <1>1, AlwaysOwn, PTL
=============================================================================
