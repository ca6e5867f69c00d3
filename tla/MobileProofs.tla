---------------------------- MODULE MobileProofs ----------------------------
(***************************************************************************)
(* Proofs about the phone's bridge, for any sessions, backends and number  *)
(* of parked conversations.  First its types.  Then where a prompt is: a   *)
(* step shows, parks and saves it under the keys it had, a blank chat's    *)
(* under the name the chat gets, as long as a conversation on screen keeps *)
(* its session (IdentityStays).  Then RouteInv follows a prompt from where *)
(* it is typed to the agent or back to the composer.  Then which steps can *)
(* take a conversation's session from it.  Last, AimInv: that a prompt is  *)
(* taken once, in the session it was aimed at when it was typed.           *)
(***************************************************************************)
EXTENDS MobileClient, SequenceTheorems, TLAPS

USE DEF atomics, screen, tasks, agents

-----------------------------------------------------------------------------
(* The operators that actions share.                                        *)

(* What a step leaves alone keeps its type.                                 *)
LEMMA SameTyped ==
  ASSUME TypeOK
  PROVE  /\ UNCHANGED <<settings, atomics, ui>> => BridgeTypeOK'
         /\ UNCHANGED <<adapters, slot, closes>> => AdaptersTypeOK'
         /\ UNCHANGED screen => ScreenTypeOK'
         /\ UNCHANGED <<pumps, opens, catchups, sends, scopes, prompt>> => TasksTypeOK'
         /\ UNCHANGED <<agents, restored, prompt, budget>> => HistoryTypeOK'
<1>1. UNCHANGED <<settings, atomics, ui>> => BridgeTypeOK'
  BY DEF TypeOK, BridgeTypeOK
<1>2. UNCHANGED <<adapters, slot, closes>> => AdaptersTypeOK'
  BY DEF TypeOK, AdaptersTypeOK
<1>3. UNCHANGED screen => ScreenTypeOK'
  BY DEF TypeOK, ScreenTypeOK
<1>4. UNCHANGED <<pumps, opens, catchups, sends, scopes, prompt>> => TasksTypeOK'
  BY DEF TypeOK, TasksTypeOK
<1>5. UNCHANGED <<agents, restored, prompt, budget>> => HistoryTypeOK'
  BY DEF TypeOK, HistoryTypeOK
<1>6. QED
  BY <1>1, <1>2, <1>3, <1>4, <1>5

LEMMA SpendTyped ==
  ASSUME TypeOK, NEW c \in Class, Spend(c)
  PROVE  budget' \in [Class -> Nat]
BY DEF TypeOK, HistoryTypeOK, Spend

(* Another budget, and nothing else of the history.                         *)
LEMMA BudgetTyped ==
  ASSUME TypeOK, UNCHANGED <<agents, restored, prompt>>, budget' \in [Class -> Nat]
  PROVE  HistoryTypeOK'
BY DEF TypeOK, HistoryTypeOK

LEMMA CallFailsTyped ==
  ASSUME TypeOK, NEW i, CallFails(i)
  PROVE  budget' \in [Class -> Nat]
BY SpendTyped DEF CallFails, Class, TypeOK, HistoryTypeOK

LEMMA AdapterIs ==
  ASSUME TypeOK, NEW i \in DOMAIN adapters
  PROVE  adapters[i] \in Adapter
BY DEF TypeOK, AdaptersTypeOK

(* The adapters after one of them has changed.                              *)
LEMMA AdapterTyped ==
  ASSUME TypeOK, NEW i, NEW a, i \in DOMAIN adapters => a \in Adapter,
         adapters' = [adapters EXCEPT ![i] = a]
  PROVE  adapters' \in Seq(Adapter) /\ Len(adapters') = Len(adapters)
<1>1. adapters \in Seq(Adapter) /\ DOMAIN adapters = 1 .. Len(adapters)
  BY DEF TypeOK, AdaptersTypeOK
<1>2. CASE i \in DOMAIN adapters
  BY <1>1, <1>2, ExceptSeq
<1>3. CASE i \notin DOMAIN adapters
  <2>1. adapters' = adapters
    BY <1>3 DEF TypeOK, AdaptersTypeOK
  <2>2. QED
    BY <1>1, <2>1
<1>4. QED
  BY <1>2, <1>3

LEMMA ScopeTyped ==
  ASSUME TypeOK, NEW i, NEW s \in Session \cup {None}, SetScope(i, s)
  PROVE  adapters' \in Seq(Adapter) /\ Len(adapters') = Len(adapters)
<1> DEFINE a == [adapters[i] EXCEPT !.scope = s]
<1>1. adapters' = [adapters EXCEPT ![i] = a]
  BY DEF SetScope
<1>2. i \in DOMAIN adapters => a \in Adapter
  BY AdapterIs DEF Adapter
<1> HIDE DEF a
<1>3. QED
  BY <1>1, <1>2, AdapterTyped

LEMMA DisconnectsTyped ==
  ASSUME TypeOK, NEW i, Disconnects(i)
  PROVE  adapters' \in Seq(Adapter) /\ Len(adapters') = Len(adapters)
<1> DEFINE a == [adapters[i] EXCEPT !.stream = 0, !.scope = None]
<1>1. adapters' = [adapters EXCEPT ![i] = a]
  BY DEF Disconnects, TypeOK, AdaptersTypeOK
<1>2. i \in DOMAIN adapters => a \in Adapter
  BY AdapterIs DEF Adapter
<1> HIDE DEF a
<1>3. QED
  BY <1>1, <1>2, AdapterTyped

LEMMA GuardTyped ==
  ASSUME TypeOK, NEW i, NEW g \in Nat, adapters' = Guarded(i, g)
  PROVE  adapters' \in Seq(Adapter) /\ Len(adapters') = Len(adapters)
<1> DEFINE a == [adapters[i] EXCEPT !.guard = g]
<1>1. adapters' = [adapters EXCEPT ![i] = a]
  BY DEF Guarded
<1>2. i \in DOMAIN adapters => a \in Adapter
  BY AdapterIs DEF Adapter
<1> HIDE DEF a
<1>3. QED
  BY <1>1, <1>2, AdapterTyped

(* A step that replaces an adapter's state and no adapter.                  *)
LEMMA SameAdaptersTyped ==
  ASSUME TypeOK, adapters' \in Seq(Adapter), Len(adapters') = Len(adapters), slot' = slot,
         closes' \subseteq closes
  PROVE  AdaptersTypeOK'
BY DEF TypeOK, AdaptersTypeOK

(* Client::backend.                                                         *)
LEMMA BackendTyped ==
  ASSUME TypeOK, NEW k \in Kind, TakesBackend(k)
  PROVE  /\ adapters' \in Seq(Adapter) /\ Len(adapters') >= Len(adapters)
         /\ slot' \in 1 .. Len(adapters') /\ slot' = BackendFor(k)
<1>1. adapters \in Seq(Adapter) /\ slot \in 0 .. Len(adapters)
  BY DEF TypeOK, AdaptersTypeOK
<1>2. CASE slot # 0 /\ adapters[slot].kind = k
  BY <1>1, <1>2 DEF TakesBackend, BackendFor
<1>3. CASE ~(slot # 0 /\ adapters[slot].kind = k)
  <2> DEFINE a == [kind |-> k, stream |-> 0, scope |-> None, guard |-> 0]
  <2>1. a \in Adapter
    BY DEF Adapter
  <2>2. Len(adapters) + 1 \notin DOMAIN adapters
    BY <1>1
  <2>3. /\ slot' = Len(adapters) + 1 /\ BackendFor(k) = Len(adapters) + 1
        /\ adapters' = Append(adapters, a)
    BY <1>3, <2>2 DEF TakesBackend, BackendFor
  <2> HIDE DEF a
  <2>4. QED
    BY <1>1, <2>1, <2>3
<1>4. QED
  BY <1>2, <1>3

LEMMA TakenBackendTyped ==
  ASSUME TypeOK, NEW k \in Kind, TakesBackend(k),
         closes' \subseteq closes \cup {BackendFor(k)}
  PROVE  AdaptersTypeOK'
BY BackendTyped DEF TypeOK, AdaptersTypeOK

(* The screen.                                                              *)
LEMMA KeyIs ==
  ASSUME NEW v \in View
  PROVE  Key(v) \in Session \cup {None}
BY DEF Key, View

LEMMA RecordedTyped ==
  ASSUME TypeOK, NEW v \in View, NEW kept,
         \A k \in DOMAIN kept : kept[k] \in Conversation
  PROVE  Recorded(v, kept) \in [Kind \X Session -> SUBSET Nat]
<1>1. archive \in [Kind \X Session -> SUBSET Nat]
  BY DEF TypeOK, ScreenTypeOK
<1>2. v.conv.shown \in SUBSET Nat
  BY DEF View, Conversation
<1>3. \A k \in DOMAIN kept : kept[k].shown \in SUBSET Nat
  BY DEF Conversation
<1>4. QED
  BY <1>1, <1>2, <1>3 DEF Recorded

LEMMA ShowsTyped ==
  ASSUME TypeOK, NEW v \in View, Shows(v)
  PROVE  ScreenTypeOK'
BY RecordedTyped DEF Shows, TypeOK, ScreenTypeOK

LEMMA FinishTyped ==
  ASSUME TypeOK
  PROVE  /\ FinishTurn \in View
         /\ FinishesTurn => ScreenTypeOK'
<1>1. FinishTurn \in View
  BY DEF TypeOK, ScreenTypeOK, View, Conversation, FinishTurn
<1>2. QED
  BY <1>1, ShowsTyped, SameTyped DEF FinishesTurn

LEMMA MergesTyped ==
  ASSUME TypeOK, NEW got \in SUBSET Nat, Merges(got)
  PROVE  ScreenTypeOK'
<1>1. [view EXCEPT !.conv.shown = got] \in View
  BY DEF TypeOK, ScreenTypeOK, View, Conversation
<1>2. QED
  BY <1>1, ShowsTyped DEF Merges

(* What is parked is what was, with what was on screen, less what was       *)
(* evicted.                                                                 *)
LEMMA ParkingIs ==
  ASSUME NEW kept \in Parkings
  PROVE  /\ DOMAIN kept \subseteq DOMAIN parked \cup DraftKey(view)
         /\ \A k \in DOMAIN kept :
              kept[k] = IF k \in DraftKey(view) THEN view.conv ELSE parked[k]
BY DEF Parkings, Without, Restrict

LEMMA DraftKeyIs ==
  ASSUME TypeOK
  PROVE  /\ DraftKey(view) \subseteq Session \cup Nat
         /\ \A k \in DraftKey(view) :
              k = IF Key(view) # None THEN Key(view) ELSE view.gen + 1
BY KeyIs DEF DraftKey, TypeOK, ScreenTypeOK, View

LEMMA SwitchTyped ==
  ASSUME TypeOK, NEW s \in Session \cup {None}, NEW k \in Kind, SwitchesTo(s, k)
  PROVE  ScreenTypeOK'
<1>1. PICK kept \in Parkings :
        /\ view' = [live |-> None, stored |-> s, gen |-> view.gen + 1,
                    conv |-> BroughtBack(kept, s), backend |-> k]
        /\ parked' = IF k = view.backend THEN Without(kept, {s}) ELSE <<>>
        /\ archive' = Recorded(view, parked)
  BY DEF SwitchesTo
<1>2. view \in View /\ \A j \in DOMAIN parked : parked[j] \in Conversation
  BY DEF TypeOK, ScreenTypeOK
<1>3. archive' \in [Kind \X Session -> SUBSET Nat]
  BY <1>1, <1>2, RecordedTyped
<1>4. /\ DOMAIN kept \subseteq Session \cup Nat
      /\ \A j \in DOMAIN kept : kept[j] \in Conversation
  BY <1>2, ParkingIs, DraftKeyIs DEF TypeOK, ScreenTypeOK, View
<1>5. BroughtBack(kept, s) \in Conversation
  <2>1. CASE s \in DOMAIN kept /\ kept[s].shown # {}
    BY <1>4, <2>1 DEF BroughtBack
  <2>2. CASE ~(s \in DOMAIN kept /\ kept[s].shown # {})
    <3>1. s # None => Recorded(view, parked)[<<view.backend, s>>] \in SUBSET Nat
      BY <1>1, <1>2, <1>3 DEF View
    <3>2. QED
      BY <2>2, <3>1, <1>4 DEF BroughtBack, Conversation
  <2>3. QED
    BY <2>1, <2>2
<1>6. view' \in View
  BY <1>1, <1>2, <1>5 DEF View
<1>7. /\ DOMAIN parked' \subseteq Session \cup Nat
      /\ \A j \in DOMAIN parked' : parked'[j] \in Conversation
  <2>1. CASE k = view.backend
    BY <1>1, <1>4, <2>1 DEF Without, Restrict
  <2>2. CASE k # view.backend
    BY <1>1, <2>2
  <2>3. QED
    BY <2>1, <2>2
<1>8. QED
  BY <1>3, <1>6, <1>7 DEF ScreenTypeOK

-----------------------------------------------------------------------------
(* The pumps.                                                               *)

LEMMA PumpsTyped ==
  ASSUME TypeOK, NEW p \in pumps, NEW q \in Pump,
         q.pc \in {"resume", "resumed"} => q.session \in Session,
         PumpBecomes(p, q) \/ PumpEnds(p),
         UNCHANGED <<sends, scopes, prompt>>, opens' \subseteq OpenTask,
         catchups' \subseteq Catchup
  PROVE  TasksTypeOK'
BY DEF TypeOK, TasksTypeOK, PumpBecomes, PumpEnds

LEMMA PumpIsTyped ==
  ASSUME TypeOK, NEW p \in pumps
  PROVE  /\ p \in Pump
         /\ p.pc \in {"resume", "resumed"} => p.session \in Session
         /\ opens \subseteq OpenTask /\ catchups \subseteq Catchup
BY DEF TypeOK, TasksTypeOK

LEMMA PumpAttemptsTyped ==
  ASSUME TypeOK, NEW p \in pumps, PumpAttempts(p)
  PROVE  TypeOK'
<1> DEFINE q == [p EXCEPT !.pc = "close", !.inbox = <<>>]
<1>1. /\ BridgeTypeOK' /\ AdaptersTypeOK' /\ ScreenTypeOK' /\ HistoryTypeOK'
  BY SameTyped DEF PumpAttempts, pumpOnly
<1>2. q \in Pump /\ q.pc = "close"
  <2>1. p \in Pump /\ <<>> \in Seq(Event)
    BY PumpIsTyped
  <2>2. QED
    BY <2>1 DEF Pump
<1>3. PumpBecomes(p, q) \/ PumpEnds(p)
  BY DEF PumpAttempts
<1> HIDE DEF q
<1>4. TasksTypeOK'
  BY <1>2, <1>3, PumpsTyped, PumpIsTyped DEF PumpAttempts, pumpOnly
<1>5. QED
  BY <1>1, <1>4 DEF TypeOK

(* A pump that only changes what it does next.                              *)
LEMMA PumpGoesTyped ==
  ASSUME TypeOK, NEW p \in pumps, NEW pc \in {"probe", "connect", "failed", "wait", "attempt",
                                              "catchup", "drain"},
         PumpGoes(p, pc) \/ PumpEnds(p), UNCHANGED <<sends, scopes, prompt>>,
         opens' \subseteq OpenTask, catchups' \subseteq Catchup
  PROVE  TasksTypeOK'
<1> DEFINE q == [p EXCEPT !.pc = pc]
<1>1. q \in Pump /\ q.pc = pc
  BY PumpIsTyped DEF Pump
<1>2. PumpBecomes(p, q) \/ PumpEnds(p)
  BY DEF PumpGoes
<1> HIDE DEF q
<1>3. QED
  BY <1>1, <1>2, PumpsTyped, PumpIsTyped

LEMMA PumpClosesTyped ==
  ASSUME TypeOK, NEW p \in pumps, PumpCloses(p)
  PROVE  TypeOK'
<1>1. BridgeTypeOK' /\ ScreenTypeOK' /\ HistoryTypeOK'
  BY SameTyped DEF PumpCloses
<1>2. AdaptersTypeOK'
  BY DisconnectsTyped, SameAdaptersTyped DEF PumpCloses
<1>3. TasksTypeOK'
  BY PumpGoesTyped, PumpIsTyped DEF PumpCloses
<1>4. QED
  BY <1>1, <1>2, <1>3 DEF TypeOK

(* The steps of a pump that touch nothing but the pump.                     *)
LEMMA PumpOnlyTyped ==
  ASSUME TypeOK, NEW p \in pumps,
         \/ PumpProbes(p) \/ PumpGivesUp(p) \/ PumpReportsFailure(p) \/ PumpSleeps(p)
         \/ PumpReady(p)
  PROVE  TypeOK'
<1>1. BridgeTypeOK' /\ AdaptersTypeOK' /\ ScreenTypeOK' /\ HistoryTypeOK'
  BY SameTyped
     DEF PumpProbes, PumpGivesUp, PumpReportsFailure, PumpSleeps, PumpReady, pumpOnly
<1>2. /\ UNCHANGED <<opens, catchups, sends, scopes, prompt>>
      /\ \/ PumpGoes(p, "connect") \/ PumpGoes(p, "wait") \/ PumpGoes(p, "attempt")
         \/ PumpGoes(p, "drain") \/ PumpEnds(p)
  BY DEF PumpProbes, PumpGivesUp, PumpReportsFailure, PumpSleeps, PumpReady, pumpOnly
<1>3. TasksTypeOK'
  BY <1>2, PumpGoesTyped, PumpIsTyped
<1>4. QED
  BY <1>1, <1>3 DEF TypeOK

LEMMA PumpConnectsTyped ==
  ASSUME TypeOK, NEW p \in pumps, PumpConnects(p)
  PROVE  TypeOK'
<1> DEFINE i == p.inst
           a == [adapters[i] EXCEPT !.stream = p.gen, !.scope = None]
           q == [p EXCEPT !.pc = "up", !.inbox = <<"connected">>]
<1>1. BridgeTypeOK' /\ ScreenTypeOK' /\ HistoryTypeOK'
  BY SameTyped DEF PumpConnects
<1>2. AdaptersTypeOK'
  <2>1. adapters' = [adapters EXCEPT ![i] = a]
    BY DEF PumpConnects, TypeOK, AdaptersTypeOK
  <2>2. i \in DOMAIN adapters => a \in Adapter
    BY AdapterIs, PumpIsTyped DEF Adapter, Pump
  <2> HIDE DEF a, i
  <2>3. QED
    BY <2>1, <2>2, AdapterTyped, SameAdaptersTyped DEF PumpConnects
<1>3. q \in Pump /\ q.pc = "up"
  <2>1. <<"connected">> \in Seq(Event)
    BY DEF Event
  <2>2. QED
    BY <2>1, PumpIsTyped DEF Pump
<1>4. PumpBecomes(p, q) /\ UNCHANGED <<opens, catchups, sends, scopes, prompt>>
  BY DEF PumpConnects
<1> HIDE DEF q
<1>5. TasksTypeOK'
  BY <1>3, <1>4, PumpsTyped, PumpIsTyped
<1>6. QED
  BY <1>1, <1>2, <1>5 DEF TypeOK

LEMMA PumpFailsTyped ==
  ASSUME TypeOK, NEW p \in pumps, PumpFails(p)
  PROVE  TypeOK'
<1> DEFINE i == p.inst
           a == [adapters[i] EXCEPT !.stream = p.gen]
<1>1. BridgeTypeOK' /\ ScreenTypeOK'
  BY SameTyped DEF PumpFails
<1>2. HistoryTypeOK'
  BY SpendTyped, BudgetTyped DEF PumpFails, Class
<1>3. AdaptersTypeOK'
  <2>1. CASE UNCHANGED adapters
    BY <2>1, SameTyped DEF PumpFails
  <2>2. CASE adapters' = [adapters EXCEPT ![i].stream = p.gen]
    <3>1. adapters' = [adapters EXCEPT ![i] = a]
      BY <2>2
    <3>2. i \in DOMAIN adapters => a \in Adapter
      BY AdapterIs, PumpIsTyped DEF Adapter, Pump
    <3> HIDE DEF a, i
    <3>3. QED
      BY <3>1, <3>2, AdapterTyped, SameAdaptersTyped DEF PumpFails
  <2>3. QED
    BY <2>1, <2>2 DEF PumpFails
<1>4. TasksTypeOK'
  BY PumpGoesTyped, PumpIsTyped DEF PumpFails
<1>5. QED
  BY <1>1, <1>2, <1>3, <1>4 DEF TypeOK

LEMMA PumpUpTyped ==
  ASSUME TypeOK, NEW p \in pumps, PumpUp(p)
  PROVE  TypeOK'
<1> DEFINE q == Reopened(p)
<1>1. AdaptersTypeOK' /\ ScreenTypeOK' /\ HistoryTypeOK'
  BY SameTyped DEF PumpUp
<1>2. BridgeTypeOK'
  BY DEF PumpUp, TypeOK, BridgeTypeOK
<1>3. /\ q \in Pump
      /\ q.pc \in {"resume", "resumed"} => q.session \in Session
      /\ q.pc = "open" => p.saved \in Session
  BY PumpIsTyped DEF Reopened, Pump, TypeOK, ScreenTypeOK, View
<1>4. opens' \subseteq OpenTask
  <2>1. q.pc = "open" => OpenBy(p) \in OpenTask
    BY <1>3, PumpIsTyped DEF OpenBy, OpenTask, Pump
  <2>2. QED
    BY <2>1, PumpIsTyped DEF PumpUp
<1>5. PumpBecomes(p, q) /\ UNCHANGED <<catchups, sends, scopes, prompt>>
  BY DEF PumpUp
<1> HIDE DEF q
<1>6. TasksTypeOK'
  BY <1>3, <1>4, <1>5, PumpsTyped, PumpIsTyped
<1>7. QED
  BY <1>1, <1>2, <1>6 DEF TypeOK

LEMMA CatchupOfTyped ==
  ASSUME NEW s \in Session, NEW i \in Nat, NEW gen \in Nat
  PROVE  CatchupOf(s, i, gen) \in Catchup
BY DEF CatchupOf, Catchup

LEMMA PumpResumesTyped ==
  ASSUME TypeOK, NEW p \in pumps, PumpResumes(p)
  PROVE  TypeOK'
<1>1. p \in Pump /\ p.session \in Session
  BY PumpIsTyped DEF PumpResumes, PumpIs
<1>2. BridgeTypeOK' /\ ScreenTypeOK'
  BY SameTyped DEF PumpResumes
<1>3. CASE SetScope(p.inst, p.session) /\ PumpGoes(p, "resumed") /\ UNCHANGED <<catchups, budget>>
  <2> DEFINE q == [p EXCEPT !.pc = "resumed"]
  <2>1. AdaptersTypeOK'
    BY <1>1, <1>3, ScopeTyped, SameAdaptersTyped DEF PumpResumes
  <2>2. HistoryTypeOK'
    BY <1>3, SameTyped DEF PumpResumes
  <2>3. q \in Pump /\ q.session \in Session /\ PumpBecomes(p, q)
    BY <1>1, <1>3 DEF Pump, PumpGoes
  <2> HIDE DEF q
  <2>4. TasksTypeOK'
    BY <1>3, <2>3, PumpsTyped, PumpIsTyped DEF PumpResumes
  <2>5. QED
    BY <1>2, <2>1, <2>2, <2>4 DEF TypeOK
<1>4. CASE /\ CallFails(p.inst) /\ PumpGoes(p, "catchup")
           /\ catchups' = catchups \cup {CatchupOf(p.session, p.inst, p.gen)}
           /\ UNCHANGED adapters
  <2>1. AdaptersTypeOK'
    BY <1>4, SameTyped DEF PumpResumes
  <2>2. HistoryTypeOK'
    BY <1>4, CallFailsTyped, BudgetTyped DEF PumpResumes
  <2>3. catchups' \subseteq Catchup
    BY <1>1, <1>4, CatchupOfTyped, PumpIsTyped DEF Pump
  <2>4. TasksTypeOK'
    BY <1>4, <2>3, PumpGoesTyped, PumpIsTyped DEF PumpResumes
  <2>5. QED
    BY <1>2, <2>1, <2>2, <2>4 DEF TypeOK
<1>5. QED
  BY <1>3, <1>4 DEF PumpResumes

LEMMA PumpResumedTyped ==
  ASSUME TypeOK, NEW p \in pumps, PumpResumed(p)
  PROVE  TypeOK'
<1>1. p \in Pump /\ p.session \in Session
  BY PumpIsTyped DEF PumpResumed, PumpIs
<1>2. BridgeTypeOK' /\ AdaptersTypeOK' /\ HistoryTypeOK'
  BY SameTyped DEF PumpResumed
<1>3. ScreenTypeOK'
  <2>1. view \in View
    BY DEF TypeOK, ScreenTypeOK
  <2>2. view' \in View
    BY <1>1, <2>1 DEF PumpResumed, View
  <2>3. QED
    BY <2>2 DEF PumpResumed, TypeOK, ScreenTypeOK
<1>4. catchups' \subseteq Catchup
  BY <1>1, CatchupOfTyped, PumpIsTyped DEF Pump, PumpResumed
<1>5. TasksTypeOK'
  BY <1>4, PumpGoesTyped, PumpIsTyped DEF PumpResumed
<1>6. QED
  BY <1>2, <1>3, <1>5 DEF TypeOK

LEMMA AppliesTyped ==
  ASSUME TypeOK, NEW e, Applies(e)
  PROVE  ScreenTypeOK'
<1>1. CASE UNCHANGED screen
  BY <1>1, SameTyped
<1>2. CASE Shows(FinishTurn)
  BY <1>2, FinishTyped, ShowsTyped
<1>3. CASE FinishesTurn
  BY <1>3, FinishTyped
<1>4. CASE e \in Session /\ view' = [view EXCEPT !.live = e] /\ UNCHANGED <<parked, archive>>
  <2>1. view \in View
    BY DEF TypeOK, ScreenTypeOK
  <2>2. view' \in View
    BY <1>4, <2>1 DEF View
  <2>3. QED
    BY <1>4, <2>2 DEF TypeOK, ScreenTypeOK
<1>5. QED
  BY <1>1, <1>2, <1>3, <1>4 DEF Applies

LEMMA PumpDrainsTyped ==
  ASSUME TypeOK, NEW p \in pumps, PumpDrains(p)
  PROVE  TypeOK'
<1> DEFINE q == [p EXCEPT !.inbox = Tail(@)]
<1>1. BridgeTypeOK' /\ AdaptersTypeOK' /\ HistoryTypeOK'
  BY SameTyped DEF PumpDrains
<1>2. ScreenTypeOK'
  BY SameTyped, AppliesTyped DEF PumpDrains
<1>3. q \in Pump /\ q.pc = "drain"
  <2>1. p \in Pump /\ p.pc = "drain" /\ p.inbox # <<>>
    BY PumpIsTyped DEF PumpDrains, PumpIs
  <2>2. p.inbox \in Seq(Event)
    BY <2>1 DEF Pump
  <2>3. Tail(p.inbox) \in Seq(Event)
    BY <2>1, <2>2
  <2>4. QED
    BY <2>1, <2>3 DEF Pump
<1>4. PumpBecomes(p, q) \/ PumpEnds(p)
  BY DEF PumpDrains
<1> HIDE DEF q
<1>5. TasksTypeOK'
  BY <1>3, <1>4, PumpsTyped, PumpIsTyped DEF PumpDrains
<1>6. QED
  BY <1>1, <1>2, <1>5 DEF TypeOK

LEMMA PumpLosesStreamTyped ==
  ASSUME TypeOK, NEW p \in pumps, PumpLosesStream(p)
  PROVE  TypeOK'
<1>1. AdaptersTypeOK' /\ HistoryTypeOK'
  BY SameTyped DEF PumpLosesStream
<1>2. BridgeTypeOK'
  BY DEF PumpLosesStream, TypeOK, BridgeTypeOK
<1>3. ScreenTypeOK'
  BY SameTyped, FinishTyped DEF PumpLosesStream, EndsTurn
<1>4. TasksTypeOK'
  BY PumpGoesTyped, PumpIsTyped DEF PumpLosesStream
<1>5. QED
  BY <1>1, <1>2, <1>3, <1>4 DEF TypeOK

LEMMA PumpNextTyped ==
  ASSUME TypeOK, PumpNext
  PROVE  TypeOK'
BY PumpAttemptsTyped, PumpClosesTyped, PumpOnlyTyped, PumpConnectsTyped, PumpUpTyped,
   PumpResumesTyped, PumpResumedTyped, PumpDrainsTyped, PumpLosesStreamTyped
   DEF PumpNext

-----------------------------------------------------------------------------
(* Opening, catching up and sending.                                        *)

LEMMA HistoriesTyped ==
  ASSUME TypeOK, NEW s, NEW got \in Histories(s)
  PROVE  got \subseteq DOMAIN taken /\ got \in SUBSET Nat
BY DEF Histories, TypeOK, HistoryTypeOK

LEMMA OpenIsTyped ==
  ASSUME TypeOK, NEW o \in opens
  PROVE  o \in OpenTask
BY DEF TypeOK, TasksTypeOK

LEMMA OpensTyped ==
  ASSUME TypeOK, NEW o \in opens, NEW q \in OpenTask, OpenBecomes(o, q) \/ OpenEnds(o),
         UNCHANGED <<pumps, catchups, sends, scopes, prompt>>
  PROVE  TasksTypeOK'
BY DEF TypeOK, TasksTypeOK, OpenBecomes, OpenEnds

(* An opening that only changes what it does next, or ends.                 *)
LEMMA OpenGoesTyped ==
  ASSUME TypeOK, NEW o \in opens, NEW pc \in {"resume", "resumed", "unscope"},
         OpenGoes(o, pc) \/ OpenEnds(o),
         UNCHANGED <<pumps, catchups, sends, scopes, prompt>>
  PROVE  TasksTypeOK'
<1> DEFINE q == [o EXCEPT !.pc = pc]
<1>1. q \in OpenTask
  BY OpenIsTyped DEF OpenTask
<1>2. OpenBecomes(o, q) \/ OpenEnds(o)
  BY DEF OpenGoes
<1> HIDE DEF q
<1>3. QED
  BY <1>1, <1>2, OpensTyped

LEMMA OpenSwitchesTyped ==
  ASSUME TypeOK, NEW o \in opens, OpenSwitches(o)
  PROVE  TypeOK'
<1> DEFINE q == [o EXCEPT !.pc = "history", !.view = view.gen + 1]
<1>1. BridgeTypeOK' /\ AdaptersTypeOK' /\ HistoryTypeOK'
  BY SameTyped DEF OpenSwitches
<1>2. o \in OpenTask /\ view \in View
  BY OpenIsTyped DEF TypeOK, ScreenTypeOK
<1>3. ScreenTypeOK'
  BY <1>2, SwitchTyped DEF OpenSwitches, OpenTask, View
<1>4. q \in OpenTask
  <2>1. view.gen + 1 \in Nat
    BY <1>2 DEF View
  <2>2. QED
    BY <1>2, <2>1 DEF OpenTask
<1>5. OpenBecomes(o, q) /\ UNCHANGED <<pumps, catchups, sends, scopes, prompt>>
  BY DEF OpenSwitches
<1> HIDE DEF q
<1>6. TasksTypeOK'
  BY <1>4, <1>5, OpensTyped
<1>7. QED
  BY <1>1, <1>3, <1>6 DEF TypeOK

LEMMA OpenFetchesTyped ==
  ASSUME TypeOK, NEW o \in opens, OpenFetches(o)
  PROVE  TypeOK'
<1>1. BridgeTypeOK' /\ AdaptersTypeOK' /\ ScreenTypeOK'
  BY SameTyped DEF OpenFetches
<1>2. HistoryTypeOK'
  BY SameTyped, BudgetTyped, CallFailsTyped DEF OpenFetches
<1>3. TasksTypeOK'
  <2>1. CASE CallFails(o.inst) /\ OpenGoes(o, "resume")
    BY <2>1, OpenGoesTyped DEF OpenFetches
  <2>2. CASE \E got \in Histories(o.session) :
               OpenBecomes(o, [o EXCEPT !.pc = "merge", !.got = got])
    <3>1. PICK got \in Histories(o.session) :
                 OpenBecomes(o, [o EXCEPT !.pc = "merge", !.got = got])
      BY <2>2
    <3> DEFINE q == [o EXCEPT !.pc = "merge", !.got = got]
    <3>2. q \in OpenTask
      BY OpenIsTyped, HistoriesTyped DEF OpenTask
    <3> HIDE DEF q
    <3>3. OpenBecomes(o, q)
      BY <3>1 DEF q
    <3>4. QED
      BY <3>2, <3>3, OpensTyped DEF OpenFetches
  <2>3. QED
    BY <2>1, <2>2 DEF OpenFetches
<1>4. QED
  BY <1>1, <1>2, <1>3 DEF TypeOK

LEMMA OpenMergesTyped ==
  ASSUME TypeOK, NEW o \in opens, OpenMerges(o)
  PROVE  TypeOK'
<1> DEFINE q == [o EXCEPT !.pc = "resume", !.got = {}]
<1>1. BridgeTypeOK' /\ AdaptersTypeOK' /\ HistoryTypeOK'
  BY SameTyped DEF OpenMerges
<1>2. o.got \in SUBSET Nat /\ q \in OpenTask
  BY OpenIsTyped DEF OpenTask
<1>3. ScreenTypeOK'
  BY <1>2, SameTyped, MergesTyped DEF OpenMerges
<1>4. OpenBecomes(o, q) \/ OpenEnds(o)
  BY DEF OpenMerges
<1> HIDE DEF q
<1>5. TasksTypeOK'
  BY <1>2, <1>4, OpensTyped DEF OpenMerges
<1>6. QED
  BY <1>1, <1>3, <1>5 DEF TypeOK

LEMMA OpenResumesTyped ==
  ASSUME TypeOK, NEW o \in opens, OpenResumes(o)
  PROVE  TypeOK'
<1>1. BridgeTypeOK' /\ ScreenTypeOK'
  BY SameTyped DEF OpenResumes
<1>2. HistoryTypeOK'
  BY SameTyped, BudgetTyped, CallFailsTyped DEF OpenResumes
<1>3. AdaptersTypeOK'
  BY SameTyped, OpenIsTyped, ScopeTyped, SameAdaptersTyped DEF OpenResumes, OpenTask
<1>4. TasksTypeOK'
  BY OpenGoesTyped DEF OpenResumes
<1>5. QED
  BY <1>1, <1>2, <1>3, <1>4 DEF TypeOK

LEMMA OpenResumedTyped ==
  ASSUME TypeOK, NEW o \in opens, OpenResumed(o)
  PROVE  TypeOK'
<1>1. BridgeTypeOK' /\ AdaptersTypeOK' /\ HistoryTypeOK'
  BY SameTyped DEF OpenResumed
<1>2. ScreenTypeOK'
  <2>1. view \in View /\ o.session \in Session
    BY OpenIsTyped DEF TypeOK, ScreenTypeOK, OpenTask
  <2>2. view' \in View
    BY <2>1 DEF OpenResumed, View
  <2>3. QED
    BY <2>2 DEF OpenResumed, TypeOK, ScreenTypeOK
<1>3. TasksTypeOK'
  BY OpenGoesTyped DEF OpenResumed
<1>4. QED
  BY <1>1, <1>2, <1>3 DEF TypeOK

LEMMA OpenUnscopesTyped ==
  ASSUME TypeOK, NEW o \in opens, OpenUnscopes(o)
  PROVE  TypeOK'
<1>1. BridgeTypeOK' /\ ScreenTypeOK' /\ HistoryTypeOK'
  BY SameTyped DEF OpenUnscopes
<1>2. AdaptersTypeOK'
  BY SameTyped, ScopeTyped, SameAdaptersTyped DEF OpenUnscopes
<1>3. TasksTypeOK'
  BY OpenGoesTyped DEF OpenUnscopes
<1>4. QED
  BY <1>1, <1>2, <1>3 DEF TypeOK

LEMMA OpenNextTyped ==
  ASSUME TypeOK, OpenNext
  PROVE  TypeOK'
BY OpenSwitchesTyped, OpenFetchesTyped, OpenMergesTyped, OpenResumesTyped, OpenResumedTyped,
   OpenUnscopesTyped
   DEF OpenNext

LEMMA CatchupIsTyped ==
  ASSUME TypeOK, NEW c \in catchups
  PROVE  c \in Catchup
BY DEF TypeOK, TasksTypeOK

LEMMA CatchupsTyped ==
  ASSUME TypeOK, NEW c \in catchups, NEW q \in Catchup, CatchupBecomes(c, q) \/ CatchupEnds(c),
         UNCHANGED <<pumps, opens, sends, scopes, prompt>>
  PROVE  TasksTypeOK'
BY DEF TypeOK, TasksTypeOK, CatchupBecomes, CatchupEnds

LEMMA CatchupNextTyped ==
  ASSUME TypeOK, CatchupNext
  PROVE  TypeOK'
<1>1. BridgeTypeOK' /\ AdaptersTypeOK'
  BY SameTyped DEF CatchupNext
<1>2. UNCHANGED <<agents, restored, prompt>> /\ UNCHANGED <<pumps, opens, sends, scopes, prompt>>
  BY DEF CatchupNext
<1>3. PICK c \in catchups : CatchupStarts(c) \/ CatchupFetches(c) \/ CatchupMerges(c)
  BY DEF CatchupNext
<1>4. c \in Catchup
  BY CatchupIsTyped
<1>5. HistoryTypeOK'
  BY <1>2, <1>3, SameTyped, BudgetTyped, CallFailsTyped
     DEF CatchupStarts, CatchupFetches, CatchupMerges
<1>6. ScreenTypeOK'
  BY <1>3, <1>4, SameTyped, MergesTyped
     DEF CatchupStarts, CatchupFetches, CatchupMerges, Catchup
<1>7. TasksTypeOK'
  <2>1. \E q \in Catchup : CatchupBecomes(c, q) \/ CatchupEnds(c)
    <3>1. CASE CatchupEnds(c)
      BY <1>4, <3>1
    <3>2. CASE CatchupBecomes(c, [c EXCEPT !.pc = "fetch"])
      BY <1>4, <3>2 DEF Catchup
    <3>3. CASE \E got \in Histories(c.session) :
                 CatchupBecomes(c, [c EXCEPT !.pc = "merge", !.got = got])
      BY <1>4, <3>3, HistoriesTyped DEF Catchup
    <3>4. QED
      BY <1>3, <3>1, <3>2, <3>3 DEF CatchupStarts, CatchupFetches, CatchupMerges
  <2>2. QED
    BY <1>2, <2>1, CatchupsTyped
<1>8. QED
  BY <1>1, <1>5, <1>6, <1>7 DEF TypeOK

LEMMA SendIsTyped ==
  ASSUME TypeOK, NEW d \in sends
  PROVE  /\ d \in SendTask /\ d.prompt \in 1 .. prompt
         /\ d.pc \in {"attach", "submit"} => d.session \in Session
BY DEF TypeOK, TasksTypeOK

LEMMA SendsTyped ==
  ASSUME TypeOK, NEW d \in sends, NEW q \in SendTask, q.prompt = d.prompt,
         q.pc \in {"attach", "submit"} => q.session \in Session,
         SendBecomes(d, q) \/ sends' = sends \ {d},
         UNCHANGED <<pumps, opens, catchups, scopes, prompt>>
  PROVE  TasksTypeOK'
BY SendIsTyped DEF TypeOK, TasksTypeOK, SendBecomes

LEMMA SendGoesTyped ==
  ASSUME TypeOK, NEW d \in sends, NEW pc \in {"aim", "submit", "restore"},
         pc = "submit" => d.session \in Session,
         SendBecomes(d, [d EXCEPT !.pc = pc]),
         UNCHANGED <<pumps, opens, catchups, scopes, prompt>>
  PROVE  TasksTypeOK'
<1> DEFINE q == [d EXCEPT !.pc = pc]
<1>1. q \in SendTask /\ q.prompt = d.prompt /\ q.pc = pc /\ q.session = d.session
  BY SendIsTyped DEF SendTask
<1>2. SendBecomes(d, q)
  OBVIOUS
<1> HIDE DEF q
<1>3. QED
  BY <1>1, <1>2, SendsTyped

(* What every step of sending leaves alone.                                 *)
LEMMA SendKeepsTyped ==
  ASSUME TypeOK, UNCHANGED <<slot, atomics, pumps, opens, catchups, closes, scopes, ui, prompt>>
  PROVE  /\ UNCHANGED settings => BridgeTypeOK'
         /\ UNCHANGED adapters => AdaptersTypeOK'
         /\ \A i : \A g \in Nat : adapters' = Guarded(i, g) => AdaptersTypeOK'
         /\ \A i : \A s \in Session \cup {None} : SetScope(i, s) => AdaptersTypeOK'
         /\ UNCHANGED <<taken, running, restored>> /\ budget' \in [Class -> Nat] => HistoryTypeOK'
<1>1. UNCHANGED settings => BridgeTypeOK'
  BY SameTyped
<1>2. UNCHANGED adapters => AdaptersTypeOK'
  BY SameTyped
<1>3. \A i : \A g \in Nat : adapters' = Guarded(i, g) => AdaptersTypeOK'
  BY GuardTyped, SameAdaptersTyped
<1>4. \A i : \A s \in Session \cup {None} : SetScope(i, s) => AdaptersTypeOK'
  BY ScopeTyped, SameAdaptersTyped
<1>5. UNCHANGED <<taken, running, restored>> /\ budget' \in [Class -> Nat] => HistoryTypeOK'
  BY BudgetTyped
<1>6. QED
  BY <1>1, <1>2, <1>3, <1>4, <1>5

LEMMA SendLocksTyped ==
  ASSUME TypeOK, NEW d \in sends, SendLocks(d),
         UNCHANGED <<slot, atomics, pumps, opens, catchups, closes, scopes, ui, prompt>>
  PROVE  TypeOK'
<1>1. d.prompt \in Nat /\ budget \in [Class -> Nat]
  BY SendIsTyped DEF SendTask, TypeOK, HistoryTypeOK
<1>2. BridgeTypeOK' /\ HistoryTypeOK'
  BY <1>1, SendKeepsTyped DEF SendLocks
<1>3. ScreenTypeOK'
  BY SameTyped DEF SendLocks
<1>4. AdaptersTypeOK'
  BY <1>1, SendKeepsTyped DEF SendLocks, SendFails
<1>5. TasksTypeOK'
  BY SendGoesTyped DEF SendLocks, SendFails
<1>6. QED
  BY <1>2, <1>3, <1>4, <1>5 DEF TypeOK

LEMMA SendAimsTyped ==
  ASSUME TypeOK, NEW d \in sends, SendAims(d),
         UNCHANGED <<slot, atomics, pumps, opens, catchups, closes, scopes, ui, prompt>>
  PROVE  TypeOK'
<1>1. d \in SendTask /\ budget \in [Class -> Nat]
  BY SendIsTyped DEF TypeOK, HistoryTypeOK
<1>2. BridgeTypeOK'
  BY SendKeepsTyped DEF SendAims
<1>3. ScreenTypeOK'
  BY SameTyped DEF SendAims
<1>4. HistoryTypeOK'
  <2>1. budget' \in [Class -> Nat]
    BY <1>1, CallFailsTyped DEF SendAims
  <2>2. QED
    BY <2>1, SendKeepsTyped DEF SendAims
<1>5. \A s \in Session : SendBecomes(d, [d EXCEPT !.pc = "attach", !.session = s]) => TasksTypeOK'
  <2>1. SUFFICES ASSUME NEW s \in Session,
                        SendBecomes(d, [d EXCEPT !.pc = "attach", !.session = s])
                 PROVE  TasksTypeOK'
    OBVIOUS
  <2> DEFINE q == [d EXCEPT !.pc = "attach", !.session = s]
  <2>2. q \in SendTask /\ q.prompt = d.prompt /\ q.session \in Session
    BY <1>1 DEF SendTask
  <2>3. SendBecomes(d, q)
    BY <2>1
  <2> HIDE DEF q
  <2>4. QED
    BY <2>2, <2>3, SendsTyped
<1>6. CASE /\ Target(d) = "live"
           /\ SendBecomes(d, [d EXCEPT !.pc = "attach", !.session = d.live])
           /\ UNCHANGED <<adapters, budget>>
  <2>1. d.live \in Session
    BY <1>1, <1>6 DEF Target, SendTask
  <2>2. QED
    BY <1>2, <1>3, <1>4, <1>5, <1>6, <2>1, SendKeepsTyped DEF TypeOK
<1>7. CASE /\ Target(d) = "resume"
           /\ SendBecomes(d, [d EXCEPT !.pc = "attach", !.session = d.stored])
           /\ SetScope(d.inst, d.stored)
  <2>1. d.stored \in Session
    BY <1>1, <1>7 DEF Target, SendTask
  <2>2. QED
    BY <1>2, <1>3, <1>4, <1>5, <1>7, <2>1, SendKeepsTyped DEF TypeOK
<1>8. CASE \E s \in Session :
             /\ SendBecomes(d, [d EXCEPT !.pc = "attach", !.session = s])
             /\ SetScope(d.inst, s)
  BY <1>2, <1>3, <1>4, <1>5, <1>8, SendKeepsTyped DEF TypeOK
<1>9. CASE SendFails(d)
  <2>1. TasksTypeOK' /\ AdaptersTypeOK'
    BY <1>9, SendKeepsTyped, SendGoesTyped DEF SendFails
  <2>2. QED
    BY <1>2, <1>3, <1>4, <2>1 DEF TypeOK
<1>10. CASE /\ SendBecomes(d, [d EXCEPT !.pc = "restore"])
            /\ adapters' = [adapters EXCEPT ![d.inst].guard = 0, ![d.inst].scope = None]
  <2> DEFINE i == d.inst
             a == [adapters[i] EXCEPT !.guard = 0, !.scope = None]
  <2>1. adapters' = [adapters EXCEPT ![i] = a]
    BY <1>10 DEF TypeOK, AdaptersTypeOK
  <2>2. i \in DOMAIN adapters => a \in Adapter
    BY AdapterIs DEF Adapter
  <2> HIDE DEF a, i
  <2>3. AdaptersTypeOK'
    BY <2>1, <2>2, AdapterTyped, SameAdaptersTyped
  <2>4. TasksTypeOK'
    BY <1>10, SendGoesTyped
  <2>5. QED
    BY <1>2, <1>3, <1>4, <2>3, <2>4 DEF TypeOK
<1>11. QED
  BY <1>6, <1>7, <1>8, <1>9, <1>10 DEF SendAims

LEMMA SendAttachesTyped ==
  ASSUME TypeOK, NEW d \in sends, SendAttaches(d),
         UNCHANGED <<slot, atomics, pumps, opens, catchups, closes, scopes, ui, prompt>>
  PROVE  TypeOK'
<1>1. d \in SendTask /\ d.session \in Session /\ budget \in [Class -> Nat]
  BY SendIsTyped DEF SendAttaches, SendIs, TypeOK, HistoryTypeOK
<1>2. HistoryTypeOK'
  BY <1>1, SendKeepsTyped DEF SendAttaches
<1>3. AdaptersTypeOK'
  BY SendKeepsTyped DEF SendAttaches, SendFails
<1>4. TasksTypeOK'
  BY <1>1, SendGoesTyped DEF SendAttaches, SendFails
<1>5. BridgeTypeOK'
  BY <1>1 DEF SendAttaches, TypeOK, BridgeTypeOK, Settings, Saved
<1>6. ScreenTypeOK'
  <2>1. view \in View /\ StoredAs(d) \in Session
    BY <1>1 DEF TypeOK, ScreenTypeOK, StoredAs, SendTask
  <2>2. [view EXCEPT !.live = d.session, !.stored = StoredAs(d)] \in View
    BY <1>1, <2>1 DEF View
  <2>3. QED
    BY <2>2, ShowsTyped, SameTyped DEF SendAttaches
<1>7. QED
  BY <1>2, <1>3, <1>4, <1>5, <1>6 DEF TypeOK

LEMMA SendSubmitsTyped ==
  ASSUME TypeOK, NEW d \in sends, SendSubmits(d),
         UNCHANGED <<slot, atomics, pumps, opens, catchups, closes, scopes, ui, prompt>>
  PROVE  TypeOK'
<1>1. d \in SendTask /\ d.session \in Session /\ d.prompt \in 1 .. prompt
  BY SendIsTyped DEF SendSubmits, SendIs
<1>2. BridgeTypeOK'
  BY SendKeepsTyped DEF SendSubmits
<1>3. ScreenTypeOK'
  BY SameTyped DEF SendSubmits
<1>4. AdaptersTypeOK'
  BY SendKeepsTyped DEF SendSubmits, SendFails
<1>5. TasksTypeOK'
  <2>1. CASE sends' = sends \ {d}
    BY <1>1, <2>1, SendsTyped DEF SendSubmits, SendIs
  <2>2. CASE SendFails(d)
    BY <2>2, SendGoesTyped DEF SendFails
  <2>3. QED
    BY <2>1, <2>2 DEF SendSubmits
<1>6. HistoryTypeOK'
  <2>1. budget' \in [Class -> Nat]
    BY CallFailsTyped DEF SendSubmits, TypeOK, HistoryTypeOK
  <2>2. CASE Takes(d)
    BY <1>1, <2>1, <2>2 DEF SendSubmits, Takes, TypeOK, HistoryTypeOK
  <2>3. CASE UNCHANGED agents
    BY <2>1, <2>3 DEF SendSubmits, agents, TypeOK, HistoryTypeOK
  <2>4. QED
    BY <2>2, <2>3 DEF SendSubmits
<1>7. QED
  BY <1>2, <1>3, <1>4, <1>5, <1>6 DEF TypeOK

LEMMA TakenOutTyped ==
  ASSUME NEW c \in Conversation, NEW p
  PROVE  TakenOut(c, p) \in Conversation
BY DEF TakenOut, Conversation

LEMMA SendRestoresTyped ==
  ASSUME TypeOK, NEW d \in sends, SendRestores(d),
         UNCHANGED <<slot, atomics, pumps, opens, catchups, closes, scopes, ui, prompt>>
  PROVE  TypeOK'
<1>1. d \in SendTask /\ d.prompt \in 1 .. prompt
  BY SendIsTyped
<1>2. BridgeTypeOK' /\ AdaptersTypeOK'
  BY SendKeepsTyped DEF SendRestores
<1>3. HistoryTypeOK'
  BY <1>1 DEF SendRestores, TypeOK, HistoryTypeOK
<1>4. TasksTypeOK'
  BY <1>1, SendsTyped DEF SendRestores, SendIs
<1>5. view \in View /\ \A k \in DOMAIN parked : parked[k] \in Conversation
  BY DEF TypeOK, ScreenTypeOK
<1>6. ScreenTypeOK'
  <2>1. CASE Shows([view EXCEPT !.conv = TakenOut(@, d.prompt)])
    <3>1. view.conv \in Conversation
      BY <1>5 DEF View
    <3>2. [view EXCEPT !.conv = TakenOut(@, d.prompt)] \in View
      BY <1>5, <3>1, TakenOutTyped DEF View
    <3>3. QED
      BY <2>1, <3>2, ShowsTyped
  <2>2. CASE \E k \in DOMAIN parked :
               /\ parked' = [parked EXCEPT ![k] = TakenOut(@, d.prompt)]
               /\ archive' = Recorded(view, parked')
               /\ UNCHANGED view
    <3>1. PICK k \in DOMAIN parked :
                 /\ parked' = [parked EXCEPT ![k] = TakenOut(@, d.prompt)]
                 /\ archive' = Recorded(view, parked')
                 /\ UNCHANGED view
      BY <2>2
    <3>2. TakenOut(parked[k], d.prompt) \in Conversation
      BY <1>5, TakenOutTyped
    <3>3. DOMAIN parked' = DOMAIN parked /\ \A j \in DOMAIN parked' : parked'[j] \in Conversation
      BY <1>5, <3>1, <3>2
    <3>4. archive' \in [Kind \X Session -> SUBSET Nat]
      BY <1>5, <3>1, <3>3, RecordedTyped
    <3>5. QED
      BY <3>1, <3>3, <3>4 DEF TypeOK, ScreenTypeOK
  <2>3. CASE UNCHANGED screen
    BY <2>3, SameTyped
  <2>4. QED
    BY <2>1, <2>2, <2>3 DEF SendRestores
<1>7. QED
  BY <1>2, <1>3, <1>4, <1>6 DEF TypeOK

LEMMA SendNextTyped ==
  ASSUME TypeOK, SendNext
  PROVE  TypeOK'
BY SendLocksTyped, SendAimsTyped, SendAttachesTyped, SendSubmitsTyped, SendRestoresTyped
   DEF SendNext

-----------------------------------------------------------------------------
(* Dart's commands, the agents and the network.                             *)

LEMMA SettingsTyped ==
  ASSUME TypeOK
  PROVE  /\ settings \in Settings /\ settings.kind \in Kind
         /\ SavedSession \in Session \cup {None}
BY DEF TypeOK, BridgeTypeOK, Settings, Saved, SavedSession

LEMMA ConnectsTyped ==
  ASSUME TypeOK, NEW force, Connects(force),
         UNCHANGED <<closes, opens, catchups, sends, scopes, prompt>>
  PROVE  /\ AdaptersTypeOK' /\ TasksTypeOK'
         /\ live' \in BOOLEAN /\ wanted' \in BOOLEAN /\ generation' \in Nat
<1>1. generation \in Nat /\ live \in BOOLEAN /\ wanted \in BOOLEAN
  BY DEF TypeOK, BridgeTypeOK
<1>2. CASE UNCHANGED <<atomics, pumps, slot, adapters>>
  BY <1>1, <1>2, SameTyped
<1>3. CASE /\ wanted' = TRUE /\ live' = FALSE /\ generation' = generation + 1
           /\ TakesBackend(settings.kind)
           /\ pumps' = pumps \cup {NewPump(BackendFor(settings.kind))}
  <2>1. AdaptersTypeOK'
    BY <1>3, SettingsTyped, TakenBackendTyped
  <2>2. BackendFor(settings.kind) \in Nat
    <3>1. adapters' \in Seq(Adapter) /\ BackendFor(settings.kind) \in 1 .. Len(adapters')
      BY <1>3, SettingsTyped, BackendTyped
    <3>2. QED
      BY <3>1
  <2> DEFINE i == BackendFor(settings.kind)
             q == NewPump(i)
  <2> HIDE DEF i
  <2>3. q \in Pump /\ q.pc = "attempt"
    <3>1. <<>> \in Seq(Event) /\ generation + 1 \in Nat
      BY <1>1
    <3>2. i \in Nat
      BY <2>2 DEF i
    <3>3. QED
      BY <3>1, <3>2, SettingsTyped DEF NewPump, Pump
  <2>4. pumps' = pumps \cup {q}
    BY <1>3 DEF i
  <2> HIDE DEF q
  <2>5. TasksTypeOK'
    BY <2>3, <2>4 DEF TypeOK, TasksTypeOK
  <2>6. generation' \in Nat
    BY <1>1, <1>3
  <2>7. live' \in BOOLEAN /\ wanted' \in BOOLEAN
    BY <1>3, Zenon
  <2>8. QED
    BY <2>1, <2>5, <2>6, <2>7
<1>4. QED
  BY <1>2, <1>3 DEF Connects

LEMMA LaunchesTyped ==
  ASSUME TypeOK, Launches
  PROVE  TypeOK'
<1>1. ScreenTypeOK' /\ HistoryTypeOK'
  BY SameTyped DEF Launches
<1>2. CASE Connects(FALSE)
  BY <1>1, <1>2, ConnectsTyped DEF Launches, TypeOK, BridgeTypeOK
<1>3. CASE UNCHANGED <<atomics, pumps, slot, adapters>>
  <2>1. AdaptersTypeOK' /\ TasksTypeOK'
    BY <1>3, SameTyped DEF Launches
  <2>2. QED
    BY <1>1, <1>3, <2>1 DEF Launches, TypeOK, BridgeTypeOK
<1>4. QED
  BY <1>2, <1>3 DEF Launches

LEMMA ConfiguresTyped ==
  ASSUME TypeOK, NEW k \in Kind, Configures(k)
  PROVE  TypeOK'
<1>1. AdaptersTypeOK' /\ TasksTypeOK'
  BY SameTyped DEF Configures
<1>2. HistoryTypeOK'
  BY SpendTyped, BudgetTyped DEF Configures, Class
<1>3. BridgeTypeOK'
  BY DEF Configures, TypeOK, BridgeTypeOK, Settings
<1>4. ScreenTypeOK'
  BY SameTyped, SwitchTyped DEF Configures
<1>5. QED
  BY <1>1, <1>2, <1>3, <1>4 DEF TypeOK

LEMMA ConnectCommandTyped ==
  ASSUME TypeOK, ConnectCommand
  PROVE  TypeOK'
<1>1. ScreenTypeOK' /\ HistoryTypeOK'
  BY SameTyped DEF ConnectCommand
<1>2. QED
  BY <1>1, ConnectsTyped DEF ConnectCommand, TypeOK, BridgeTypeOK

LEMMA EnsureConnectedTyped ==
  ASSUME TypeOK, EnsureConnected
  PROVE  TypeOK'
<1>1. ScreenTypeOK'
  BY SameTyped DEF EnsureConnected
<1>2. HistoryTypeOK'
  BY SpendTyped, BudgetTyped DEF EnsureConnected, Class
<1>3. QED
  BY <1>1, <1>2, ConnectsTyped DEF EnsureConnected, TypeOK, BridgeTypeOK

LEMMA DisconnectCommandTyped ==
  ASSUME TypeOK, DisconnectCommand
  PROVE  TypeOK'
<1>1. ScreenTypeOK' /\ TasksTypeOK'
  BY SameTyped DEF DisconnectCommand
<1>2. HistoryTypeOK'
  BY SpendTyped, BudgetTyped DEF DisconnectCommand, Class
<1>3. AdaptersTypeOK'
  BY SettingsTyped, TakenBackendTyped DEF DisconnectCommand
<1>4. BridgeTypeOK'
  <2>1. settings' \in Settings /\ generation' \in Nat
    BY DEF DisconnectCommand, TypeOK, BridgeTypeOK, Settings
  <2>2. live' \in BOOLEAN /\ wanted' \in BOOLEAN /\ ui' = ui
    BY Zenon DEF DisconnectCommand
  <2>3. QED
    BY <2>1, <2>2 DEF TypeOK, BridgeTypeOK
<1>5. QED
  BY <1>1, <1>2, <1>3, <1>4 DEF TypeOK

LEMMA DisconnectTaskTyped ==
  ASSUME TypeOK, NEW i, DisconnectTask(i)
  PROVE  TypeOK'
<1>1. BridgeTypeOK' /\ ScreenTypeOK' /\ TasksTypeOK' /\ HistoryTypeOK'
  BY SameTyped DEF DisconnectTask
<1>2. AdaptersTypeOK'
  BY DisconnectsTyped, SameAdaptersTyped DEF DisconnectTask
<1>3. QED
  BY <1>1, <1>2 DEF TypeOK

(* The number of the adapter a command takes.                               *)
LEMMA BackendForTyped ==
  ASSUME TypeOK, NEW k \in Kind, TakesBackend(k)
  PROVE  BackendFor(k) \in Nat
<1>1. adapters' \in Seq(Adapter) /\ BackendFor(k) \in 1 .. Len(adapters')
  BY BackendTyped
<1>2. QED
  BY <1>1

LEMMA RefreshTyped ==
  ASSUME TypeOK, Refresh
  PROVE  TypeOK'
<1>1. BridgeTypeOK' /\ ScreenTypeOK'
  BY SameTyped DEF Refresh
<1>2. HistoryTypeOK'
  BY SpendTyped, BudgetTyped DEF Refresh, Class
<1>3. AdaptersTypeOK'
  BY SettingsTyped, TakenBackendTyped DEF Refresh
<1>4. TasksTypeOK'
  <2>1. view.stored \in Session
    BY DEF Refresh, TypeOK, ScreenTypeOK, View
  <2>2. CatchupOf(view.stored, BackendFor(settings.kind), 0) \in Catchup
    BY <2>1, SettingsTyped, BackendForTyped, CatchupOfTyped DEF Refresh
  <2>3. QED
    BY <2>2 DEF Refresh, TypeOK, TasksTypeOK
<1>5. QED
  BY <1>1, <1>2, <1>3, <1>4 DEF TypeOK

LEMMA OpenSessionTyped ==
  ASSUME TypeOK, NEW s \in Session, OpenSession(s)
  PROVE  TypeOK'
<1>1. ScreenTypeOK'
  BY SameTyped DEF OpenSession
<1>2. HistoryTypeOK'
  BY SpendTyped, BudgetTyped DEF OpenSession, Class
<1>3. AdaptersTypeOK'
  BY SettingsTyped, TakenBackendTyped DEF OpenSession
<1>4. BridgeTypeOK'
  BY DEF OpenSession, TypeOK, BridgeTypeOK, Settings, Saved
<1>5. TasksTypeOK'
  <2>1. BackendFor(settings.kind) \in Nat
    BY SettingsTyped, BackendForTyped DEF OpenSession
  <2>2. [session |-> s, inst |-> BackendFor(settings.kind), by |-> 0, view |-> 0, got |-> {},
         pc |-> "start"] \in OpenTask
    BY <2>1 DEF OpenTask
  <2>3. QED
    BY <2>2 DEF OpenSession, TypeOK, TasksTypeOK
<1>6. QED
  BY <1>1, <1>2, <1>3, <1>4, <1>5 DEF TypeOK

LEMMA NewSessionTyped ==
  ASSUME TypeOK, NewSession
  PROVE  TypeOK'
<1>1. view \in View
  BY DEF TypeOK, ScreenTypeOK
<1>2. HistoryTypeOK'
  BY SpendTyped, BudgetTyped DEF NewSession, Class
<1>3. AdaptersTypeOK'
  BY SettingsTyped, TakenBackendTyped DEF NewSession
<1>4. BridgeTypeOK'
  BY DEF NewSession, TypeOK, BridgeTypeOK, Settings
<1>5. ScreenTypeOK'
  BY <1>1, SwitchTyped DEF NewSession, View
<1>6. TasksTypeOK'
  <2>1. BackendFor(settings.kind) \in Nat /\ view.gen + 1 \in Nat
    BY <1>1, SettingsTyped, BackendForTyped DEF NewSession, View
  <2>2. [view |-> view.gen + 1, inst |-> BackendFor(settings.kind)] \in [view : Nat, inst : Nat]
    BY <2>1
  <2>3. QED
    BY <2>2 DEF NewSession, TypeOK, TasksTypeOK
<1>7. QED
  BY <1>2, <1>3, <1>4, <1>5, <1>6 DEF TypeOK

LEMMA ClearsScopeTyped ==
  ASSUME TypeOK, NEW t, ClearsScope(t)
  PROVE  TypeOK'
<1>1. BridgeTypeOK' /\ ScreenTypeOK' /\ HistoryTypeOK'
  BY SameTyped DEF ClearsScope
<1>2. AdaptersTypeOK'
  BY SameTyped, ScopeTyped, SameAdaptersTyped DEF ClearsScope
<1>3. TasksTypeOK'
  BY DEF ClearsScope, TypeOK, TasksTypeOK
<1>4. QED
  BY <1>1, <1>2, <1>3 DEF TypeOK

LEMMA SendTyped ==
  ASSUME TypeOK, Send
  PROVE  TypeOK'
<1>1. view \in View /\ prompt \in Nat /\ prompt' = prompt + 1
  BY DEF TypeOK, ScreenTypeOK, HistoryTypeOK, Send
<1>2. BridgeTypeOK'
  BY SameTyped DEF Send
<1>3. AdaptersTypeOK'
  BY SettingsTyped, TakenBackendTyped DEF Send
<1>4. ScreenTypeOK'
  <2> DEFINE c == [shown |-> view.conv.shown \cup {prompt + 1}, sending |-> TRUE]
             v == [view EXCEPT !.conv = c]
  <2>1. c \in Conversation
    BY <1>1 DEF View, Conversation
  <2>2. Shows(v)
    BY DEF Send
  <2> HIDE DEF c
  <2>3. v \in View
    BY <1>1, <2>1 DEF View
  <2> HIDE DEF v
  <2>4. QED
    BY <2>2, <2>3, ShowsTyped
<1>5. HistoryTypeOK'
  <2>1. budget' \in [Class -> Nat]
    BY SpendTyped DEF Send, Class
  <2>2. QED
    BY <1>1, <2>1 DEF Send, TypeOK, HistoryTypeOK
<1>6. TasksTypeOK'
  <2>1. BackendFor(settings.kind) \in Nat
    BY SettingsTyped, BackendForTyped DEF Send
  <2> DEFINE d == [prompt |-> prompt + 1, view |-> view.gen, inst |-> BackendFor(settings.kind),
                   live |-> view.live, stored |-> view.stored, session |-> None, pc |-> "lock"]
  <2>2. d \in SendTask /\ d.prompt \in 1 .. prompt' /\ d.pc = "lock"
    BY <1>1, <2>1 DEF SendTask, View
  <2>3. sends' = sends \cup {d} /\ UNCHANGED <<pumps, opens, catchups, scopes>>
    BY DEF Send
  <2> HIDE DEF d
  <2>4. sends' \subseteq SendTask
    BY <2>2, <2>3 DEF TypeOK, TasksTypeOK
  <2>5. \A e \in sends' : /\ e.prompt \in 1 .. prompt'
                          /\ e.pc \in {"attach", "submit"} => e.session \in Session
    <3>1. \A e \in sends : e.prompt \in 1 .. prompt'
      BY <1>1, SendIsTyped
    <3>2. QED
      BY <2>2, <2>3, <3>1, SendIsTyped
  <2>6. QED
    BY <2>3, <2>4, <2>5 DEF TypeOK, TasksTypeOK
<1>7. QED
  BY <1>2, <1>3, <1>4, <1>5, <1>6 DEF TypeOK

LEMMA InterruptTyped ==
  ASSUME TypeOK, Interrupt
  PROVE  TypeOK'
<1>1. BridgeTypeOK' /\ TasksTypeOK'
  BY SameTyped DEF Interrupt
<1>2. HistoryTypeOK'
  BY SpendTyped, BudgetTyped DEF Interrupt, Class
<1>3. AdaptersTypeOK'
  BY SettingsTyped, TakenBackendTyped DEF Interrupt
<1>4. ScreenTypeOK'
  BY FinishTyped, ShowsTyped DEF Interrupt
<1>5. QED
  BY <1>1, <1>2, <1>3, <1>4 DEF TypeOK

(* What reaches the pumps.                                                  *)
LEMMA DeliversTyped ==
  ASSUME TypeOK, NEW i, NEW e \in Event, Delivers(i, e),
         UNCHANGED <<opens, catchups, sends, scopes, prompt>>
  PROVE  TasksTypeOK'
<1>1. \A q \in pumps' : q \in Pump /\ (q.pc \in {"resume", "resumed"} => q.session \in Session)
  <2>1. SUFFICES ASSUME NEW q \in pumps'
                 PROVE  q \in Pump /\ (q.pc \in {"resume", "resumed"} => q.session \in Session)
    OBVIOUS
  <2>2. PICK p \in pumps : q = p \/ q = [p EXCEPT !.inbox = Append(@, e)]
    BY DEF Delivers
  <2>3. p \in Pump /\ p.inbox \in Seq(Event)
    BY PumpIsTyped DEF Pump
  <2>4. Append(p.inbox, e) \in Seq(Event)
    BY <2>3
  <2>5. QED
    BY <2>2, <2>3, <2>4, PumpIsTyped DEF Pump
<1>2. QED
  BY <1>1 DEF TypeOK, TasksTypeOK

LEMMA TurnEndsTyped ==
  ASSUME TypeOK, NEW s \in Session, TurnEnds(s)
  PROVE  TypeOK'
<1>1. BridgeTypeOK' /\ AdaptersTypeOK' /\ ScreenTypeOK'
  BY SameTyped DEF TurnEnds
<1>2. HistoryTypeOK'
  BY DEF TurnEnds, TypeOK, HistoryTypeOK
<1>3. TasksTypeOK'
  BY SameTyped, DeliversTyped DEF TurnEnds, Event
<1>4. QED
  BY <1>1, <1>2, <1>3 DEF TypeOK

LEMMA AnnouncesTyped ==
  ASSUME TypeOK, NEW i \in DOMAIN adapters, Announces(i)
  PROVE  TypeOK'
<1>1. BridgeTypeOK' /\ AdaptersTypeOK' /\ ScreenTypeOK'
  BY SameTyped DEF Announces
<1>2. HistoryTypeOK'
  BY SpendTyped, BudgetTyped DEF Announces, Class
<1>3. adapters[i].scope \in Event
  BY AdapterIs DEF Announces, Adapter, Event
<1>4. TasksTypeOK'
  BY <1>3, DeliversTyped DEF Announces
<1>5. QED
  BY <1>1, <1>2, <1>4 DEF TypeOK

LEMMA DropsTyped ==
  ASSUME TypeOK, NEW i \in DOMAIN adapters, Drops(i)
  PROVE  TypeOK'
<1> DEFINE a == [adapters[i] EXCEPT !.stream = 0]
<1>1. BridgeTypeOK' /\ ScreenTypeOK'
  BY SameTyped DEF Drops
<1>2. HistoryTypeOK'
  BY SpendTyped, BudgetTyped DEF Drops, Class
<1>3. AdaptersTypeOK'
  <2>1. adapters' = [adapters EXCEPT ![i] = a]
    BY DEF Drops
  <2>2. a \in Adapter
    BY AdapterIs DEF Adapter
  <2> HIDE DEF a
  <2>3. QED
    BY <2>1, <2>2, AdapterTyped, SameAdaptersTyped DEF Drops
<1>4. TasksTypeOK'
  BY SameTyped, DeliversTyped DEF Drops, Event
<1>5. QED
  BY <1>1, <1>2, <1>3, <1>4 DEF TypeOK

-----------------------------------------------------------------------------
(* The bridge.                                                              *)

LEMMA InitTyped == Init => TypeOK
<1>1. SUFFICES ASSUME Init PROVE TypeOK
  OBVIOUS
<1>2. PICK s \in Scenarios : /\ settings = s.settings /\ budget = s.budget
                            /\ IF s.online THEN Connected ELSE Starting
  BY <1>1 DEF Init
<1>3. settings \in Settings /\ settings.kind \in Kind /\ budget \in [Class -> Nat]
  BY <1>2, MobileAssumption DEF Settings
<1>4. BridgeTypeOK
  <2>1. live \in BOOLEAN /\ wanted \in BOOLEAN
    BY <1>2, Zenon DEF Connected, Starting
  <2>2. generation \in Nat /\ ui \in {"launch", "connect", "idle"}
    BY <1>2 DEF Connected, Starting
  <2>3. QED
    BY <1>3, <2>1, <2>2 DEF BridgeTypeOK
<1>5. AdaptersTypeOK
  <2>1. CASE Starting
    BY <1>1, <2>1 DEF Starting, AdaptersTypeOK, Init
  <2>2. CASE Connected
    <3> DEFINE a == [kind |-> settings.kind, stream |-> 1, scope |-> None, guard |-> 0]
    <3>1. a \in Adapter
      BY <1>3 DEF Adapter
    <3>2. adapters = <<a>> /\ slot = 1 /\ closes = {}
      BY <1>1, <2>2 DEF Connected, Init
    <3> HIDE DEF a
    <3>3. QED
      BY <3>1, <3>2 DEF AdaptersTypeOK
  <2>3. QED
    BY <1>2, <2>1, <2>2
<1>6. ScreenTypeOK
  <2>1. view \in View
    BY <1>1, <1>3 DEF Init, View, Blank, Conversation
  <2>2. DOMAIN parked = {}
    BY <1>1 DEF Init
  <2>3. archive \in [Kind \X Session -> SUBSET Nat]
    BY <1>1 DEF Init
  <2>4. QED
    BY <2>1, <2>2, <2>3 DEF ScreenTypeOK
<1>7. TasksTypeOK
  <2>1. CASE Starting
    BY <1>1, <2>1 DEF Starting, TasksTypeOK, Init
  <2>2. CASE Connected
    <3>1. <<>> \in Seq(Event)
      OBVIOUS
    <3>2. [gen |-> 1, inst |-> 1, saved |-> None, session |-> None, inbox |-> <<>>,
           pc |-> "drain"] \in Pump
      BY <3>1 DEF Pump
    <3>3. QED
      BY <1>1, <2>2, <3>2 DEF Connected, TasksTypeOK, Init
  <2>3. QED
    BY <1>2, <2>1, <2>2
<1>8. HistoryTypeOK
  <2>1. DOMAIN taken = {}
    BY <1>1 DEF Init
  <2>2. QED
    BY <1>1, <1>3, <2>1 DEF Init, HistoryTypeOK
<1>9. QED
  BY <1>4, <1>5, <1>6, <1>7, <1>8 DEF TypeOK

LEMMA NextTyped ==
  ASSUME TypeOK, [Next]_vars
  PROVE  TypeOK'
<1>1. CASE CommandNext
  BY <1>1, LaunchesTyped, ConnectCommandTyped, EnsureConnectedTyped, DisconnectCommandTyped,
     RefreshTyped, ConfiguresTyped, OpenSessionTyped, NewSessionTyped, SendTyped, InterruptTyped
     DEF CommandNext
<1>2. CASE WorldNext
  BY <1>2, TurnEndsTyped, AnnouncesTyped, DropsTyped, PumpFailsTyped DEF WorldNext
<1>3. CASE PumpNext
  BY <1>3, PumpNextTyped
<1>4. CASE OpenNext
  BY <1>4, OpenNextTyped
<1>5. CASE CatchupNext
  BY <1>5, CatchupNextTyped
<1>6. CASE SendNext
  BY <1>6, SendNextTyped
<1>7. CASE LateTaskNext
  BY <1>7, DisconnectTaskTyped, ClearsScopeTyped DEF LateTaskNext
<1>8. CASE UNCHANGED vars
  BY <1>8, SameTyped DEF vars, TypeOK
<1>9. QED
  BY <1>1, <1>2, <1>3, <1>4, <1>5, <1>6, <1>7, <1>8 DEF Next

(* The bridge's state has its type in every state: MobileState's TypeOK,    *)
(* for any sessions, backends and number of parked conversations.           *)
THEOREM MobileTypeCorrect == Spec => []TypeOK
BY InitTyped, NextTyped, PTL DEF Spec

-----------------------------------------------------------------------------
(* Where a prompt is.                                                       *)

(* The live id and the stored id on screen are of one session.              *)
LiveIsStored == view.live # None /\ view.stored # None => view.live = view.stored

(* A conversation on screen keeps its session until switch_to; only a blank *)
(* chat gets one, and its two ids go on agreeing.                           *)
IdentityStays ==
  /\ view'.gen = view.gen /\ Key(view) # None => Key(view') = Key(view)
  /\ LiveIsStored'

(* Prompt p is in the transcript of key y of backend b: on screen, parked   *)
(* or in the cache.                                                         *)
At(p, b, y) ==
  \/ b = view.backend /\ y = Key(view) /\ p \in view.conv.shown
  \/ b = view.backend /\ y \in DOMAIN parked /\ p \in parked[y].shown
  \/ <<b, y>> \in DOMAIN archive /\ p \in archive[<<b, y>>]

(* What a blank chat is called after a step.                                *)
NewName == IF view'.gen = view.gen THEN Key(view') ELSE view.gen + 1

(* Wherever p is after a step, it was there before.                         *)
Moves(p) ==
  /\ \A b, y : At(p, b, y)' => \/ y # None /\ At(p, b, y)
                               \/ y = NewName /\ At(p, b, None)
  /\ \/ /\ view'.gen = view.gen /\ view'.backend = view.backend
        /\ p \in view'.conv.shown => p \in view.conv.shown
        /\ \A k \in DOMAIN parked' :
             p \in parked'[k].shown => k \in DOMAIN parked /\ p \in parked[k].shown
     \/ view'.gen = view.gen + 1 /\ Key(view') \notin DOMAIN parked'

(* What is parked is in the cache as well, except what is on screen.        *)
ParkedIsSaved ==
  \A k \in DOMAIN parked \cap Session :
    k = Key(view) \/ archive[<<view.backend, k>>] = parked[k].shown

LEMMA ScreenIs ==
  ASSUME TypeOK
  PROVE  /\ view \in View /\ DOMAIN archive = Kind \X Session
         /\ DOMAIN parked \subseteq Session \cup Nat
         /\ None \notin DOMAIN parked /\ \A b : <<b, None>> \notin DOMAIN archive
BY MobileAssumption DEF TypeOK, ScreenTypeOK

LEMMA BlankIs ==
  ASSUME TypeOK, NEW p, NEW b, At(p, b, None)
  PROVE  b = view.backend /\ Key(view) = None /\ p \in view.conv.shown
BY ScreenIs DEF At

(* A cell of what record_history writes.                                    *)
LEMMA RecordedIs ==
  ASSUME TypeOK, NEW v \in View, NEW kept, NEW b, NEW y, NEW p,
         <<b, y>> \in DOMAIN Recorded(v, kept), p \in Recorded(v, kept)[<<b, y>>]
  PROVE  /\ <<b, y>> \in DOMAIN archive /\ y \in Session
         /\ \/ b = v.backend /\ y = Key(v) /\ p \in v.conv.shown
            \/ b = v.backend /\ y \in DOMAIN kept /\ p \in kept[y].shown
            \/ p \in archive[<<b, y>>]
BY ScreenIs DEF Recorded

LEMMA SameMoves ==
  ASSUME TypeOK, UNCHANGED screen, NEW p
  PROVE  Moves(p)
<1>1. \A b, y : At(p, b, y)' <=> At(p, b, y)
  BY DEF At, Key
<1>2. NewName = Key(view)
  BY DEF NewName, Key
<1>3. \A b, y : At(p, b, y)' => (y # None /\ At(p, b, y)) \/ (y = NewName /\ At(p, b, None))
  BY <1>1, <1>2, BlankIs
<1>4. QED
  BY <1>3 DEF Moves

(* The same conversation is shown, with no prompt that was not there.       *)
LEMMA ShowsMoves ==
  ASSUME TypeOK, IdentityStays, NEW v \in View, Shows(v), v.gen = view.gen,
         v.backend = view.backend, NEW p, p \in v.conv.shown => p \in view.conv.shown
  PROVE  Moves(p)
<1>1. view' = v /\ archive' = Recorded(v, parked) /\ parked' = parked /\ NewName = Key(v)
  BY DEF Shows, NewName
<1>2. Key(view) = None \/ Key(v) = Key(view)
  BY <1>1 DEF IdentityStays
<1>3. SUFFICES ASSUME NEW b, NEW y, At(p, b, y)'
               PROVE  (y # None /\ At(p, b, y)) \/ (y = NewName /\ At(p, b, None))
  BY <1>1 DEF Moves
<1>4. CASE b = v.backend /\ y = Key(v) /\ p \in v.conv.shown
  BY <1>1, <1>2, <1>4 DEF At
<1>5. CASE b = v.backend /\ y \in DOMAIN parked /\ p \in parked[y].shown
  BY <1>5, ScreenIs DEF At
<1>6. CASE <<b, y>> \in DOMAIN Recorded(v, parked) /\ p \in Recorded(v, parked)[<<b, y>>]
  <2>1. y # None /\ <<b, y>> \in DOMAIN archive
    BY <1>6, RecordedIs, MobileAssumption
  <2>2. CASE p \in archive[<<b, y>>]
    BY <2>1, <2>2 DEF At
  <2>3. QED
    BY <1>4, <1>5, <1>6, <2>2, RecordedIs
<1>7. QED
  BY <1>1, <1>3, <1>4, <1>5, <1>6 DEF At

(* The conversation on screen gets other ids.                               *)
LEMMA IdsMoves ==
  ASSUME TypeOK, IdentityStays, UNCHANGED <<parked, archive>>, view'.gen = view.gen,
         view'.backend = view.backend, view'.conv = view.conv, NEW p
  PROVE  Moves(p)
<1>1. NewName = Key(view')
  BY DEF NewName
<1>2. Key(view) = None \/ Key(view') = Key(view)
  BY DEF IdentityStays
<1>3. SUFFICES ASSUME NEW b, NEW y, At(p, b, y)'
               PROVE  (y # None /\ At(p, b, y)) \/ (y = NewName /\ At(p, b, None))
  BY DEF Moves
<1>4. CASE b = view.backend /\ y = Key(view') /\ p \in view.conv.shown
  BY <1>1, <1>2, <1>4 DEF At
<1>5. CASE b = view.backend /\ y \in DOMAIN parked /\ p \in parked[y].shown
  BY <1>5, ScreenIs DEF At
<1>6. CASE <<b, y>> \in DOMAIN archive /\ p \in archive[<<b, y>>]
  BY <1>6, ScreenIs DEF At
<1>7. QED
  BY <1>3, <1>4, <1>5, <1>6 DEF At

(* switch_to.                                                               *)
LEMMA SwitchMoves ==
  ASSUME TypeOK, NEW s \in Session \cup {None}, NEW k, k = view.backend \/ s = None,
         SwitchesTo(s, k), NEW p
  PROVE  Moves(p)
<1>1. PICK kept \in Parkings :
        /\ view' = [live |-> None, stored |-> s, gen |-> view.gen + 1,
                    conv |-> BroughtBack(kept, s), backend |-> k]
        /\ parked' = IF k = view.backend THEN Without(kept, {s}) ELSE <<>>
        /\ archive' = Recorded(view, parked)
  BY DEF SwitchesTo
<1>2. view \in View /\ view.gen \in Nat
  BY ScreenIs DEF View
<1>3. view'.gen = view.gen + 1 /\ NewName = view.gen + 1 /\ Key(view') = s /\ view'.backend = k
  BY <1>1, <1>2 DEF NewName, Key
<1>4. DOMAIN kept \subseteq Session \cup Nat
  BY ParkingIs, DraftKeyIs, ScreenIs
<1>5. ASSUME NEW y \in DOMAIN kept, p \in kept[y].shown
      PROVE  \/ y # None /\ At(p, view.backend, y)
             \/ y = NewName /\ At(p, view.backend, None)
  <2>1. y # None
    BY <1>4, MobileAssumption
  <2>2. CASE y \in DraftKey(view)
    BY <1>3, <1>5, <2>1, <2>2, ParkingIs, DraftKeyIs DEF At
  <2>3. CASE y \notin DraftKey(view)
    BY <1>5, <2>1, <2>3, ParkingIs DEF At
  <2>4. QED
    BY <2>2, <2>3
<1>6. ASSUME NEW b, NEW y, <<b, y>> \in DOMAIN archive', p \in archive'[<<b, y>>]
      PROVE  y # None /\ At(p, b, y)
  BY <1>1, <1>2, <1>6, RecordedIs, MobileAssumption DEF At
<1>7. \A y \in DOMAIN parked' :
        k = view.backend /\ y \in DOMAIN kept /\ y # s /\ parked'[y] = kept[y]
  <2>1. CASE k = view.backend
    BY <1>1, <2>1 DEF Without, Restrict
  <2>2. CASE k # view.backend
    BY <1>1, <2>2
  <2>3. QED
    BY <2>1, <2>2
<1>8. ASSUME p \in view'.conv.shown
      PROVE  \/ s # None /\ At(p, k, s)
             \/ s = NewName /\ At(p, k, None)
  <2>1. CASE s \in DOMAIN kept /\ kept[s].shown # {}
    <3>1. p \in kept[s].shown /\ k = view.backend
      BY <1>1, <1>4, <1>8, <2>1, MobileAssumption DEF BroughtBack
    <3>2. QED
      BY <1>5, <2>1, <3>1
  <2>2. CASE ~(s \in DOMAIN kept /\ kept[s].shown # {})
    <3>1. s # None /\ k = view.backend /\ p \in archive'[<<view.backend, s>>]
      BY <1>1, <1>8, <2>2 DEF BroughtBack
    <3>2. <<view.backend, s>> \in DOMAIN archive'
      BY <1>1, <1>2, <3>1, ScreenIs DEF Recorded, View
    <3>3. QED
      BY <1>6, <3>1, <3>2
  <2>3. QED
    BY <2>1, <2>2
<1>9. \A b, y : At(p, b, y)' => (y # None /\ At(p, b, y)) \/ (y = NewName /\ At(p, b, None))
  <2>1. SUFFICES ASSUME NEW b, NEW y, At(p, b, y)'
                 PROVE  (y # None /\ At(p, b, y)) \/ (y = NewName /\ At(p, b, None))
    OBVIOUS
  <2>2. CASE b = k /\ y = s /\ p \in view'.conv.shown
    BY <1>8, <2>2
  <2>3. CASE b = k /\ y \in DOMAIN parked' /\ p \in parked'[y].shown
    BY <1>5, <1>7, <2>3
  <2>4. CASE <<b, y>> \in DOMAIN archive' /\ p \in archive'[<<b, y>>]
    BY <1>6, <2>4
  <2>5. QED
    BY <1>3, <2>1, <2>2, <2>3, <2>4 DEF At
<1>10. Key(view') \notin DOMAIN parked'
  BY <1>3, <1>7
<1>11. QED
  BY <1>3, <1>9, <1>10 DEF Moves

(* restore_prompt among what is parked.                                     *)
LEMMA TakingOutMoves ==
  ASSUME TypeOK, NEW q, NEW k \in DOMAIN parked,
         parked' = [parked EXCEPT ![k] = TakenOut(@, q)], archive' = Recorded(view, parked'),
         UNCHANGED view, NEW p
  PROVE  Moves(p)
<1>1. /\ NewName = Key(view) /\ Key(view') = Key(view)
      /\ view'.gen = view.gen /\ view'.backend = view.backend
  BY DEF NewName, Key
<1>2. DOMAIN parked' = DOMAIN parked
      /\ \A y \in DOMAIN parked' : p \in parked'[y].shown => p \in parked[y].shown
  BY DEF TakenOut
<1>3. SUFFICES ASSUME NEW b, NEW y, At(p, b, y)'
               PROVE  (y # None /\ At(p, b, y)) \/ (y = NewName /\ At(p, b, None))
  BY <1>1, <1>2 DEF Moves
<1>4. CASE b = view.backend /\ y = Key(view) /\ p \in view.conv.shown
  BY <1>1, <1>4 DEF At
<1>5. CASE b = view.backend /\ y \in DOMAIN parked' /\ p \in parked'[y].shown
  BY <1>2, <1>5, ScreenIs DEF At
<1>6. CASE <<b, y>> \in DOMAIN archive' /\ p \in archive'[<<b, y>>]
  <2>1. /\ y # None /\ <<b, y>> \in DOMAIN archive
        /\ \/ b = view.backend /\ y = Key(view) /\ p \in view.conv.shown
           \/ b = view.backend /\ y \in DOMAIN parked' /\ p \in parked'[y].shown
           \/ p \in archive[<<b, y>>]
    BY <1>6, RecordedIs, ScreenIs, MobileAssumption
  <2>2. QED
    BY <1>2, <2>1 DEF At
<1>7. QED
  BY <1>1, <1>3, <1>4, <1>5, <1>6 DEF At

-----------------------------------------------------------------------------
(* What is parked is in the cache after each kind of step.                  *)

LEMMA RecordedCell ==
  ASSUME TypeOK, NEW v \in View, NEW kept, NEW s \in Session
  PROVE  Recorded(v, kept)[<<v.backend, s>>] =
           IF s = Key(v) THEN v.conv.shown
           ELSE IF s \in DOMAIN kept THEN kept[s].shown ELSE archive[<<v.backend, s>>]
<1>1. <<v.backend, s>> \in DOMAIN archive
  BY ScreenIs DEF View
<1>2. QED
  BY <1>1 DEF Recorded

LEMMA SameSaved ==
  ASSUME ParkedIsSaved, UNCHANGED screen
  PROVE  ParkedIsSaved'
BY DEF ParkedIsSaved, Key

LEMMA ShowsSaved ==
  ASSUME TypeOK, NEW v \in View, Shows(v)
  PROVE  ParkedIsSaved'
BY RecordedCell DEF Shows, ParkedIsSaved

LEMMA IdsSaved ==
  ASSUME TypeOK, ParkedIsSaved, IdentityStays, UNCHANGED <<parked, archive>>,
         view'.gen = view.gen, view'.backend = view.backend
  PROVE  ParkedIsSaved'
BY ScreenIs DEF ParkedIsSaved, IdentityStays

LEMMA TakingOutSaved ==
  ASSUME TypeOK, archive' = Recorded(view, parked'), UNCHANGED view
  PROVE  ParkedIsSaved'
BY RecordedCell, ScreenIs DEF ParkedIsSaved, Key

(* What switch_to leaves behind: every conversation of the backend has what *)
(* it had, in the cache, on screen and where it is parked.                  *)
LEMMA SwitchKeeps ==
  ASSUME TypeOK, ParkedIsSaved, NEW s \in Session \cup {None}, SwitchesTo(s, view.backend)
  PROVE  /\ ParkedIsSaved'
         /\ view'.backend = view.backend
         /\ \A t \in Session : Kept(t)' = Kept(t)
<1>1. PICK kept \in Parkings :
        /\ view' = [live |-> None, stored |-> s, gen |-> view.gen + 1,
                    conv |-> BroughtBack(kept, s), backend |-> view.backend]
        /\ parked' = Without(kept, {s})
        /\ archive' = Recorded(view, parked)
  BY DEF SwitchesTo
<1>2. view \in View /\ Key(view') = s /\ view'.backend = view.backend
  BY <1>1, ScreenIs DEF Key
<1>3. \A t \in Session : archive'[<<view.backend, t>>] = Kept(t)
  BY <1>1, <1>2, RecordedCell DEF Kept, ParkedIsSaved
<1>4. \A t \in DOMAIN kept \cap Session : kept[t].shown = Kept(t)
  <2>1. SUFFICES ASSUME NEW t \in Session, t \in DOMAIN kept
                 PROVE  kept[t].shown = Kept(t)
    OBVIOUS
  <2>2. view.gen + 1 \in Nat /\ t # None /\ t \notin Nat
    BY <1>2, MobileAssumption DEF View
  <2>3. CASE t \in DraftKey(view)
    <3>1. t = Key(view)
      BY <2>2, <2>3, DraftKeyIs
    <3>2. QED
      BY <2>1, <2>3, <3>1, ParkingIs DEF Kept
  <2>4. CASE t \notin DraftKey(view)
    <3>1. t # Key(view)
      BY <2>2, <2>4 DEF DraftKey
    <3>2. t \in DOMAIN parked /\ kept[t] = parked[t]
      BY <2>1, <2>4, ParkingIs
    <3>3. QED
      BY <3>1, <3>2 DEF Kept, ParkedIsSaved
  <2>5. QED
    BY <2>3, <2>4
<1>5. \A t \in DOMAIN parked' : t \in DOMAIN kept /\ t # s /\ parked'[t] = kept[t]
  BY <1>1 DEF Without, Restrict
<1>6. s \in Session => view'.conv.shown = Kept(s)
  <2>1. SUFFICES ASSUME s \in Session PROVE BroughtBack(kept, s).shown = Kept(s)
    BY <1>1
  <2>2. CASE s \in DOMAIN kept /\ kept[s].shown # {}
    BY <1>4, <2>1, <2>2 DEF BroughtBack
  <2>3. CASE ~(s \in DOMAIN kept /\ kept[s].shown # {})
    BY <1>1, <1>3, <2>1, <2>3, MobileAssumption DEF BroughtBack
  <2>4. QED
    BY <2>2, <2>3
<1>7. ParkedIsSaved'
  BY <1>2, <1>3, <1>4, <1>5 DEF ParkedIsSaved
<1>8. \A t \in Session : Kept(t)' = Kept(t)
  <2>1. SUFFICES ASSUME NEW t \in Session PROVE Kept(t)' = Kept(t)
    OBVIOUS
  <2>2. CASE t = s
    BY <1>2, <1>6, <2>2 DEF Kept
  <2>3. CASE t # s /\ t \in DOMAIN parked' /\ parked'[t].shown # {}
    BY <1>2, <1>4, <1>5, <2>3 DEF Kept
  <2>4. CASE t # s /\ ~(t \in DOMAIN parked' /\ parked'[t].shown # {})
    BY <1>2, <1>3, <2>4 DEF Kept
  <2>5. QED
    BY <2>2, <2>3, <2>4
<1>9. QED
  BY <1>2, <1>7, <1>8

(* Another backend: nothing is parked.                                      *)
LEMMA LeavingSaved ==
  ASSUME NEW k, k # view.backend, SwitchesTo(None, k)
  PROVE  ParkedIsSaved'
<1>1. DOMAIN parked' = {}
  BY DEF SwitchesTo
<1>2. QED
  BY <1>1 DEF ParkedIsSaved

-----------------------------------------------------------------------------
(* The invariant.                                                           *)

(* A transcript holds prompts that were typed.                              *)
Known == \A p, b, y : At(p, b, y) => p \in 1 .. prompt

(* What was fetched for a session is the session's.                         *)
Theirs(t) == \A p \in t.got : p \in DOMAIN taken /\ taken[p] = t.session

Fetched == \A t \in opens \cup catchups : Theirs(t)

(* A prompt on its way is not given back yet, and an agent has it only if   *)
(* the answer to its submission was lost.                                   *)
Numbers ==
  /\ \A d \in sends : d.prompt \notin restored
  /\ \A d \in sends : d.prompt \in DOMAIN taken => d.pc = "restore"
  /\ \A d, e \in sends : d.prompt = e.prompt => d = e

Own == \A p \in DOMAIN taken : \A b, y : At(p, b, y) => y = taken[p]

(* What was given back and no agent has is nowhere.                         *)
Gone == \A p \in restored \ DOMAIN taken : \A b, y : ~At(p, b, y)

(* A prompt in at most one conversation, and not both shown and parked.     *)
OnePlace(p) ==
  /\ \A b, c, x, y : At(p, b, x) /\ At(p, c, y) => b = c /\ x = y
  /\ p \in view.conv.shown => \A k \in DOMAIN parked : p \notin parked[k].shown

OnlyShown(p) ==
  /\ \A b, y : At(p, b, y) => b = view.backend /\ y = Key(view)
  /\ \A k \in DOMAIN parked : p \notin parked[k].shown

(* A prompt on its way whose session is not on screen for it yet.           *)
Early(d) == d.pc \in {"lock", "aim", "attach"} /\ d.view = view.gen

(* A prompt on its way: it is where it was typed, and once its task has put *)
(* its session on screen it is in that session's transcript.                *)
OnItsWay(d) ==
  /\ d.view <= view.gen
  /\ d.live # None /\ d.stored # None => d.live = d.stored
  /\ d.pc \in {"attach", "submit"} /\ d.live # None => d.session = d.live
  /\ OnePlace(d.prompt)
  /\ Early(d) => OnlyShown(d.prompt)
  /\ d.pc = "submit" => \A b, y : At(d.prompt, b, y) => y = d.session

RouteInv ==
  /\ TypeOK /\ LiveIsStored
  /\ Known /\ Fetched /\ Numbers /\ Own /\ Gone /\ ParkedIsSaved
  /\ \A d \in sends : d.prompt \notin DOMAIN taken => OnItsWay(d)

-----------------------------------------------------------------------------
(* What follows for a prompt that only moves.                               *)

LEMMA NowhereKept ==
  ASSUME NEW p, Moves(p), \A b, y : ~At(p, b, y)
  PROVE  \A b, y : ~At(p, b, y)'
BY DEF Moves

LEMMA SessionKept ==
  ASSUME NEW p, Moves(p), NEW s \in Session, \A b, y : At(p, b, y) => y = s
  PROVE  \A b, y : At(p, b, y)' => y = s
BY MobileAssumption DEF Moves

LEMMA OnePlaceKept ==
  ASSUME NEW p, Moves(p), OnePlace(p)
  PROVE  OnePlace(p)'
<1>1. \A b, c, x, y : At(p, b, x)' /\ At(p, c, y)' => b = c /\ x = y
  BY DEF Moves, OnePlace
<1>2. ASSUME p \in view'.conv.shown, NEW k \in DOMAIN parked', p \in parked'[k].shown
      PROVE  FALSE
  <2>1. PICK b, y : b = view'.backend /\ y = Key(view')
    OBVIOUS
  <2>2. At(p, b, y)' /\ At(p, b, k)'
    BY <1>2, <2>1 DEF At
  <2>3. k = Key(view')
    BY <1>1, <2>1, <2>2
  <2>4. QED
    BY <1>2, <2>3 DEF Moves, OnePlace
<1>3. QED
  BY <1>1, <1>2 DEF OnePlace

LEMMA OnlyShownKept ==
  ASSUME NEW p, Moves(p), IdentityStays, view'.gen = view.gen, OnlyShown(p), view \in View
  PROVE  OnlyShown(p)'
<1>1. view'.backend = view.backend /\ NewName = Key(view')
  BY DEF Moves, NewName, View
<1>2. Key(view) = None \/ Key(view') = Key(view)
  BY DEF IdentityStays
<1>3. \A b, y : At(p, b, y)' => b = view'.backend /\ y = Key(view')
  BY <1>1, <1>2 DEF Moves, OnlyShown
<1>4. \A k \in DOMAIN parked' : p \notin parked'[k].shown
  BY DEF Moves, OnlyShown, View
<1>5. QED
  BY <1>3, <1>4 DEF OnlyShown

LEMMA OnItsWayKept ==
  ASSUME TypeOK, IdentityStays, NEW d \in sends, OnItsWay(d), Moves(d.prompt)
  PROVE  OnItsWay(d)'
<1>1. view \in View /\ view.gen \in Nat /\ d.view \in Nat
  BY ScreenIs, SendIsTyped DEF View, SendTask
<1>2. view'.gen = view.gen \/ view'.gen = view.gen + 1
  BY DEF Moves
<1>3. (d.view <= view.gen)'
  BY <1>1, <1>2 DEF OnItsWay
<1>4. OnePlace(d.prompt)'
  BY OnePlaceKept DEF OnItsWay
<1>5. Early(d)' => OnlyShown(d.prompt)'
  <2>1. SUFFICES ASSUME Early(d)' PROVE OnlyShown(d.prompt)'
    OBVIOUS
  <2>2. view'.gen = view.gen /\ Early(d)
    BY <1>1, <1>2, <2>1 DEF Early, OnItsWay
  <2>3. QED
    BY <1>1, <2>2, OnlyShownKept DEF OnItsWay
<1>6. d.pc = "submit" => \A b, y : At(d.prompt, b, y)' => y = d.session
  BY SessionKept, SendIsTyped DEF OnItsWay
<1>7. /\ d.live # None /\ d.stored # None => d.live = d.stored
      /\ d.pc \in {"attach", "submit"} /\ d.live # None => d.session = d.live
  BY DEF OnItsWay
<1>8. QED
  BY <1>3, <1>4, <1>5, <1>6, <1>7 DEF OnItsWay

(* A step in which a prompt only moves, or is one an agent has and is shown *)
(* where it belongs.                                                        *)
Quiet ==
  \A p : Moves(p) \/ (p \in DOMAIN taken /\ \A b, y : At(p, b, y)' => y = taken[p])

LEMMA QuietKeeps ==
  ASSUME RouteInv, IdentityStays, Quiet
  PROVE  /\ \A p, b, y : At(p, b, y)' => p \in 1 .. prompt
         /\ \A p \in DOMAIN taken : \A b, y : At(p, b, y)' => y = taken[p]
         /\ \A p \in restored \ DOMAIN taken : \A b, y : ~At(p, b, y)'
         /\ \A d \in sends : d.prompt \notin DOMAIN taken => OnItsWay(d)'
<1>1. \A p, b, y : At(p, b, y)' => p \in 1 .. prompt
  BY DEF Quiet, Moves, RouteInv, Known, TypeOK, HistoryTypeOK
<1>2. \A p \in DOMAIN taken : \A b, y : At(p, b, y)' => y = taken[p]
  BY SessionKept DEF Quiet, RouteInv, Own, TypeOK, HistoryTypeOK
<1>3. \A p \in restored \ DOMAIN taken : \A b, y : ~At(p, b, y)'
  BY NowhereKept DEF Quiet, RouteInv, Gone
<1>4. \A d \in sends : d.prompt \notin DOMAIN taken => OnItsWay(d)'
  BY OnItsWayKept DEF Quiet, RouteInv
<1>5. QED
  BY <1>1, <1>2, <1>3, <1>4

LEMMA MovesQuiet ==
  ASSUME \A p : Moves(p)
  PROVE  Quiet
BY DEF Quiet

(* ... and nobody sends.                                                    *)
LEMMA QuietStep ==
  ASSUME RouteInv, IdentityStays, Quiet, TypeOK', Fetched', ParkedIsSaved',
         UNCHANGED <<sends, taken, restored, prompt>>
  PROVE  RouteInv'
BY QuietKeeps DEF RouteInv, Known, Own, Gone, Numbers, IdentityStays

LEMMA SameQuiet ==
  ASSUME RouteInv, UNCHANGED screen
  PROVE  Quiet /\ ParkedIsSaved'
<1>1. \A p : Moves(p)
  BY SameMoves DEF RouteInv
<1>2. QED
  BY <1>1, MovesQuiet, SameSaved DEF RouteInv

(* The spinner stops, and nothing else.                                     *)
LEMMA FinishQuiet ==
  ASSUME RouteInv, IdentityStays, Shows(FinishTurn)
  PROVE  Quiet /\ ParkedIsSaved'
<1>1. TypeOK /\ FinishTurn \in View
  BY FinishTyped DEF RouteInv
<1>2. /\ FinishTurn.gen = view.gen /\ FinishTurn.backend = view.backend
      /\ FinishTurn.conv.shown = view.conv.shown
  BY <1>1, ScreenIs DEF FinishTurn, View, Conversation
<1>3. \A p : Moves(p)
  BY <1>1, <1>2, ShowsMoves
<1>4. QED
  BY <1>1, <1>3, MovesQuiet, ShowsSaved

LEMMA FinishesQuiet ==
  ASSUME RouteInv, IdentityStays, FinishesTurn
  PROVE  Quiet /\ ParkedIsSaved'
BY FinishQuiet, SameQuiet DEF FinishesTurn

LEMMA IdsQuiet ==
  ASSUME RouteInv, IdentityStays, UNCHANGED <<parked, archive>>, view'.gen = view.gen,
         view'.backend = view.backend, view'.conv = view.conv
  PROVE  Quiet /\ ParkedIsSaved'
<1>1. \A p : Moves(p)
  BY IdsMoves DEF RouteInv
<1>2. QED
  BY <1>1, MovesQuiet, IdsSaved DEF RouteInv

(* A history is shown in the session it is of.                              *)
LEMMA MergesQuiet ==
  ASSUME RouteInv, IdentityStays, NEW got \in SUBSET Nat, Merges(got),
         \A p \in got : p \in DOMAIN taken /\ taken[p] = Key(view)
  PROVE  Quiet /\ ParkedIsSaved'
<1> DEFINE v == [view EXCEPT !.conv.shown = got]
<1>1. TypeOK /\ view \in View
  BY ScreenIs DEF RouteInv
<1>2. /\ v \in View /\ v.gen = view.gen /\ v.backend = view.backend /\ v.conv.shown = got
      /\ Key(v) = Key(view)
  BY <1>1 DEF View, Conversation, Key
<1>3. Shows(v)
  BY DEF Merges
<1> HIDE DEF v
<1>4. ParkedIsSaved'
  BY <1>1, <1>2, <1>3, ShowsSaved
<1>5. ASSUME NEW p
      PROVE  Moves(p) \/ (p \in DOMAIN taken /\ \A b, y : At(p, b, y)' => y = taken[p])
  <2>1. CASE p \notin got
    <3>1. v.gen = view.gen /\ v.backend = view.backend /\ p \notin v.conv.shown
      BY <1>2, <2>1
    <3>2. QED
      BY <1>1, <1>2, <1>3, <3>1, ShowsMoves
  <2>2. CASE p \in got
    <3>1. p \in DOMAIN taken /\ taken[p] = Key(view) /\ \A b, y : At(p, b, y) => y = taken[p]
      BY <2>2 DEF RouteInv, Own
    <3>2. ASSUME NEW b, NEW y, At(p, b, y)'
          PROVE  y = taken[p]
      <4>1. view' = v /\ archive' = Recorded(v, parked) /\ parked' = parked
        BY <1>3 DEF Shows
      <4>2. CASE y = Key(v)
        BY <1>2, <3>1, <4>2
      <4>3. CASE b = v.backend /\ y \in DOMAIN parked /\ p \in parked[y].shown
        BY <1>2, <3>1, <4>3 DEF At
      <4>4. CASE <<b, y>> \in DOMAIN Recorded(v, parked) /\ p \in Recorded(v, parked)[<<b, y>>]
        <5>1. \/ y = Key(v)
              \/ b = v.backend /\ y \in DOMAIN parked /\ p \in parked[y].shown
              \/ <<b, y>> \in DOMAIN archive /\ p \in archive[<<b, y>>]
          BY <1>1, <1>2, <4>4, RecordedIs
        <5>2. QED
          BY <3>1, <4>2, <4>3, <5>1 DEF At
      <4>5. QED
        BY <3>2, <4>1, <4>2, <4>3, <4>4 DEF At
    <3>3. QED
      BY <3>1, <3>2
  <2>3. QED
    BY <2>1, <2>2
<1>6. QED
  BY <1>4, <1>5 DEF Quiet

LEMMA SwitchQuiet ==
  ASSUME RouteInv, NEW s \in Session \cup {None}, NEW k, k = view.backend \/ s = None,
         SwitchesTo(s, k)
  PROVE  Quiet /\ ParkedIsSaved'
<1>1. TypeOK /\ ParkedIsSaved
  BY DEF RouteInv
<1>2. Quiet
  <2>1. \A p : Moves(p)
    BY <1>1, SwitchMoves
  <2>2. QED
    BY <2>1, MovesQuiet
<1>3. CASE k = view.backend
  BY <1>1, <1>2, <1>3, SwitchKeeps
<1>4. CASE k # view.backend
  BY <1>2, <1>4, LeavingSaved
<1>5. QED
  BY <1>3, <1>4

-----------------------------------------------------------------------------
(* The steps.                                                               *)

LEMMA FetchedKept ==
  ASSUME Fetched, UNCHANGED taken,
         \A t \in opens' \cup catchups' : t \in opens \cup catchups \/ Theirs(t)
  PROVE  Fetched'
BY DEF Fetched, Theirs

LEMMA HistoriesTheirs ==
  ASSUME NEW s, NEW got \in Histories(s)
  PROVE  \A p \in got : p \in DOMAIN taken /\ taken[p] = s
BY DEF Histories

(* The steps that leave the screen, what is fetched and what is sent alone. *)
LEMMA ElsewhereRouted ==
  ASSUME RouteInv, IdentityStays, TypeOK',
         UNCHANGED <<screen, opens, catchups, sends, taken, restored, prompt>>
  PROVE  RouteInv'
<1>1. Quiet /\ ParkedIsSaved'
  BY SameQuiet
<1>2. Fetched'
  BY DEF RouteInv, Fetched, Theirs
<1>3. QED
  BY <1>1, <1>2, QuietStep

LEMMA PumpNextRouted ==
  ASSUME RouteInv, IdentityStays, TypeOK', PumpNext
  PROVE  RouteInv'
<1>1. TypeOK /\ Fetched
  BY DEF RouteInv
<1>2. UNCHANGED <<sends, taken, restored, prompt>>
  BY DEF PumpNext, pumpOnly, PumpAttempts, PumpCloses, PumpProbes, PumpConnects,
         PumpReportsFailure, PumpSleeps, PumpUp, PumpResumes, PumpResumed, PumpReady, PumpDrains,
         PumpLosesStream
<1>3. PICK p \in pumps :
        \/ PumpAttempts(p) \/ PumpCloses(p) \/ PumpProbes(p) \/ PumpConnects(p)
        \/ PumpReportsFailure(p) \/ PumpSleeps(p) \/ PumpUp(p) \/ PumpResumes(p)
        \/ PumpResumed(p) \/ PumpReady(p) \/ PumpDrains(p) \/ PumpLosesStream(p)
  BY DEF PumpNext
<1>4. CASE \/ PumpAttempts(p) \/ PumpCloses(p) \/ PumpProbes(p) \/ PumpConnects(p)
           \/ PumpReportsFailure(p) \/ PumpSleeps(p) \/ PumpReady(p)
  BY <1>2, <1>4, ElsewhereRouted
     DEF pumpOnly, PumpAttempts, PumpCloses, PumpProbes, PumpConnects, PumpReportsFailure,
         PumpSleeps, PumpReady
<1>5. CASE PumpUp(p)
  <2>1. UNCHANGED screen /\ catchups' = catchups /\ opens' \subseteq opens \cup {OpenBy(p)}
    BY <1>5 DEF PumpUp
  <2>2. Theirs(OpenBy(p))
    BY DEF Theirs, OpenBy
  <2>3. Fetched'
    BY <1>1, <1>2, <2>1, <2>2, FetchedKept
  <2>4. QED
    BY <1>2, <2>1, <2>3, SameQuiet, QuietStep
<1>6. CASE PumpResumes(p)
  <2>1. /\ UNCHANGED screen /\ opens' = opens
        /\ catchups' \subseteq catchups \cup {CatchupOf(p.session, p.inst, p.gen)}
    BY <1>6 DEF PumpResumes
  <2>2. Theirs(CatchupOf(p.session, p.inst, p.gen))
    BY DEF Theirs, CatchupOf
  <2>3. Fetched'
    BY <1>1, <1>2, <2>1, <2>2, FetchedKept
  <2>4. QED
    BY <1>2, <2>1, <2>3, SameQuiet, QuietStep
<1>7. CASE PumpResumed(p)
  <2>1. /\ view' = [view EXCEPT !.live = p.session]
        /\ UNCHANGED <<parked, archive>> /\ opens' = opens
        /\ catchups' \subseteq catchups \cup {CatchupOf(p.session, p.inst, p.gen)}
    BY <1>7 DEF PumpResumed
  <2>2. Theirs(CatchupOf(p.session, p.inst, p.gen))
    BY DEF Theirs, CatchupOf
  <2>3. Fetched'
    BY <1>1, <1>2, <2>1, <2>2, FetchedKept
  <2>4. view'.gen = view.gen /\ view'.backend = view.backend /\ view'.conv = view.conv
    BY <1>1, <2>1, ScreenIs DEF View
  <2>5. QED
    BY <1>2, <2>1, <2>3, <2>4, IdsQuiet, QuietStep
<1>8. CASE PumpDrains(p)
  <2>1. UNCHANGED <<opens, catchups>> /\ (UNCHANGED screen \/ Applies(Head(p.inbox)))
    BY <1>8 DEF PumpDrains
  <2>2. Fetched'
    BY <1>1, <1>2, <2>1, FetchedKept
  <2>3. CASE UNCHANGED screen
    BY <1>2, <2>2, <2>3, SameQuiet, QuietStep
  <2>4. CASE Applies(Head(p.inbox))
    <3>1. CASE Shows(FinishTurn) \/ FinishesTurn
      BY <1>2, <2>2, <3>1, FinishQuiet, FinishesQuiet, QuietStep
    <3>2. CASE UNCHANGED <<parked, archive>> /\ view' = [view EXCEPT !.live = Head(p.inbox)]
      <4>1. view'.gen = view.gen /\ view'.backend = view.backend /\ view'.conv = view.conv
        BY <1>1, <3>2, ScreenIs DEF View
      <4>2. QED
        BY <1>2, <2>2, <3>2, <4>1, IdsQuiet, QuietStep
    <3>3. QED
      BY <2>3, <2>4, <3>1, <3>2 DEF Applies
  <2>5. QED
    BY <2>1, <2>3, <2>4
<1>9. CASE PumpLosesStream(p)
  <2>1. UNCHANGED <<opens, catchups>> /\ (UNCHANGED screen \/ FinishesTurn)
    BY <1>9 DEF PumpLosesStream, EndsTurn
  <2>2. Fetched'
    BY <1>1, <1>2, <2>1, FetchedKept
  <2>3. QED
    BY <1>2, <2>1, <2>2, SameQuiet, FinishesQuiet, QuietStep
<1>10. QED
  BY <1>3, <1>4, <1>5, <1>6, <1>7, <1>8, <1>9

(* An opening after it goes on: what it fetched is still what it was.       *)
LEMMA OpenGoesTheirs ==
  ASSUME RouteInv, NEW o \in opens, NEW pc, OpenGoes(o, pc) \/ OpenEnds(o),
         UNCHANGED <<catchups, taken>>
  PROVE  Fetched'
<1> DEFINE q == [o EXCEPT !.pc = pc]
<1>1. Fetched /\ o \in OpenTask
  BY OpenIsTyped DEF RouteInv
<1>2. q.got = o.got /\ q.session = o.session
  BY <1>1 DEF OpenTask
<1>3. opens' \subseteq opens \cup {q}
  BY DEF OpenGoes, OpenBecomes, OpenEnds
<1> HIDE DEF q
<1>4. Theirs(q)
  BY <1>1, <1>2 DEF Fetched, Theirs
<1>5. QED
  BY <1>1, <1>3, <1>4, FetchedKept

LEMMA OpenNextRouted ==
  ASSUME RouteInv, IdentityStays, TypeOK', OpenNext
  PROVE  RouteInv'
<1>1. TypeOK /\ Fetched
  BY DEF RouteInv
<1>2. UNCHANGED <<catchups, sends, taken, restored, prompt>>
  BY DEF OpenNext, OpenSwitches, OpenFetches, OpenMerges, OpenResumes, OpenResumed, OpenUnscopes
<1>3. PICK o \in opens : \/ OpenSwitches(o) \/ OpenFetches(o) \/ OpenMerges(o) \/ OpenResumes(o)
                       \/ OpenResumed(o) \/ OpenUnscopes(o)
  BY DEF OpenNext
<1>4. o \in OpenTask /\ Theirs(o)
  BY <1>1, OpenIsTyped DEF Fetched
<1>5. CASE OpenSwitches(o)
  <2> DEFINE q == [o EXCEPT !.pc = "history", !.view = view.gen + 1]
  <2>1. q.got = o.got /\ q.session = o.session
    BY <1>4 DEF OpenTask
  <2>2. opens' \subseteq opens \cup {q}
    BY <1>5 DEF OpenSwitches, OpenBecomes
  <2> HIDE DEF q
  <2>3. Fetched'
    <3>1. Theirs(q)
      BY <1>4, <2>1 DEF Theirs
    <3>2. QED
      BY <1>1, <1>2, <2>2, <3>1, FetchedKept
  <2>4. Quiet /\ ParkedIsSaved'
    BY <1>4, <1>5, SwitchQuiet DEF OpenSwitches, OpenTask
  <2>5. QED
    BY <1>2, <2>3, <2>4, QuietStep
<1>6. CASE OpenFetches(o)
  <2>1. UNCHANGED screen
    BY <1>6 DEF OpenFetches
  <2>2. Fetched'
    <3>1. CASE OpenGoes(o, "resume")
      BY <1>2, <3>1, OpenGoesTheirs
    <3>2. CASE \E got \in Histories(o.session) :
                 OpenBecomes(o, [o EXCEPT !.pc = "merge", !.got = got])
      <4>1. PICK got \in Histories(o.session) :
                   OpenBecomes(o, [o EXCEPT !.pc = "merge", !.got = got])
        BY <3>2
      <4> DEFINE q == [o EXCEPT !.pc = "merge", !.got = got]
      <4>2. q.got = got /\ q.session = o.session
        BY <1>4 DEF OpenTask
      <4>3. opens' \subseteq opens \cup {q}
        BY <4>1 DEF OpenBecomes
      <4> HIDE DEF q
      <4>4. Theirs(q)
        BY <4>2, HistoriesTheirs DEF Theirs
      <4>5. QED
        BY <1>1, <1>2, <4>3, <4>4, FetchedKept
    <3>3. QED
      BY <1>6, <3>1, <3>2 DEF OpenFetches
  <2>3. QED
    BY <1>2, <2>1, <2>2, SameQuiet, QuietStep
<1>7. CASE OpenMerges(o)
  <2> DEFINE q == [o EXCEPT !.pc = "resume", !.got = {}]
  <2>1. q.got = {}
    BY <1>4 DEF OpenTask
  <2>2. opens' \subseteq opens \cup {q}
    BY <1>7 DEF OpenMerges, OpenBecomes, OpenEnds
  <2> HIDE DEF q
  <2>3. Fetched'
    <3>1. Theirs(q)
      BY <2>1 DEF Theirs
    <3>2. QED
      BY <1>1, <1>2, <2>2, <3>1, FetchedKept
  <2>4. CASE UNCHANGED screen
    BY <1>2, <2>3, <2>4, SameQuiet, QuietStep
  <2>5. CASE Merges(o.got) /\ OpenIsCurrent(o)
    <3>1. o.got \in SUBSET Nat /\ Key(view) = o.session
      BY <1>4, <2>5 DEF OpenTask, OpenIsCurrent, IsCurrent
    <3>2. \A p \in o.got : p \in DOMAIN taken /\ taken[p] = Key(view)
      BY <1>4, <3>1 DEF Theirs
    <3>3. QED
      BY <1>2, <2>3, <2>5, <3>1, <3>2, MergesQuiet, QuietStep
  <2>6. QED
    BY <1>7, <2>4, <2>5 DEF OpenMerges
<1>8. CASE OpenResumes(o)
  <2>1. UNCHANGED screen /\ (OpenGoes(o, "resumed") \/ OpenEnds(o))
    BY <1>8 DEF OpenResumes
  <2>2. QED
    BY <1>2, <2>1, OpenGoesTheirs, SameQuiet, QuietStep
<1>9. CASE OpenResumed(o)
  <2>1. /\ UNCHANGED <<parked, archive>> /\ (OpenGoes(o, "unscope") \/ OpenEnds(o))
        /\ view' = view \/ view' = [view EXCEPT !.live = o.session, !.stored = o.session]
    BY <1>9 DEF OpenResumed
  <2>2. view'.gen = view.gen /\ view'.backend = view.backend /\ view'.conv = view.conv
    BY <1>1, <2>1, ScreenIs DEF View
  <2>3. QED
    BY <1>2, <2>1, <2>2, OpenGoesTheirs, IdsQuiet, QuietStep
<1>10. CASE OpenUnscopes(o)
  <2>1. UNCHANGED screen /\ OpenEnds(o)
    BY <1>10 DEF OpenUnscopes
  <2>2. QED
    BY <1>2, <2>1, OpenGoesTheirs, SameQuiet, QuietStep
<1>11. QED
  BY <1>3, <1>5, <1>6, <1>7, <1>8, <1>9, <1>10

LEMMA CatchupNextRouted ==
  ASSUME RouteInv, IdentityStays, TypeOK', CatchupNext
  PROVE  RouteInv'
<1>1. TypeOK /\ Fetched
  BY DEF RouteInv
<1>2. UNCHANGED <<opens, sends, taken, restored, prompt>>
  BY DEF CatchupNext
<1>3. PICK c \in catchups : CatchupStarts(c) \/ CatchupFetches(c) \/ CatchupMerges(c)
  BY DEF CatchupNext
<1>4. c \in Catchup /\ Theirs(c)
  BY <1>1, CatchupIsTyped DEF Fetched
<1>5. Fetched'
  <2>1. \E q : Theirs(q) /\ catchups' \subseteq catchups \cup {q}
    <3>1. CASE CatchupEnds(c)
      BY <1>4, <3>1 DEF CatchupEnds
    <3>2. CASE CatchupBecomes(c, [c EXCEPT !.pc = "fetch"])
      BY <1>4, <3>2 DEF Catchup, CatchupBecomes, Theirs
    <3>3. CASE \E got \in Histories(c.session) :
                 CatchupBecomes(c, [c EXCEPT !.pc = "merge", !.got = got])
      <4>1. PICK got \in Histories(c.session) :
                   CatchupBecomes(c, [c EXCEPT !.pc = "merge", !.got = got])
        BY <3>3
      <4> DEFINE q == [c EXCEPT !.pc = "merge", !.got = got]
      <4>2. q.got = got /\ q.session = c.session
        BY <1>4 DEF Catchup
      <4>3. catchups' \subseteq catchups \cup {q}
        BY <4>1 DEF CatchupBecomes
      <4> HIDE DEF q
      <4>4. Theirs(q)
        BY <4>2, HistoriesTheirs DEF Theirs
      <4>5. QED
        BY <4>3, <4>4
    <3>4. QED
      BY <1>3, <3>1, <3>2, <3>3 DEF CatchupStarts, CatchupFetches, CatchupMerges
  <2>2. QED
    BY <1>1, <1>2, <2>1, FetchedKept
<1>6. CASE UNCHANGED screen
  BY <1>2, <1>5, <1>6, SameQuiet, QuietStep
<1>7. CASE Merges(c.got) /\ Key(view) = c.session
  <2>1. c.got \in SUBSET Nat /\ \A p \in c.got : p \in DOMAIN taken /\ taken[p] = Key(view)
    BY <1>4, <1>7 DEF Catchup, Theirs
  <2>2. QED
    BY <1>2, <1>5, <1>7, <2>1, MergesQuiet, QuietStep
<1>8. QED
  BY <1>3, <1>6, <1>7 DEF CatchupStarts, CatchupFetches, CatchupMerges

-----------------------------------------------------------------------------
(* Sending.                                                                 *)

LEMMA TaskGoes ==
  ASSUME RouteInv, IdentityStays, TypeOK', Quiet, ParkedIsSaved',
         UNCHANGED <<opens, catchups, taken, restored, prompt>>,
         NEW d \in sends, d.prompt \notin DOMAIN taken,
         NEW q, SendBecomes(d, q), q.prompt = d.prompt, OnItsWay(q)'
  PROVE  RouteInv'
<1>1. Fetched'
  BY FetchedKept DEF RouteInv
<1>2. \A e \in sends' : e.prompt \notin DOMAIN taken => OnItsWay(e)'
  BY QuietKeeps DEF SendBecomes
<1>3. Numbers'
  BY DEF SendBecomes, Numbers, RouteInv
<1>4. QED
  BY <1>1, <1>2, <1>3, QuietKeeps DEF RouteInv, Known, Own, Gone, IdentityStays

(* A task that goes on to something that is no submission.                  *)
LEMMA TaskStill ==
  ASSUME RouteInv, IdentityStays, TypeOK', UNCHANGED screen,
         UNCHANGED <<opens, catchups, taken, restored, prompt>>,
         NEW d \in sends, d.pc # "restore",
         NEW q, SendBecomes(d, q), q.prompt = d.prompt, q.view = d.view,
         q.live = d.live, q.stored = d.stored,
         q.pc = "attach" /\ q.live # None => q.session = q.live,
         q.pc \in {"aim", "attach"} => d.pc \in {"lock", "aim"},
         q.pc \in {"aim", "attach", "restore"}
  PROVE  RouteInv'
<1>1. Quiet /\ ParkedIsSaved'
  BY SameQuiet
<1>0. d.prompt \notin DOMAIN taken
  BY DEF RouteInv, Numbers
<1>2. OnItsWay(d)'
  BY <1>0, <1>1, QuietKeeps
<1>3. OnItsWay(q)'
  BY <1>2 DEF OnItsWay, Early
<1>4. QED
  BY <1>0, <1>1, <1>3, TaskGoes

(* A task that ends.                                                        *)
LEMMA TaskEnds ==
  ASSUME RouteInv, IdentityStays, TypeOK', Quiet, ParkedIsSaved',
         UNCHANGED <<opens, catchups, taken, prompt>>,
         NEW d \in sends, sends' = sends \ {d}, restored' \subseteq restored \cup {d.prompt},
         d.prompt \in restored' \ DOMAIN taken => \A b, y : ~At(d.prompt, b, y)'
  PROVE  RouteInv'
<1>1. Fetched'
  BY FetchedKept DEF RouteInv
<1>2. \A e \in sends' : e.prompt \notin DOMAIN taken => OnItsWay(e)'
  BY QuietKeeps
<1>3. Numbers'
  BY DEF Numbers, RouteInv
<1>4. Gone'
  BY QuietKeeps DEF Gone
<1>5. QED
  BY <1>1, <1>2, <1>3, <1>4, QuietKeeps DEF RouteInv, Known, Own, IdentityStays

LEMMA SendLocksRouted ==
  ASSUME RouteInv, IdentityStays, TypeOK', NEW d \in sends, SendLocks(d),
         UNCHANGED <<opens, catchups, prompt>>
  PROVE  RouteInv'
<1>1. d \in SendTask /\ d.pc = "lock"
  BY SendIsTyped DEF RouteInv, SendLocks, SendIs
<1>2. PICK pc \in {"aim", "restore"} : SendBecomes(d, [d EXCEPT !.pc = pc])
  BY DEF SendLocks, SendFails
<1> DEFINE q == [d EXCEPT !.pc = pc]
<1>3. /\ q.prompt = d.prompt /\ q.view = d.view /\ q.pc = pc
      /\ q.live = d.live /\ q.stored = d.stored
  BY <1>1 DEF SendTask
<1>4. SendBecomes(d, q)
  BY <1>2
<1> HIDE DEF q
<1>5. QED
  BY <1>1, <1>3, <1>4, TaskStill DEF SendLocks

LEMMA SendAimsRouted ==
  ASSUME RouteInv, IdentityStays, TypeOK', NEW d \in sends, SendAims(d),
         UNCHANGED <<opens, catchups, prompt>>
  PROVE  RouteInv'
<1>1. d \in SendTask /\ d.pc = "aim" /\ UNCHANGED screen /\ UNCHANGED <<taken, restored>>
  BY SendIsTyped DEF RouteInv, SendAims, SendIs
<1>2. PICK s : \/ /\ SendBecomes(d, [d EXCEPT !.pc = "attach", !.session = s])
                  /\ d.live # None => s = d.live
               \/ SendBecomes(d, [d EXCEPT !.pc = "restore"])
  BY DEF SendAims, SendFails, Target
<1>3. CASE /\ SendBecomes(d, [d EXCEPT !.pc = "attach", !.session = s])
           /\ d.live # None => s = d.live
  <2> DEFINE q == [d EXCEPT !.pc = "attach", !.session = s]
  <2>1. /\ q.prompt = d.prompt /\ q.view = d.view /\ q.pc = "attach"
        /\ q.live = d.live /\ q.stored = d.stored /\ q.session = s
    BY <1>1 DEF SendTask
  <2>2. SendBecomes(d, q)
    BY <1>3
  <2> HIDE DEF q
  <2>3. QED
    BY <1>1, <1>3, <2>1, <2>2, TaskStill
<1>4. CASE SendBecomes(d, [d EXCEPT !.pc = "restore"])
  <2> DEFINE q == [d EXCEPT !.pc = "restore"]
  <2>1. /\ q.prompt = d.prompt /\ q.view = d.view /\ q.pc = "restore"
        /\ q.live = d.live /\ q.stored = d.stored
    BY <1>1 DEF SendTask
  <2>2. SendBecomes(d, q)
    BY <1>4
  <2> HIDE DEF q
  <2>3. QED
    BY <1>1, <2>1, <2>2, TaskStill
<1>5. QED
  BY <1>2, <1>3, <1>4

(* The session is put on screen for the prompt typed there, and so it is in *)
(* that session's transcript.                                               *)
LEMMA SendAttachesRouted ==
  ASSUME RouteInv, IdentityStays, TypeOK', NEW d \in sends, SendAttaches(d),
         UNCHANGED <<opens, catchups, prompt>>
  PROVE  RouteInv'
<1>1. TypeOK /\ d \in SendTask /\ d.pc = "attach" /\ d.session \in Session /\ view \in View
  BY SendIsTyped, ScreenIs DEF RouteInv, SendAttaches, SendIs
<1>0. d.prompt \notin DOMAIN taken /\ OnItsWay(d)
  BY <1>1 DEF RouteInv, Numbers
<1>2. CASE ~CheckView(d)
  <2> DEFINE q == [d EXCEPT !.pc = "restore"]
  <2>1. /\ q.prompt = d.prompt /\ q.view = d.view /\ q.pc = "restore"
        /\ q.live = d.live /\ q.stored = d.stored
    BY <1>1 DEF SendTask
  <2>2. SendBecomes(d, q) /\ UNCHANGED screen
    BY <1>2 DEF SendAttaches, SendFails
  <2> HIDE DEF q
  <2>3. QED
    BY <1>1, <2>1, <2>2, TaskStill DEF SendAttaches
<1>3. CASE CheckView(d)
  <2> DEFINE q == [d EXCEPT !.pc = "submit"]
             v == [view EXCEPT !.live = d.session, !.stored = StoredAs(d)]
  <2>0. StoredAs(d) = d.session
    BY <1>0, <1>1 DEF OnItsWay, StoredAs
  <2>1. /\ q.prompt = d.prompt /\ q.view = d.view /\ q.pc = "submit" /\ q.session = d.session
        /\ q.live = d.live /\ q.stored = d.stored
    BY <1>1 DEF SendTask
  <2>2. SendBecomes(d, q) /\ Shows(v)
    BY <1>3 DEF SendAttaches
  <2>3. /\ v \in View /\ v.gen = view.gen /\ v.backend = view.backend /\ v.conv = view.conv
        /\ Key(v) = d.session
    BY <1>1, <2>0, MobileAssumption DEF View, Key
  <2> HIDE DEF q, v
  <2>4. \A p : Moves(p)
    BY <1>1, <2>2, <2>3, ShowsMoves
  <2>5. Quiet /\ ParkedIsSaved'
    BY <1>1, <2>2, <2>3, <2>4, MovesQuiet, ShowsSaved
  <2>6. view'.gen = view.gen /\ Key(view') = d.session
    BY <2>2, <2>3 DEF Shows
  <2>7. OnlyShown(d.prompt)
    BY <1>0, <1>1, <1>3 DEF OnItsWay, Early, CheckView
  <2>8. OnlyShown(d.prompt)'
    BY <1>1, <2>4, <2>6, <2>7, OnlyShownKept
  <2>9. \A b, y : At(d.prompt, b, y)' => y = d.session
    BY <2>6, <2>8 DEF OnlyShown
  <2>10. OnItsWay(d)'
    BY <1>0, <2>5, QuietKeeps
  <2>11. OnItsWay(q)'
    BY <1>1, <2>1, <2>9, <2>10 DEF OnItsWay, Early
  <2>12. QED
    BY <1>0, <2>1, <2>2, <2>5, <2>11, TaskGoes DEF SendAttaches
<1>4. QED
  BY <1>2, <1>3

LEMMA SendSubmitsRouted ==
  ASSUME RouteInv, IdentityStays, TypeOK', NEW d \in sends, SendSubmits(d),
         UNCHANGED <<opens, catchups, prompt>>
  PROVE  RouteInv'
<1>1. TypeOK /\ d \in SendTask /\ d.pc = "submit" /\ UNCHANGED screen /\ UNCHANGED restored
  BY SendIsTyped DEF RouteInv, SendSubmits, SendIs
<1>2. d.prompt \notin DOMAIN taken /\ d.prompt \notin restored /\ OnItsWay(d)
  BY <1>1 DEF RouteInv, Numbers
<1> DEFINE q == [d EXCEPT !.pc = "restore"]
<1>3. /\ q.prompt = d.prompt /\ q.view = d.view /\ q.pc = "restore"
      /\ q.live = d.live /\ q.stored = d.stored
  BY <1>1 DEF SendTask
<1>4. SendFails(d) => SendBecomes(d, q)
  BY DEF SendFails
<1> HIDE DEF q
<1>5. CASE SendFails(d) /\ UNCHANGED agents
  BY <1>1, <1>3, <1>4, <1>5, TaskStill DEF agents
<1>6. CASE /\ Takes(d)
           /\ sends' = sends \ {d} \/ SendBecomes(d, q)
  <2>1. Quiet /\ ParkedIsSaved'
    BY <1>1, SameQuiet
  <2>2. /\ DOMAIN taken' = DOMAIN taken \cup {d.prompt}
        /\ taken'[d.prompt] = d.session /\ \A p \in DOMAIN taken : taken'[p] = taken[p]
    BY <1>2, <1>6 DEF Takes
  <2>3. Fetched'
    BY <2>2 DEF RouteInv, Fetched, Theirs
  <2>4. Numbers'
    BY <1>1, <1>2, <1>3, <1>6, <2>2 DEF RouteInv, Numbers, SendBecomes
  <2>5. Own'
    <3>1. \A b, y : At(d.prompt, b, y)' => y = d.session
      BY <1>1, <1>2, <2>1, QuietKeeps DEF OnItsWay
    <3>2. QED
      BY <2>1, <2>2, <3>1, QuietKeeps DEF Own
  <2>6. \A e \in sends' : e.prompt \notin DOMAIN taken' => OnItsWay(e)'
    BY <1>3, <1>6, <2>1, <2>2, QuietKeeps DEF SendBecomes
  <2>7. Gone'
    BY <1>1, <2>1, <2>2, QuietKeeps DEF Gone
  <2>8. QED
    BY <1>1, <2>1, <2>3, <2>4, <2>5, <2>6, <2>7, QuietKeeps
       DEF RouteInv, Known, IdentityStays
<1>7. QED
  BY <1>4, <1>5, <1>6 DEF SendSubmits

(* What is taken out of the one place it is in is nowhere; what an agent    *)
(* has may come back with a history.                                        *)
LEMMA SendRestoresRouted ==
  ASSUME RouteInv, IdentityStays, TypeOK', NEW d \in sends, SendRestores(d),
         UNCHANGED <<opens, catchups, prompt>>
  PROVE  RouteInv'
<1> DEFINE p == d.prompt
<1>1. /\ TypeOK /\ view \in View /\ view.conv \in Conversation
      /\ sends' = sends \ {d} /\ UNCHANGED taken
  BY ScreenIs DEF RouteInv, SendRestores, View
<1>2. p \notin DOMAIN taken => OnePlace(p)
  BY DEF RouteInv, OnItsWay
<1>3. CASE /\ p \in view.conv.shown
           /\ Shows([view EXCEPT !.conv = TakenOut(@, p)])
           /\ restored' = restored \cup {p}
  <2> DEFINE v == [view EXCEPT !.conv = TakenOut(@, p)]
  <2>1. /\ v \in View /\ v.gen = view.gen /\ v.backend = view.backend /\ Key(v) = Key(view)
        /\ v.conv.shown = view.conv.shown \ {p}
    BY <1>1, <1>3, TakenOutTyped DEF View, Key, TakenOut
  <2>2. Shows(v)
    BY <1>3
  <2> HIDE DEF v
  <2>3. \A q : Moves(q)
    BY <1>1, <2>1, <2>2, ShowsMoves
  <2>4. Quiet /\ ParkedIsSaved'
    BY <1>1, <2>1, <2>2, <2>3, MovesQuiet, ShowsSaved
  <2>5. ASSUME p \notin DOMAIN taken, NEW b, NEW y, At(p, b, y)' PROVE FALSE
    <3>1. view' = v /\ parked' = parked /\ archive' = Recorded(v, parked)
      BY <2>2 DEF Shows
    <3>2. \A k \in DOMAIN parked : p \notin parked[k].shown
      BY <1>2, <1>3, <2>5 DEF OnePlace
    <3>3. <<b, y>> \in DOMAIN Recorded(v, parked) /\ p \in Recorded(v, parked)[<<b, y>>]
      BY <2>1, <2>5, <3>1, <3>2 DEF At
    <3>4. <<b, y>> \in DOMAIN archive /\ p \in archive[<<b, y>>]
      BY <1>1, <2>1, <3>2, <3>3, RecordedIs
    <3>5. At(p, b, y) /\ At(p, view.backend, Key(view))
      BY <1>3, <3>4 DEF At
    <3>6. b = v.backend /\ y = Key(v)
      BY <1>2, <2>1, <2>5, <3>5 DEF OnePlace
    <3>7. Recorded(v, parked)[<<b, y>>] = v.conv.shown
      BY <3>4, <3>6 DEF Recorded
    <3>8. QED
      BY <2>1, <3>3, <3>7
  <2>6. QED
    BY <1>1, <1>3, <2>4, <2>5, TaskEnds
<1>4. CASE /\ p \notin view.conv.shown
           /\ \E k \in DOMAIN parked :
                /\ p \in parked[k].shown
                /\ parked' = [parked EXCEPT ![k] = TakenOut(@, p)]
                /\ archive' = Recorded(view, parked')
           /\ restored' = restored \cup {p}
           /\ UNCHANGED view
  <2>1. PICK k \in DOMAIN parked : /\ p \in parked[k].shown
                                  /\ parked' = [parked EXCEPT ![k] = TakenOut(@, p)]
                                  /\ archive' = Recorded(view, parked')
    BY <1>4
  <2>2. \A q : Moves(q)
    BY <1>1, <1>4, <2>1, TakingOutMoves
  <2>3. Quiet /\ ParkedIsSaved'
    BY <1>1, <1>4, <2>1, <2>2, MovesQuiet, TakingOutSaved
  <2>4. At(p, view.backend, k)
    BY <2>1 DEF At
  <2>5. p \notin DOMAIN taken => \A j \in DOMAIN parked : p \in parked[j].shown => j = k
    BY <1>2, <2>4 DEF At, OnePlace
  <2>6. /\ DOMAIN parked' = DOMAIN parked /\ p \notin parked'[k].shown
        /\ p \notin DOMAIN taken => \A j \in DOMAIN parked' : p \notin parked'[j].shown
    BY <2>1, <2>5 DEF TakenOut
  <2>7. ASSUME p \notin DOMAIN taken, NEW b, NEW y, At(p, b, y)' PROVE FALSE
    <3>1. /\ <<b, y>> \in DOMAIN Recorded(view, parked')
          /\ p \in Recorded(view, parked')[<<b, y>>]
      BY <1>4, <2>1, <2>6, <2>7 DEF At
    <3>2. <<b, y>> \in DOMAIN archive /\ p \in archive[<<b, y>>]
      BY <1>1, <1>4, <2>6, <2>7, <3>1, RecordedIs
    <3>3. b = view.backend /\ y = k
      BY <1>2, <2>4, <2>7, <3>2 DEF At, OnePlace
    <3>4. \/ Recorded(view, parked')[<<b, y>>] = view.conv.shown
          \/ Recorded(view, parked')[<<b, y>>] = parked'[k].shown
      BY <2>6, <3>2, <3>3 DEF Recorded
    <3>5. QED
      BY <1>4, <2>6, <3>1, <3>4
  <2>8. QED
    BY <1>1, <1>4, <2>3, <2>7, TaskEnds
<1>5. CASE UNCHANGED <<screen, restored>>
  <2>1. Quiet /\ ParkedIsSaved'
    BY <1>5, SameQuiet
  <2>2. p \notin restored
    BY DEF RouteInv, Numbers
  <2>3. QED
    BY <1>1, <1>5, <2>1, <2>2, TaskEnds
<1>6. QED
  BY <1>3, <1>4, <1>5 DEF SendRestores

LEMMA SendNextRouted ==
  ASSUME RouteInv, IdentityStays, TypeOK', SendNext
  PROVE  RouteInv'
BY SendLocksRouted, SendAimsRouted, SendAttachesRouted, SendSubmitsRouted, SendRestoresRouted
   DEF SendNext

-----------------------------------------------------------------------------
(* Dart's commands, the agents and the network.                             *)

LEMMA ConfiguresRouted ==
  ASSUME RouteInv, IdentityStays, TypeOK', NEW k \in Kind, Configures(k)
  PROVE  RouteInv'
<1>1. UNCHANGED <<opens, catchups, sends, taken, restored, prompt>>
  BY DEF Configures
<1>2. Fetched'
  BY <1>1 DEF RouteInv, Fetched, Theirs
<1>3. Quiet /\ ParkedIsSaved'
  BY SameQuiet, SwitchQuiet DEF Configures
<1>4. QED
  BY <1>1, <1>2, <1>3, QuietStep

LEMMA RefreshRouted ==
  ASSUME RouteInv, IdentityStays, TypeOK', Refresh
  PROVE  RouteInv'
<1>1. PICK i : catchups' = catchups \cup {CatchupOf(view.stored, i, 0)}
  BY DEF Refresh
<1>2. UNCHANGED <<screen, opens, sends, taken, restored, prompt>>
  BY DEF Refresh
<1>3. Theirs(CatchupOf(view.stored, i, 0))
  BY DEF Theirs, CatchupOf
<1>4. Fetched'
  BY <1>1, <1>2, <1>3, FetchedKept DEF RouteInv
<1>5. QED
  BY <1>2, <1>4, SameQuiet, QuietStep

LEMMA OpenSessionRouted ==
  ASSUME RouteInv, IdentityStays, TypeOK', NEW s \in Session, OpenSession(s)
  PROVE  RouteInv'
<1>1. PICK o : o.got = {} /\ opens' = opens \cup {o}
  BY DEF OpenSession
<1>2. UNCHANGED <<screen, catchups, sends, taken, restored, prompt>>
  BY DEF OpenSession
<1>3. Theirs(o)
  BY <1>1 DEF Theirs
<1>4. Fetched'
  BY <1>1, <1>2, <1>3, FetchedKept DEF RouteInv
<1>5. QED
  BY <1>2, <1>4, SameQuiet, QuietStep

LEMMA NewSessionRouted ==
  ASSUME RouteInv, IdentityStays, TypeOK', NewSession
  PROVE  RouteInv'
<1>1. UNCHANGED <<opens, catchups, sends, taken, restored, prompt>>
  BY DEF NewSession
<1>2. Fetched'
  BY <1>1 DEF RouteInv, Fetched, Theirs
<1>3. Quiet /\ ParkedIsSaved'
  BY SwitchQuiet DEF NewSession
<1>4. QED
  BY <1>1, <1>2, <1>3, QuietStep

LEMMA InterruptRouted ==
  ASSUME RouteInv, IdentityStays, TypeOK', Interrupt
  PROVE  RouteInv'
<1>1. UNCHANGED <<opens, catchups, sends, taken, restored, prompt>>
  BY DEF Interrupt
<1>2. Fetched'
  BY <1>1 DEF RouteInv, Fetched, Theirs
<1>3. Quiet /\ ParkedIsSaved'
  BY FinishQuiet DEF Interrupt
<1>4. QED
  BY <1>1, <1>2, <1>3, QuietStep

(* A prompt is typed: it is nowhere else.                                   *)
LEMMA SendRouted ==
  ASSUME RouteInv, IdentityStays, TypeOK', Send
  PROVE  RouteInv'
<1>n. PICK n : n = prompt + 1
  OBVIOUS
<1> DEFINE c == [shown |-> view.conv.shown \cup {n}, sending |-> TRUE]
           v == [view EXCEPT !.conv = c]
<1>1. /\ TypeOK /\ view \in View /\ prompt \in Nat /\ prompt' = n
      /\ UNCHANGED <<opens, catchups, taken, restored>> /\ Shows(v)
  BY <1>n, ScreenIs DEF RouteInv, Send, TypeOK, HistoryTypeOK
<1>2. /\ n \notin DOMAIN taken /\ n \notin restored /\ (\A e \in sends : e.prompt # n)
      /\ \A b, y : ~At(n, b, y)
  <2>1. n \notin 1 .. prompt
    BY <1>n, <1>1
  <2>2. DOMAIN taken \subseteq 1 .. prompt /\ restored \subseteq 1 .. prompt
    BY <1>1 DEF TypeOK, HistoryTypeOK
  <2>3. \A e \in sends : e.prompt \in 1 .. prompt
    BY <1>1, SendIsTyped
  <2>4. \A b, y : ~At(n, b, y)
    BY <2>1 DEF RouteInv, Known
  <2>5. QED
    BY <2>1, <2>2, <2>3, <2>4
<1>3. /\ v.gen = view.gen /\ v.backend = view.backend /\ Key(v) = Key(view)
      /\ v.conv.shown = view.conv.shown \cup {n} /\ v \in View
  <2>1. c \in Conversation
    BY <1>n, <1>1 DEF View, Conversation
  <2>2. c.shown = view.conv.shown \cup {n}
    OBVIOUS
  <2> HIDE DEF c
  <2>3. QED
    BY <1>1, <2>1, <2>2 DEF View, Key
<1>4. PICK d : /\ d.prompt = n /\ d.view = view.gen /\ d.pc = "lock"
               /\ d.live = view.live /\ d.stored = view.stored
               /\ sends' = sends \cup {d}
  BY <1>n DEF Send
<1> HIDE DEF c, v
<1>5. d.prompt = n /\ d.view = view.gen /\ d.pc = "lock" /\ sends' = sends \cup {d}
  BY <1>4
<1>6. view' = v /\ parked' = parked /\ archive' = Recorded(v, parked)
  BY <1>1 DEF Shows
<1>7. \A p : p # n => Moves(p)
  BY <1>1, <1>3, ShowsMoves
<1>8. ParkedIsSaved'
  BY <1>1, <1>3, ShowsSaved
<1>9. Fetched'
  BY <1>1, FetchedKept DEF RouteInv
<1>10. \A b, y : At(n, b, y)' => b = view'.backend /\ y = Key(view')
  <2>1. SUFFICES ASSUME NEW b, NEW y, At(n, b, y)'
                 PROVE  b = v.backend /\ y = Key(v)
    BY <1>6
  <2>2. \A k \in DOMAIN parked : n \notin parked[k].shown
    BY <1>2 DEF At
  <2>3. CASE <<b, y>> \in DOMAIN Recorded(v, parked) /\ n \in Recorded(v, parked)[<<b, y>>]
    <3>1. \/ <<b, y>> \in DOMAIN archive /\ n \in archive[<<b, y>>]
          \/ b = v.backend /\ y = Key(v)
      BY <1>1, <1>3, <2>2, <2>3, RecordedIs
    <3>2. QED
      BY <1>2, <3>1 DEF At
  <2>4. QED
    BY <1>6, <2>1, <2>2, <2>3 DEF At
<1>11. OnlyShown(n)'
  BY <1>2, <1>6, <1>10 DEF OnlyShown, At
<1>12. OnItsWay(d)'
  <2>1. (d.view <= view.gen)'
    BY <1>1, <1>3, <1>5, <1>6 DEF View
  <2>2. OnePlace(n)'
    BY <1>11 DEF OnlyShown, OnePlace
  <2>3. d.live # None /\ d.stored # None => d.live = d.stored
    BY <1>4 DEF RouteInv, LiveIsStored
  <2>4. QED
    BY <1>5, <1>11, <2>1, <2>2, <2>3 DEF OnItsWay, Early
<1>13. \A e \in sends : e.prompt \notin DOMAIN taken => OnItsWay(e)'
  BY <1>1, <1>2, <1>7, OnItsWayKept DEF RouteInv
<1>14. Own'
  BY <1>1, <1>2, <1>7, SessionKept DEF Own, RouteInv, TypeOK, HistoryTypeOK
<1>15. Gone'
  BY <1>1, <1>2, <1>7, NowhereKept DEF Gone, RouteInv
<1>16. Numbers'
  BY <1>1, <1>2, <1>5 DEF Numbers, RouteInv
<1>17. Known'
  <2>1. SUFFICES ASSUME NEW p, NEW b, NEW y, At(p, b, y)'
                 PROVE  p \in 1 .. n
    BY <1>1 DEF Known
  <2>2. CASE p # n
    <3>1. p \in 1 .. prompt
      BY <1>7, <2>1, <2>2 DEF Moves, RouteInv, Known
    <3>2. QED
      BY <1>n, <1>1, <3>1
  <2>3. CASE p = n
    BY <1>n, <1>1, <2>3
  <2>4. QED
    BY <2>2, <2>3
<1>18. \A e \in sends' : (e.prompt \notin DOMAIN taken => OnItsWay(e))'
  BY <1>1, <1>5, <1>12, <1>13
<1>19. QED
  BY <1>8, <1>9, <1>14, <1>15, <1>16, <1>17, <1>18 DEF RouteInv, IdentityStays

LEMMA ConnectionRouted ==
  ASSUME RouteInv, IdentityStays, TypeOK',
         \/ Launches \/ ConnectCommand \/ EnsureConnected \/ DisconnectCommand \/ WorldNext
         \/ LateTaskNext
  PROVE  RouteInv'
<1>1. UNCHANGED <<screen, opens, catchups, sends, taken, restored, prompt>>
  BY DEF Launches, ConnectCommand, EnsureConnected, DisconnectCommand, WorldNext, LateTaskNext,
         TurnEnds, Announces, Drops, PumpFails, DisconnectTask, ClearsScope
<1>2. QED
  BY <1>1, ElsewhereRouted

LEMMA InitRouted == Init => RouteInv
<1>1. SUFFICES ASSUME Init PROVE RouteInv
  OBVIOUS
<1>2. TypeOK
  BY <1>1, InitTyped
<1>3. /\ view.conv.shown = {} /\ DOMAIN parked = {} /\ DOMAIN taken = {} /\ restored = {}
      /\ sends = {} /\ opens = {} /\ catchups = {} /\ archive = [k \in Kind \X Session |-> {}]
  BY <1>1 DEF Init, Blank
<1>4. \A p, b, y : ~At(p, b, y)
  BY <1>3 DEF At
<1>5. LiveIsStored
  BY <1>1 DEF Init, Blank, LiveIsStored
<1>6. QED
  BY <1>2, <1>3, <1>4, <1>5 DEF RouteInv, Known, Fetched, Numbers, Own, Gone, ParkedIsSaved

LEMMA NextRouted ==
  ASSUME RouteInv, IdentityStays, [Next]_vars
  PROVE  RouteInv'
<1>1. TypeOK'
  BY NextTyped DEF RouteInv
<1>2. CASE CommandNext
  BY <1>1, <1>2, ConnectionRouted, RefreshRouted, ConfiguresRouted, OpenSessionRouted,
     NewSessionRouted, SendRouted, InterruptRouted
     DEF CommandNext
<1>3. CASE WorldNext \/ LateTaskNext
  BY <1>1, <1>3, ConnectionRouted
<1>4. CASE PumpNext
  BY <1>1, <1>4, PumpNextRouted
<1>5. CASE OpenNext
  BY <1>1, <1>5, OpenNextRouted
<1>6. CASE CatchupNext
  BY <1>1, <1>6, CatchupNextRouted
<1>7. CASE SendNext
  BY <1>1, <1>7, SendNextRouted
<1>8. CASE UNCHANGED vars
  BY <1>1, <1>8, ElsewhereRouted DEF vars
<1>9. QED
  BY <1>2, <1>3, <1>4, <1>5, <1>6, <1>7, <1>8 DEF Next

-----------------------------------------------------------------------------
(* What it promises.                                                        *)

LEMMA OwnShown == RouteInv => TranscriptsAreTheirOwn
<1>1. SUFFICES ASSUME RouteInv PROVE TranscriptsAreTheirOwn
  OBVIOUS
<1>2. \A p \in view.conv.shown \cap DOMAIN taken : taken[p] = Key(view)
  BY <1>1 DEF RouteInv, Own, At
<1>3. \A k \in DOMAIN parked : \A p \in parked[k].shown \cap DOMAIN taken : taken[p] = k
  BY <1>1 DEF RouteInv, Own, At
<1>4. \A k \in DOMAIN archive : \A p \in archive[k] \cap DOMAIN taken : taken[p] = k[2]
  <2>1. SUFFICES ASSUME NEW k \in DOMAIN archive, NEW p \in archive[k] \cap DOMAIN taken
                 PROVE  taken[p] = k[2]
    OBVIOUS
  <2>2. PICK b \in Kind, s \in Session : k = <<b, s>>
    BY <1>1, ScreenIs DEF RouteInv
  <2>3. At(p, b, s)
    BY <2>1, <2>2 DEF At
  <2>4. QED
    BY <1>1, <2>1, <2>2, <2>3 DEF RouteInv, Own
<1>5. QED
  BY <1>2, <1>3, <1>4 DEF TranscriptsAreTheirOwn

LEMMA GoneShown == RouteInv => RestoredIsGone
<1>1. SUFFICES ASSUME RouteInv PROVE RestoredIsGone
  OBVIOUS
<1> DEFINE given == restored \ DOMAIN taken
<1>2. given \cap view.conv.shown = {} /\ \A d \in sends : d.prompt \notin restored
  BY <1>1 DEF RouteInv, Gone, Numbers, At
<1>3. \A k \in DOMAIN parked : parked[k].shown \cap given = {}
  BY <1>1 DEF RouteInv, Gone, At
<1>4. \A k \in DOMAIN archive : archive[k] \cap given = {}
  <2>1. SUFFICES ASSUME NEW k \in DOMAIN archive, NEW p \in archive[k], p \in given
                 PROVE  FALSE
    OBVIOUS
  <2>2. PICK b \in Kind, s \in Session : k = <<b, s>>
    BY <1>1, ScreenIs DEF RouteInv
  <2>3. At(p, b, s)
    BY <2>1, <2>2 DEF At
  <2>4. QED
    BY <1>1, <2>1, <2>3 DEF RouteInv, Gone
<1>5. QED
  BY <1>2, <1>3, <1>4 DEF RestoredIsGone

(* Only switch_to makes a view a new one.                                   *)
LEMMA OnlySwitches ==
  ASSUME RouteInv, [Next]_vars, view'.gen # view.gen, view'.backend = view.backend
  PROVE  \E s \in Session \cup {None} : SwitchesTo(s, view.backend)
<1>1. TypeOK /\ view \in View
  BY ScreenIs DEF RouteInv
<1>2. view' # view
  OBVIOUS
<1>3. ASSUME NEW v, Shows(v), v.gen = view.gen PROVE FALSE
  BY <1>3 DEF Shows
<1>4. FinishTurn.gen = view.gen /\ \A got : [view EXCEPT !.conv.shown = got].gen = view.gen
  BY <1>1 DEF FinishTurn, View
<1>5. ~Shows(FinishTurn) /\ ~FinishesTurn /\ \A got : ~Merges(got)
  BY <1>2, <1>3, <1>4 DEF FinishesTurn, Merges
<1>6. CASE CommandNext
  <2>1. CASE \/ Launches \/ ConnectCommand \/ EnsureConnected \/ DisconnectCommand
             \/ Refresh \/ Interrupt
    BY <1>2, <1>5, <2>1
       DEF Launches, ConnectCommand, EnsureConnected, DisconnectCommand, Refresh, Interrupt
  <2>2. CASE \E k \in Kind : Configures(k)
    BY <1>2, <2>2 DEF Configures, SwitchesTo
  <2>3. CASE \E s \in Session : OpenSession(s)
    BY <1>2, <2>3 DEF OpenSession
  <2>4. CASE NewSession
    BY <2>4 DEF NewSession
  <2>5. CASE Send
    BY <1>1, <1>3, <2>5 DEF Send, View
  <2>6. QED
    BY <1>6, <2>1, <2>2, <2>3, <2>4, <2>5 DEF CommandNext
<1>7. CASE WorldNext \/ LateTaskNext
  BY <1>2, <1>7
     DEF WorldNext, LateTaskNext, TurnEnds, Announces, Drops, PumpFails, DisconnectTask, ClearsScope
<1>8. CASE PumpNext
  <2>1. PICK p \in pumps :
          \/ PumpAttempts(p) \/ PumpCloses(p) \/ PumpProbes(p) \/ PumpConnects(p)
          \/ PumpReportsFailure(p) \/ PumpSleeps(p) \/ PumpUp(p) \/ PumpResumes(p)
          \/ PumpResumed(p) \/ PumpReady(p) \/ PumpDrains(p) \/ PumpLosesStream(p)
    BY <1>8 DEF PumpNext
  <2>2. CASE PumpResumed(p)
    BY <1>1, <2>2 DEF PumpResumed, View
  <2>3. CASE PumpDrains(p)
    BY <1>1, <1>2, <1>5, <2>3 DEF PumpDrains, Applies, View
  <2>4. CASE PumpLosesStream(p)
    BY <1>2, <1>5, <2>4 DEF PumpLosesStream, EndsTurn
  <2>5. QED
    BY <1>2, <2>1, <2>2, <2>3, <2>4
       DEF pumpOnly, PumpAttempts, PumpCloses, PumpProbes, PumpConnects, PumpReportsFailure,
           PumpSleeps, PumpUp, PumpResumes, PumpReady
<1>9. CASE OpenNext
  <2>1. PICK o \in opens : \/ OpenSwitches(o) \/ OpenFetches(o) \/ OpenMerges(o) \/ OpenResumes(o)
                         \/ OpenResumed(o) \/ OpenUnscopes(o)
    BY <1>9 DEF OpenNext
  <2>2. CASE OpenSwitches(o)
    BY <1>1, <2>2, OpenIsTyped DEF OpenSwitches, OpenTask
  <2>3. CASE OpenResumed(o)
    BY <1>1, <1>2, <2>3 DEF OpenResumed, View
  <2>4. QED
    BY <1>2, <1>5, <2>1, <2>2, <2>3 DEF OpenFetches, OpenMerges, OpenResumes, OpenUnscopes
<1>10. CASE CatchupNext
  BY <1>2, <1>5, <1>10 DEF CatchupNext, CatchupStarts, CatchupFetches, CatchupMerges
<1>11. CASE SendNext
  <2>1. PICK d \in sends : \/ SendLocks(d) \/ SendAims(d) \/ SendAttaches(d) \/ SendSubmits(d)
                         \/ SendRestores(d)
    BY <1>11 DEF SendNext
  <2>2. CASE SendAttaches(d)
    BY <1>1, <1>2, <1>3, <2>2 DEF SendAttaches, View
  <2>3. CASE SendRestores(d)
    BY <1>1, <1>2, <1>3, <2>3 DEF SendRestores, View
  <2>4. QED
    BY <1>2, <2>1, <2>2, <2>3 DEF SendLocks, SendAims, SendSubmits
<1>12. CASE UNCHANGED vars
  BY <1>2, <1>12 DEF vars
<1>13. QED
  BY <1>6, <1>7, <1>8, <1>9, <1>10, <1>11, <1>12 DEF Next

LEMMA SwitchSurvived ==
  ASSUME RouteInv, [Next]_vars
  PROVE  view'.gen # view.gen /\ view'.backend = view.backend
           => \A s \in Session : Kept(s) \subseteq Kept(s)'
BY OnlySwitches, SwitchKeeps DEF RouteInv

(* As long as a conversation on screen keeps its session.                   *)
LEMMA RouteCorrect == Spec /\ [][IdentityStays]_vars => []RouteInv
<1>1. RouteInv /\ [Next]_vars /\ [IdentityStays]_vars => RouteInv'
  <2>1. SUFFICES ASSUME RouteInv, [Next]_vars, [IdentityStays]_vars PROVE RouteInv'
    OBVIOUS
  <2>2. IdentityStays
    BY <2>1 DEF vars, IdentityStays, RouteInv, LiveIsStored
  <2>3. QED
    BY <2>1, <2>2, NextRouted
<1>2. QED
  BY <1>1, InitRouted, PTL DEF Spec

(* Then a late history or resume never puts one session's prompts into      *)
(* another's transcript, on screen, parked or in the cache: open_on,        *)
(* catch_up_history.                                                        *)
THEOREM OwnTranscripts == Spec /\ [][IdentityStays]_vars => []TranscriptsAreTheirOwn
BY RouteCorrect, OwnShown, PTL

(* And a prompt given back to the composer that no agent has is in no       *)
(* transcript any more, so sending it again does not show it twice:         *)
(* restore_prompt.  The prompt whose call failed after the agent took it is *)
(* the exception, and so is a conversation that lost its session: the       *)
(* archive of its old one keeps the prompt.                                 *)
THEOREM RestoredPrompts == Spec /\ [][IdentityStays]_vars => []RestoredIsGone
BY RouteCorrect, GoneShown, PTL

(* And going from one conversation to another loses nothing of either, nor  *)
(* of any other of that backend, whatever is evicted: switch_to.            *)
THEOREM SwitchingKeeps == Spec /\ [][IdentityStays]_vars => TranscriptSurvives
<1>1. RouteInv /\ [Next]_vars
        => [view'.gen # view.gen /\ view'.backend = view.backend
              => \A s \in Session : Kept(s) \subseteq Kept(s)']_vars
  BY SwitchSurvived
<1>2. QED
  BY <1>1, RouteCorrect, PTL DEF Spec, TranscriptSurvives

-----------------------------------------------------------------------------
(* Who can break it.                                                        *)

(* A pump resumes its session into a chat that has another one by then.     *)
ResumesOver == \E p \in pumps : PumpResumed(p) /\ Key(view) \notin {None, p.session}

(* A session.info reaches a chat that has another session.                  *)
AnnouncesOver ==
  \E p \in pumps : /\ PumpDrains(p) /\ Head(p.inbox) \in Session
                   /\ Key(view) \notin {None, Head(p.inbox)}

(* A prompt's task puts its session in the place of another, or two at once.*)
AttachesOver ==
  \E d \in sends : /\ SendAttaches(d)
                   /\ Key(view) \notin {None, d.session} \/ StoredAs(d) # d.session

(* A conversation on screen changes its session, or gets a second one, only *)
(* where a task writes ids it did not compare with those on screen: the     *)
(* pump's resume, the session.info handler and send's attach.               *)
THEOREM OnlyThreeRename ==
  Spec => [][LiveIsStored => IdentityStays \/ ResumesOver \/ AnnouncesOver \/ AttachesOver]_vars
<1>1. ASSUME TypeOK, Next, LiveIsStored
      PROVE  IdentityStays \/ ResumesOver \/ AnnouncesOver \/ AttachesOver
  <2>1. SUFFICES ASSUME ~IdentityStays
                 PROVE  ResumesOver \/ AnnouncesOver \/ AttachesOver
    OBVIOUS
  <2>2. view \in View /\ view' # view
    BY <1>1, <2>1, ScreenIs DEF IdentityStays, LiveIsStored
  <2>3. ASSUME NEW v, Shows(v), v.live = view.live, v.stored = view.stored PROVE FALSE
    BY <1>1, <2>1, <2>3 DEF Shows, Key, IdentityStays, LiveIsStored
  <2>4. /\ FinishTurn.live = view.live /\ FinishTurn.stored = view.stored
        /\ \A got : /\ [view EXCEPT !.conv.shown = got].live = view.live
                    /\ [view EXCEPT !.conv.shown = got].stored = view.stored
    BY <2>2 DEF FinishTurn, View
  <2>5. ~Shows(FinishTurn) /\ ~FinishesTurn /\ \A got : ~Merges(got)
    BY <2>2, <2>3, <2>4 DEF FinishesTurn, Merges
  <2>6. \A s, k : ~SwitchesTo(s, k)
    BY <2>1, <2>2 DEF SwitchesTo, View, IdentityStays, LiveIsStored
  <2>7. CASE CommandNext
    <3>1. CASE \/ Launches \/ ConnectCommand \/ EnsureConnected \/ DisconnectCommand
               \/ Refresh \/ Interrupt
      BY <2>2, <2>5, <3>1
         DEF Launches, ConnectCommand, EnsureConnected, DisconnectCommand, Refresh, Interrupt
    <3>2. CASE (\E k \in Kind : Configures(k)) \/ (\E s \in Session : OpenSession(s)) \/ NewSession
      BY <2>2, <2>6, <3>2 DEF Configures, OpenSession, NewSession
    <3>3. CASE Send
      BY <2>2, <2>3, <3>3 DEF Send, View
    <3>4. QED
      BY <2>7, <3>1, <3>2, <3>3 DEF CommandNext
  <2>8. CASE WorldNext \/ LateTaskNext
    BY <2>2, <2>8
       DEF WorldNext, LateTaskNext, TurnEnds, Announces, Drops, PumpFails, DisconnectTask,
           ClearsScope
  <2>9. CASE PumpNext
    <3>1. PICK p \in pumps :
            \/ PumpAttempts(p) \/ PumpCloses(p) \/ PumpProbes(p) \/ PumpConnects(p)
            \/ PumpReportsFailure(p) \/ PumpSleeps(p) \/ PumpUp(p) \/ PumpResumes(p)
            \/ PumpResumed(p) \/ PumpReady(p) \/ PumpDrains(p) \/ PumpLosesStream(p)
      BY <2>9 DEF PumpNext
    <3>2. CASE PumpResumed(p)
      BY <2>1, <2>2, <3>2
         DEF PumpResumed, View, Key, ResumesOver, IdentityStays, LiveIsStored
    <3>3. CASE PumpDrains(p)
      <4>1. Head(p.inbox) \in Session /\ view' = [view EXCEPT !.live = Head(p.inbox)]
        BY <2>2, <2>5, <3>3 DEF PumpDrains, Applies
      <4>2. QED
        BY <2>1, <2>2, <3>3, <4>1 DEF View, Key, AnnouncesOver, IdentityStays, LiveIsStored
    <3>4. CASE PumpLosesStream(p)
      BY <2>2, <2>5, <3>4 DEF PumpLosesStream, EndsTurn
    <3>5. QED
      BY <2>2, <3>1, <3>2, <3>3, <3>4
         DEF pumpOnly, PumpAttempts, PumpCloses, PumpProbes, PumpConnects, PumpReportsFailure,
             PumpSleeps, PumpUp, PumpResumes, PumpReady
  <2>10. CASE OpenNext
    <3>1. PICK o \in opens : \/ OpenSwitches(o) \/ OpenFetches(o) \/ OpenMerges(o) \/ OpenResumes(o)
                           \/ OpenResumed(o) \/ OpenUnscopes(o)
      BY <2>10 DEF OpenNext
    <3>2. CASE OpenResumed(o)
      BY <1>1, <2>1, <2>2, <3>2, OpenIsTyped, MobileAssumption
         DEF OpenResumed, OpenIsCurrent, IsCurrent, View, Key, OpenTask, IdentityStays,
             LiveIsStored
    <3>3. QED
      BY <2>2, <2>5, <2>6, <3>1, <3>2
         DEF OpenSwitches, OpenFetches, OpenMerges, OpenResumes, OpenUnscopes
  <2>11. CASE CatchupNext
    BY <2>2, <2>5, <2>11 DEF CatchupNext, CatchupStarts, CatchupFetches, CatchupMerges
  <2>12. CASE SendNext
    <3>1. PICK d \in sends : \/ SendLocks(d) \/ SendAims(d) \/ SendAttaches(d) \/ SendSubmits(d)
                           \/ SendRestores(d)
      BY <2>12 DEF SendNext
    <3>2. CASE SendAttaches(d)
      <4>1. d.session \in Session
        BY <1>1, <3>2, SendIsTyped DEF SendAttaches, SendIs
      <4>2. view'.live = d.session /\ view'.stored = StoredAs(d)
        BY <2>2, <3>2 DEF SendAttaches, Shows, View
      <4>3. StoredAs(d) # d.session \/ Key(view) \notin {None, d.session}
        BY <2>1, <4>1, <4>2, MobileAssumption DEF Key, IdentityStays, LiveIsStored
      <4>4. QED
        BY <3>2, <4>3 DEF AttachesOver
    <3>3. CASE SendRestores(d)
      BY <2>2, <2>3, <3>3 DEF SendRestores, View
    <3>4. QED
      BY <2>2, <3>1, <3>2, <3>3 DEF SendLocks, SendAims, SendSubmits
  <2>13. QED
    BY <1>1, <2>7, <2>8, <2>9, <2>10, <2>11, <2>12 DEF Next
<1>2. QED
  BY <1>1, MobileTypeCorrect, PTL DEF Spec

-----------------------------------------------------------------------------
(* Where a prompt goes.                                                     *)

(* What a prompt is aimed at when it is typed: the session on screen, by    *)
(* its live id if it has one, or a session made for it.                     *)
AimedAt(d, s) ==
  IF d.live # None THEN s = d.live
  ELSE IF d.stored # None THEN s = d.stored
  ELSE s \notin Listed

(* One task sends a prompt, to what it was aimed at; once an agent has it,  *)
(* all the task still does is give it back.                                 *)
AimInv ==
  /\ \A d, e \in sends : d.prompt = e.prompt => d = e
  /\ \A d \in sends : d.prompt \in DOMAIN taken => d.pc = "restore"
  /\ \A d \in sends : d.pc \in {"attach", "submit"} => AimedAt(d, d.session)

LEMMA OthersKeepAim ==
  ASSUME [Next]_vars, ~SendNext, ~Send
  PROVE  sends' = sends /\ taken' = taken
<1>1. CASE CommandNext
  BY <1>1 DEF CommandNext, Launches, ConnectCommand, EnsureConnected, DisconnectCommand, Refresh,
     NewSession, Interrupt, OpenSession, Configures, commandOnly, agents, tasks
<1>2. CASE WorldNext
  BY <1>2 DEF WorldNext, TurnEnds, Announces, Drops, PumpFails, agents
<1>3. CASE PumpNext
  <2>1. PICK p \in pumps :
          \/ PumpAttempts(p) \/ PumpCloses(p) \/ PumpProbes(p) \/ PumpConnects(p)
          \/ PumpReportsFailure(p) \/ PumpSleeps(p) \/ PumpUp(p) \/ PumpResumes(p)
          \/ PumpResumed(p) \/ PumpReady(p) \/ PumpDrains(p) \/ PumpLosesStream(p)
    BY <1>3 DEF PumpNext
  <2>2. CASE PumpCloses(p) \/ PumpConnects(p) \/ PumpResumes(p)
    BY <2>2 DEF PumpCloses, PumpConnects, PumpResumes, agents
  <2>3. CASE PumpUp(p) \/ PumpResumed(p) \/ PumpDrains(p) \/ PumpLosesStream(p)
    BY <2>3 DEF PumpUp, PumpResumed, PumpDrains, PumpLosesStream, agents
  <2>4. QED
    BY <2>1, <2>2, <2>3
       DEF pumpOnly, PumpAttempts, PumpProbes, PumpReportsFailure, PumpSleeps, PumpReady, agents
<1>4. CASE OpenNext
  BY <1>4
     DEF OpenNext, OpenSwitches, OpenFetches, OpenMerges, OpenResumes, OpenResumed, OpenUnscopes,
         agents
<1>5. CASE CatchupNext
  BY <1>5 DEF CatchupNext, agents
<1>6. CASE LateTaskNext
  BY <1>6 DEF LateTaskNext, DisconnectTask, ClearsScope, agents
<1>7. CASE UNCHANGED vars
  BY <1>7 DEF vars, agents, tasks
<1>8. QED
  BY <1>1, <1>2, <1>3, <1>4, <1>5, <1>6, <1>7 DEF Next

(* A task that goes on or ends, while the agents take nothing else.         *)
LEMMA AimKept ==
  ASSUME AimInv, NEW d \in sends, NEW q, SendBecomes(d, q) \/ sends' = sends \ {d},
         q.prompt = d.prompt,
         DOMAIN taken' \subseteq DOMAIN taken \cup {d.prompt},
         d.prompt \in DOMAIN taken' => q.pc = "restore" \/ sends' = sends \ {d},
         q.pc \in {"attach", "submit"} => AimedAt(q, q.session)
  PROVE  AimInv'
<1>1. \A e \in sends' : (e = q /\ SendBecomes(d, q)) \/ e \in sends \ {d}
  BY DEF SendBecomes
<1>2. \A d1, e \in sends' : d1.prompt = e.prompt => d1 = e
  BY <1>1 DEF AimInv
<1>3. ASSUME NEW e \in sends', e.prompt \in DOMAIN taken' PROVE e.pc = "restore"
  <2>1. CASE e = q /\ SendBecomes(d, q)
    <3>1. CASE sends' = sends \ {d}
      <4>1. q \in sends \ {d}
        BY <1>3, <2>1, <3>1
      <4>2. QED
        BY <4>1 DEF AimInv
    <3>2. QED
      BY <1>3, <2>1, <3>1
  <2>2. CASE e \in sends \ {d}
    BY <1>3, <2>2 DEF AimInv
  <2>3. QED
    BY <1>1, <2>1, <2>2
<1>4. \A e \in sends' : e.pc \in {"attach", "submit"} => AimedAt(e, e.session)
  BY <1>1 DEF AimInv
<1>5. QED
  BY <1>2, <1>3, <1>4 DEF AimInv, AimedAt

LEMMA AimStep ==
  ASSUME TypeOK, AimInv, [Next]_vars
  PROVE  AimInv'
<1>1. CASE Send
  <2>1. PICK n : /\ n.prompt = prompt + 1 /\ n.pc = "lock" /\ sends' = sends \cup {n}
    BY <1>1 DEF Send
  <2>2. prompt \in Nat /\ DOMAIN taken \subseteq 1 .. prompt /\ taken' = taken
    BY <1>1 DEF Send, TypeOK, HistoryTypeOK, agents
  <2>3. prompt + 1 \notin 1 .. prompt
    BY <2>2
  <2>4. n.prompt \notin DOMAIN taken /\ \A e \in sends : e.prompt # n.prompt
    BY <2>1, <2>2, <2>3, SendIsTyped
  <2>5. QED
    BY <2>1, <2>2, <2>4 DEF AimInv, AimedAt
<1>2. CASE SendNext
  <2>1. PICK d \in sends : \/ SendLocks(d) \/ SendAims(d) \/ SendAttaches(d) \/ SendSubmits(d)
                           \/ SendRestores(d)
    BY <1>2 DEF SendNext
  <2>2. d \in SendTask
    BY SendIsTyped
  <2>3. ASSUME NEW pc, pc # "attach", pc = "submit" => d.pc = "attach"
        PROVE  LET q == [d EXCEPT !.pc = pc]
               IN  /\ q.prompt = d.prompt /\ q.pc = pc
                   /\ q.pc \in {"attach", "submit"} => AimedAt(q, q.session)
    BY <2>2, <2>3 DEF AimInv, AimedAt, SendTask
  <2>4. CASE SendLocks(d) \/ SendAttaches(d)
    <3>1. PICK pc \in {"aim", "submit", "restore"} :
            SendBecomes(d, [d EXCEPT !.pc = pc]) /\ (pc = "submit" => d.pc = "attach")
      BY <2>4 DEF SendLocks, SendAttaches, SendIs, SendFails
    <3>2. taken' = taken /\ d.prompt \notin DOMAIN taken
      BY <2>4 DEF SendLocks, SendAttaches, SendIs, AimInv
    <3>3. QED
      BY <2>3, <3>1, <3>2, AimKept
  <2>5. CASE SendAims(d)
    <3>1. taken' = taken /\ d.prompt \notin DOMAIN taken
      BY <2>5 DEF SendAims, SendIs, AimInv
    <3>2. PICK s : \/ /\ SendBecomes(d, [d EXCEPT !.pc = "attach", !.session = s])
                      /\ AimedAt(d, s)
                   \/ SendBecomes(d, [d EXCEPT !.pc = "restore"])
      BY <2>5 DEF SendAims, SendFails, Target, AimedAt
    <3>3. CASE SendBecomes(d, [d EXCEPT !.pc = "attach", !.session = s]) /\ AimedAt(d, s)
      <4> DEFINE q == [d EXCEPT !.pc = "attach", !.session = s]
      <4>1. q.prompt = d.prompt /\ AimedAt(q, q.session)
        BY <2>2, <3>3 DEF SendTask, AimedAt
      <4>2. SendBecomes(d, q)
        BY <3>3
      <4> HIDE DEF q
      <4>3. QED
        BY <3>1, <4>1, <4>2, AimKept
    <3>4. QED
      BY <2>3, <3>1, <3>2, <3>3, AimKept
  <2>6. CASE SendSubmits(d) \/ SendRestores(d)
    <3> DEFINE q == [d EXCEPT !.pc = "restore"]
    <3>1. q.prompt = d.prompt /\ q.pc = "restore"
      BY <2>2 DEF SendTask
    <3>2. SendBecomes(d, q) \/ sends' = sends \ {d}
      BY <2>6 DEF SendSubmits, SendRestores, SendFails
    <3>3. DOMAIN taken' \subseteq DOMAIN taken \cup {d.prompt}
      BY <2>6 DEF SendSubmits, SendRestores, Takes, agents
    <3> HIDE DEF q
    <3>4. QED
      BY <3>1, <3>2, <3>3, AimKept
  <2>7. QED
    BY <2>1, <2>4, <2>5, <2>6
<1>3. CASE ~SendNext /\ ~Send
  BY <1>3, OthersKeepAim DEF AimInv, AimedAt
<1>4. QED
  BY <1>1, <1>2, <1>3

(* Only a submit hands a prompt to an agent, with its task's session.       *)
LEMMA SubmitsIts ==
  ASSUME TypeOK, AimInv, [Next]_vars
  PROVE  /\ \A p \in DOMAIN taken : p \in DOMAIN taken' /\ taken'[p] = taken[p]
         /\ \A d \in sends : d.prompt \in DOMAIN taken' \ DOMAIN taken
                            => AimedAt(d, taken'[d.prompt])
<1>1. CASE \E d \in sends : SendSubmits(d) /\ Takes(d)
  <2>1. PICK d \in sends : SendSubmits(d) /\ Takes(d)
    BY <1>1
  <2>2. d.prompt \notin DOMAIN taken /\ AimedAt(d, d.session)
    BY <2>1 DEF SendSubmits, SendIs, AimInv
  <2>3. \A e \in sends : e.prompt \in DOMAIN taken' \ DOMAIN taken => e = d
    BY <2>1 DEF Takes, AimInv
  <2>4. QED
    BY <2>1, <2>2, <2>3 DEF Takes
<1>2. CASE SendNext /\ ~\E d \in sends : SendSubmits(d) /\ Takes(d)
  <2>1. taken' = taken
    BY <1>2 DEF SendNext, SendLocks, SendAims, SendAttaches, SendSubmits, SendRestores, agents
  <2>2. QED
    BY <2>1
<1>3. CASE ~SendNext
  <2>1. taken' = taken
    BY <1>3, OthersKeepAim DEF Send, agents
  <2>2. QED
    BY <2>1
<1>4. QED
  BY <1>1, <1>2, <1>3

(* A prompt is handed to an agent once, whatever becomes of the call, and   *)
(* then in the session it was aimed at when it was typed, whatever was      *)
(* opened, resumed, announced or connected since: send and its task.  What  *)
(* it is aimed at is the session on screen, if its two ids are of one       *)
(* session: OnlyThreeRename names the steps after which they are not.       *)
THEOREM PromptsGoWhereAimed ==
  Spec => [][/\ \A p \in DOMAIN taken : p \in DOMAIN taken' /\ taken'[p] = taken[p]
             /\ \A d \in sends : d.prompt \in DOMAIN taken' \ DOMAIN taken
                                => AimedAt(d, taken'[d.prompt])]_vars
<1>1. Init => AimInv
  BY DEF Init, AimInv
<1>2. TypeOK /\ AimInv /\ [Next]_vars => AimInv'
  BY AimStep
<1>3. TypeOK /\ AimInv /\ [Next]_vars
        => [/\ \A p \in DOMAIN taken : p \in DOMAIN taken' /\ taken'[p] = taken[p]
            /\ \A d \in sends : d.prompt \in DOMAIN taken' \ DOMAIN taken
                               => AimedAt(d, taken'[d.prompt])]_vars
  BY SubmitsIts
<1>4. QED
  BY <1>1, <1>2, <1>3, MobileTypeCorrect, PTL DEF Spec
=============================================================================
