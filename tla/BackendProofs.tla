--------------------------- MODULE BackendProofs ---------------------------
(***************************************************************************)
(* Proof that a Backend keeps the contract of AgentStream, for any set of  *)
(* sessions and any bounds, whichever adapter is behind it.                *)
(*                                                                         *)
(* Backend and AgentStream share their variables, so a step implements the *)
(* contract when it is one of the contract's own.  CallInv is what every   *)
(* adapter keeps of the call in progress; each adapter adds what it needs  *)
(* for three things: that Connected is told at most once, that what it     *)
(* filters by was asked for, and that a prompt is not taken again.         *)
(***************************************************************************)
EXTENDS Backend, TLAPS, SequenceTheorems

USE DEF contact, view, prompts, callVars

(* A step of Backend as the contract sees it. *)
ContractStep == [Contract!Next]_(Contract!vars)

Taken(p) == \E i \in DOMAIN posted : posted[i] = p

CallInv ==
  /\ DOMAIN call = {"op", "session", "prompt", "step", "reply"}
  /\ call.session \in Session \cup {None} /\ call.prompt \in 0 .. submits
  /\ scope \subseteq Session
  /\ channel \in Nat /\ submits \in Nat /\ posted \in Seq(Nat)
  /\ \A i \in DOMAIN posted : posted[i] <= submits
  /\ call.session # None => call.session \in scope
  /\ call.op # "submit" => call.prompt = 0
  /\ call.step = "idle" => call.session = None

-----------------------------------------------------------------------------
(* What the contract calls the steps of a call.                             *)

LEMMA CallStarts ==
  ASSUME CallInv, NEW op, NEW s \in Session \cup {None}, NEW p \in Nat, NEW step,
         call' = NewCall(op, s, p, step), op # "submit" => p = 0, step # "idle",
         s # None => s \in scope', scope' \subseteq Session, channel' \in Nat,
         submits' \in Nat, submits <= submits', p <= submits', posted' = posted
  PROVE  CallInv'
<1>1. /\ call'.op = op /\ call'.session = s /\ call'.prompt = p /\ call'.step = step
      /\ DOMAIN call' = {"op", "session", "prompt", "step", "reply"}
  BY DEF NewCall
<1>2. \A i \in DOMAIN posted : posted[i] <= submits'
  BY DEF CallInv
<1> QED
  BY <1>1, <1>2 DEF CallInv

LEMMA CallEnds ==
  ASSUME CallInv, call' = NoCall, scope' \subseteq Session, UNCHANGED <<channel, prompts>>
  PROVE  CallInv'
BY DEF CallInv, NoCall, NewCall

LEMMA BeginIs ==
  ASSUME CallInv, NEW op \in Op \ {"submit"}, NEW s \in Session \cup {None}, NEW first, first # "idle",
         Begin(op, s, first)
  PROVE  /\ CallInv' /\ ContractStep
         /\ call' = NewCall(op, s, 0, first)
         /\ scope \subseteq scope'
         /\ UNCHANGED <<contact, drawn, prompts>>
<1>1. /\ call' = NewCall(op, s, 0, first)
      /\ scope' = scope \cup ({s} \ {None})
      /\ UNCHANGED <<contact, drawn, prompts>>
  BY DEF Begin
<1>2. CallInv'
  <2>1. /\ op # "submit" /\ 0 \in Nat
        /\ s # None => s \in scope'
        /\ scope' \subseteq Session /\ channel' \in Nat
        /\ submits' \in Nat /\ submits <= submits' /\ 0 <= submits'
    BY <1>1 DEF CallInv
  <2> QED
    BY <1>1, <2>1, CallStarts
<1>3. ContractStep
  <2>1. CASE s = None
    BY <1>1, <2>1 DEF ContractStep, Contract!vars
  <2>2. CASE s # None
    BY <1>1, <2>2 DEF ContractStep, Contract!Next, Contract!Ask
  <2> QED
    BY <2>1, <2>2
<1> QED
  BY <1>1, <1>2, <1>3

LEMMA BeginSubmitIs ==
  ASSUME CallInv, NEW s \in Session, NEW first, first # "idle", BeginSubmit(s, first)
  PROVE  /\ CallInv' /\ ContractStep
         /\ call' = NewCall("submit", s, submits + 1, first)
         /\ ~Taken(call.prompt)'
         /\ scope' = scope \cup {s}
         /\ UNCHANGED <<contact, drawn, posted>>
<1>1. /\ call' = NewCall("submit", s, submits + 1, first)
      /\ submits' = submits + 1
      /\ scope' = scope \cup {s}
      /\ UNCHANGED <<contact, drawn, posted>>
  BY DEF BeginSubmit
<1>2. CallInv'
  <2>1. /\ submits + 1 \in Nat
        /\ s \in Session \cup {None} /\ s \in scope' /\ scope' \subseteq Session
        /\ channel' \in Nat /\ submits' \in Nat /\ submits <= submits' /\ submits + 1 <= submits'
    BY <1>1 DEF CallInv
  <2> QED
    BY <1>1, <2>1, CallStarts
<1>3. ContractStep
  BY <1>1 DEF ContractStep, Contract!Next, Contract!Ask
<1>4. ~Taken(call.prompt)'
  BY <1>1 DEF CallInv, NewCall, Taken
<1> QED
  BY <1>1, <1>2, <1>3, <1>4

LEMMA BeginConnectIs ==
  ASSUME CallInv, NEW first, first # "idle", BeginConnect(first)
  PROVE  /\ CallInv' /\ ContractStep
         /\ call' = NewCall("connect", None, 0, first)
         /\ channel' = channel + 1 /\ line' = "silent" /\ greeted' = FALSE
         /\ scope' = {} /\ drawn' = {} /\ UNCHANGED prompts
<1>1. /\ call' = NewCall("connect", None, 0, first)
      /\ channel' = channel + 1 /\ line' = "silent" /\ greeted' = FALSE
      /\ scope' = {} /\ drawn' = {} /\ UNCHANGED prompts
  BY DEF BeginConnect
<1>2. CallInv'
  <2>1. /\ 0 \in Nat /\ None \in Session \cup {None}
        /\ scope' \subseteq Session /\ channel' \in Nat
        /\ submits' \in Nat /\ submits <= submits' /\ 0 <= submits'
    BY <1>1 DEF CallInv
  <2> QED
    BY <1>1, <2>1, CallStarts
<1>3. ContractStep
  BY <1>1 DEF ContractStep, Contract!Next, Contract!Open
<1> QED
  BY <1>1, <1>2, <1>3

LEMMA CallDisconnectIs ==
  ASSUME CallInv, CallDisconnect
  PROVE  /\ CallInv' /\ ContractStep
         /\ line' = "closed" /\ scope' = {} /\ drawn' = {}
         /\ UNCHANGED <<call, channel, greeted, prompts>>
<1>1. /\ call.session = None
      /\ line' = "closed" /\ scope' = {} /\ drawn' = {}
      /\ UNCHANGED <<call, channel, greeted, prompts>>
  BY DEF CallDisconnect, Idle, CallInv
<1>2. CallInv'
  BY <1>1 DEF CallInv
<1>3. ContractStep
  BY <1>1 DEF ContractStep, Contract!Next, Contract!Close
<1> QED
  BY <1>1, <1>2, <1>3

LEMMA CallClearScopeIs ==
  ASSUME CallInv, CallClearScope
  PROVE  /\ CallInv' /\ ContractStep
         /\ scope' = {} /\ drawn' = {}
         /\ UNCHANGED <<call, contact, prompts>>
<1>1. /\ call.session = None
      /\ scope' = {} /\ drawn' = {}
      /\ UNCHANGED <<call, contact, prompts>>
  BY DEF CallClearScope, Idle, CallInv
<1>2. CallInv'
  BY <1>1 DEF CallInv
<1>3. ContractStep
  BY <1>1 DEF ContractStep, Contract!Next, Contract!Leave
<1> QED
  BY <1>1, <1>2, <1>3

LEMMA ReturnSessionIs ==
  ASSUME CallInv, call.session # None, ReturnSession
  PROVE  /\ CallInv' /\ ContractStep
         /\ call' = NoCall /\ scope' = {call.session}
         /\ UNCHANGED <<contact, prompts>>
<1>1. /\ call' = NoCall /\ scope' = {call.session} /\ drawn' = {}
      /\ UNCHANGED <<contact, prompts>>
  BY DEF ReturnSession
<1>2. call.session \in Session
  BY DEF CallInv
<1>3. CallInv'
  BY <1>1, <1>2, CallEnds
<1>4. ContractStep
  BY <1>1, <1>2 DEF ContractStep, Contract!Next, Contract!Settle
<1> QED
  BY <1>1, <1>3, <1>4

(* The call goes on, or is over, with nothing taken.                        *)
LEMMA CallGoesOn ==
  ASSUME CallInv, UNCHANGED <<channel, scope, prompts>>,
         \/ call' = call \/ call' = NoCall
         \/ \E step, r : step # "idle" /\ call' = [call EXCEPT !.step = step, !.reply = r]
  PROVE  CallInv'
<1>1. CASE call' = call
  BY <1>1 DEF CallInv
<1>2. CASE call' = NoCall
  BY <1>2, CallEnds DEF CallInv
<1>3. CASE \E step, r : step # "idle" /\ call' = [call EXCEPT !.step = step, !.reply = r]
  BY <1>3 DEF CallInv
<1> QED
  BY <1>1, <1>2, <1>3

LEMMA GreetsIs ==
  ASSUME NEW c, Greets(c), Newest(c) => ~greeted, UNCHANGED <<view, posted>>
  PROVE  ContractStep
BY DEF Greets, Newest, ContractStep, Contract!Next, Contract!Greet, Contract!vars

LEMMA LosesIs ==
  ASSUME NEW c, Loses(c), UNCHANGED <<view, posted>>
  PROVE  ContractStep
BY DEF Loses, Newest, ContractStep, Contract!Next, Contract!Lose, Contract!vars

LEMMA DrawsIs ==
  ASSUME CallInv, NEW c, NEW s, Draws(c, s), Newest(c) => s \in scope \cup {None},
         UNCHANGED <<contact, posted>>
  PROVE  ContractStep
BY DEF CallInv, Draws, Newest, ContractStep, Contract!Next, Contract!Draw, Contract!vars

LEMMA TakesIs ==
  ASSUME CallInv, NEW p \in 0 .. submits, Takes(p), p # 0 => ~Taken(p),
         UNCHANGED <<contact, view>>
  PROVE  /\ ContractStep
         /\ submits' = submits /\ posted' \in Seq(Nat)
         /\ \A i \in DOMAIN posted' : posted'[i] <= submits
         /\ \A q : Taken(q)' <=> Taken(q) \/ (q = p /\ p # 0)
<1>1. CASE p = 0
  BY <1>1 DEF CallInv, Takes, Taken, ContractStep, Contract!vars
<1>2. CASE p # 0
  <2>1. posted' = Append(posted, p) /\ submits' = submits /\ p \in Nat /\ p <= submits
    BY <1>2 DEF Takes, CallInv
  <2>2. /\ posted' \in Seq(Nat) /\ DOMAIN posted' = 1 .. Len(posted) + 1
        /\ posted'[Len(posted) + 1] = p
        /\ \A i \in DOMAIN posted : posted'[i] = posted[i]
        /\ DOMAIN posted = 1 .. Len(posted) /\ Len(posted) \in Nat
    BY <2>1 DEF CallInv
  <2>3. Contract!Post(p)
    BY <1>2, <2>1 DEF Contract!Post, Taken
  <2>4. ContractStep
    <3>1. Len(posted) + 1 \in DOMAIN posted'
      BY <2>2
    <3> QED
      BY <2>2, <2>3, <3>1 DEF ContractStep, Contract!Next
  <2>5. \A i \in DOMAIN posted' : posted'[i] <= submits
    BY <2>1, <2>2 DEF CallInv
  <2>6. \A q : Taken(q)' <=> Taken(q) \/ (q = p /\ p # 0)
    BY <1>2, <2>2 DEF Taken
  <2> QED
    BY <2>1, <2>2, <2>4, <2>5, <2>6
<1> QED
  BY <1>1, <1>2

-----------------------------------------------------------------------------
(* Xuexiaomi.  Its calls and its channel are those of AgentCalls.           *)

USE DEF Xxm!contact, Xxm!view, Xxm!prompts, Xxm!callVars, Xxm!gatewayKeeps, Xxm!xxmVars, xxmVars

LEMMA XxmCalls ==
  /\ Xxm!NoCall = NoCall
  /\ Xxm!Idle <=> Idle
  /\ \A step : Xxm!At(step) <=> call.step = step
  /\ \A op, s, first : Xxm!Begin(op, s, first) <=> Begin(op, s, first)
  /\ \A s, first : Xxm!BeginSubmit(s, first) <=> BeginSubmit(s, first)
  /\ \A first : Xxm!BeginConnect(first) <=> BeginConnect(first)
  /\ Xxm!CallDisconnect <=> CallDisconnect
  /\ Xxm!CallClearScope <=> CallClearScope
  /\ Xxm!ReturnSession <=> ReturnSession
  /\ \A c : /\ Xxm!Newest(c) <=> Newest(c)
            /\ Xxm!Greets(c) <=> Greets(c)
            /\ Xxm!Loses(c) <=> Loses(c)
            /\ \A s : Xxm!Draws(c, s) <=> Draws(c, s)
  /\ \A p : Xxm!Takes(p) <=> Takes(p)
BY DEF Xxm!NoCall, NoCall, Xxm!NewCall, NewCall, Xxm!Idle, Idle, Xxm!At,
       Xxm!Begin, Begin, Xxm!BeginSubmit, BeginSubmit, Xxm!BeginConnect, BeginConnect,
       Xxm!CallDisconnect, CallDisconnect, Xxm!CallClearScope, CallClearScope,
       Xxm!ReturnSession, ReturnSession, Xxm!Newest, Newest, Xxm!Greets, Greets,
       Xxm!Loses, Loses, Xxm!Draws, Draws, Xxm!Takes, Takes, Xxm!Spend, Spend

XxmInv ==
  /\ active # None => active \in scope
  /\ call.step = "probing" => ~greeted
  /\ call.step = "known" \/ call.op = "resume" => call.session # None
  /\ call.step \in {"continuing", "posting"} => ~Taken(call.prompt)

LEMMA XxmStep ==
  ASSUME CallInv, XxmInv, Xxm!XueXiaoMiNext
  PROVE  CallInv' /\ XxmInv' /\ ContractStep
<1>1. CASE Xxm!XxmConnect
  <2>1. BeginConnect("probing") /\ active' = None
    BY <1>1, XxmCalls DEF Xxm!XxmConnect, Xxm!Disconnects
  <2>2. CallInv' /\ ContractStep /\ call' = NewCall("connect", None, 0, "probing") /\ ~greeted'
    BY <2>1, BeginConnectIs
  <2> QED
    BY <2>1, <2>2 DEF XxmInv, NewCall
<1>2. CASE Xxm!XxmDisconnect
  <2>1. CallDisconnect /\ active' = None
    BY <1>2, XxmCalls DEF Xxm!XxmDisconnect, Xxm!Disconnects
  <2> QED
    BY <2>1, CallDisconnectIs DEF XxmInv, Taken
<1>3. CASE Xxm!XxmClearSessionScope
  <2>1. CallClearScope /\ active' = None
    BY <1>3, XxmCalls DEF Xxm!XxmClearSessionScope
  <2> QED
    BY <2>1, CallClearScopeIs DEF XxmInv, Taken
<1>4. CASE Xxm!XxmCallBegins
  <2>1. active' = active
    BY <1>4 DEF Xxm!XxmCallBegins
  <2>2. CASE \E op \in {"list", "interrupt"}, s \in Session \cup {None} : Begin(op, s, "http")
    <3>1. PICK op \in {"list", "interrupt"}, s \in Session \cup {None} : Begin(op, s, "http")
      BY <2>2
    <3> QED
      BY <2>1, <3>1, BeginIs DEF XxmInv, Op, NewCall
  <2>3. CASE \E op \in {"create", "resume"}, s \in Session, first \in {"known", "http"} : Begin(op, s, first)
    <3>1. PICK op \in {"create", "resume"}, s \in Session, first \in {"known", "http"} : Begin(op, s, first)
      BY <2>3
    <3> QED
      BY <2>1, <3>1, BeginIs, CallsAssumption DEF XxmInv, Op, NewCall
  <2>4. CASE \E s \in Session, first \in {"continuing", "posting"} : BeginSubmit(s, first)
    <3>1. PICK s \in Session, first \in {"continuing", "posting"} : BeginSubmit(s, first)
      BY <2>4
    <3> QED
      BY <2>1, <3>1, BeginSubmitIs DEF XxmInv, NewCall
  <2> QED
    BY <1>4, <2>2, <2>3, <2>4, XxmCalls DEF Xxm!XxmCallBegins
<1>5. CASE Xxm!XxmProbed
  <2>1. /\ call.step = "probing" /\ call' = NoCall
        /\ UNCHANGED <<view, prompts, active, channel>>
        /\ Greets(channel) \/ UNCHANGED contact
    BY <1>5, XxmCalls DEF Xxm!XxmProbed, Xxm!Greets
  <2>2. ContractStep
    BY <2>1, GreetsIs DEF XxmInv, ContractStep, Contract!vars
  <2> QED
    BY <2>1, <2>2, CallEnds DEF XxmInv, CallInv, NoCall, NewCall
<1>6. CASE Xxm!XxmOpens
  <2>1. call.step = "known" /\ ReturnSession /\ active' = call.session
    BY <1>6, XxmCalls DEF Xxm!XxmOpens
  <2> QED
    BY <2>1, ReturnSessionIs DEF XxmInv, NoCall, NewCall
<1>7. CASE Xxm!XxmListed \/ Xxm!XxmInterrupts \/ Xxm!XxmRequestFails
  <2>1. call' = NoCall /\ UNCHANGED <<contact, view, prompts, active>>
    BY <1>7, XxmCalls DEF Xxm!XxmListed, Xxm!XxmInterrupts, Xxm!XxmRequestFails, Xxm!Return
  <2> QED
    BY <2>1, CallEnds DEF XxmInv, CallInv, NoCall, NewCall, ContractStep, Contract!vars
<1>8. CASE Xxm!XxmResumed \/ Xxm!Continues
  <2>1. /\ \/ call' = [call EXCEPT !.step = "known", !.reply = "none"] /\ call.step = "http" /\ call.op = "resume"
           \/ call' = [call EXCEPT !.step = "posting", !.reply = "none"] /\ call.step = "continuing"
        /\ UNCHANGED <<contact, view, prompts, active>>
    BY <1>8, XxmCalls DEF Xxm!XxmResumed, Xxm!Continues, Xxm!Goto
  <2> QED
    BY <2>1, CallGoesOn DEF XxmInv, CallInv, Taken, ContractStep, Contract!vars
<1>9. CASE Xxm!Posts
  <2>1. call.step = "posting" /\ UNCHANGED <<contact, view, active>>
    BY <1>9, XxmCalls DEF Xxm!Posts
  <2>2. CASE call' = NoCall /\ UNCHANGED prompts
    BY <2>1, <2>2, CallEnds DEF XxmInv, CallInv, NoCall, NewCall, ContractStep, Contract!vars
  <2>3. CASE call' = [call EXCEPT !.step = "taken"] /\ Takes(call.prompt)
    <3>1. call.prompt \in 0 .. submits /\ ~Taken(call.prompt)
      BY <2>1 DEF XxmInv, CallInv
    <3> QED
      BY <2>1, <2>3, <3>1, TakesIs DEF XxmInv, CallInv
  <2> QED
    BY <1>9, <2>2, <2>3, XxmCalls DEF Xxm!Posts
<1>10. CASE Xxm!StartsTurn
  <2>1. call' = NoCall /\ Draws(events, call.session) /\ UNCHANGED <<active, contact, prompts>>
    BY <1>10, XxmCalls DEF Xxm!StartsTurn
  <2>2. call.session \in scope \cup {None} /\ scope' = scope
    BY <2>1 DEF CallInv, Draws
  <2>3. ContractStep
    BY <2>1, <2>2, DrawsIs
  <2> QED
    BY <2>1, <2>2, <2>3, CallEnds DEF XxmInv, CallInv, NoCall, NewCall
<1>11. CASE \E i \in DOMAIN turns : Xxm!TurnFrame(i) \/ Xxm!TurnEnds(i)
  <2>1. PICK i \in DOMAIN turns : Xxm!TurnFrame(i) \/ Xxm!TurnEnds(i)
    BY <1>11
  <2>2. /\ UNCHANGED <<active, call, contact, scope, prompts>>
        /\ \/ UNCHANGED drawn
           \/ Xxm!OnScreen(turns[i].session) /\ Draws(turns[i].events, turns[i].session)
    BY <2>1, XxmCalls DEF Xxm!TurnFrame, Xxm!TurnEnds, Draws
  <2>3. Xxm!OnScreen(turns[i].session) => turns[i].session \in scope \cup {None}
    BY DEF Xxm!OnScreen, Xxm!BelongsToOpenSession, XxmInv
  <2>4. ContractStep
    BY <2>2, <2>3, DrawsIs DEF ContractStep, Contract!vars
  <2> QED
    BY <2>2, <2>4, CallGoesOn DEF XxmInv, Taken
<1>12. CASE \E i \in DOMAIN turns : Xxm!TurnAborts(i)
  <2>1. UNCHANGED <<active, call, contact, view, prompts>>
    BY <1>12 DEF Xxm!TurnAborts
  <2> QED
    BY <2>1, CallGoesOn DEF XxmInv, Taken, ContractStep, Contract!vars
<1> QED
  BY <1>1, <1>2, <1>3, <1>4, <1>5, <1>6, <1>7, <1>8, <1>9, <1>10, <1>11, <1>12
  DEF Xxm!XueXiaoMiNext, Xxm!XxmCallStep, Xxm!XxmTaskStep

-----------------------------------------------------------------------------
(* OpenCode and MiMoCode.                                                   *)

USE DEF Code!contact, Code!view, Code!prompts, Code!callVars,
        Code!agentVars, Code!screenVars, codeVars, Code!codeVars

LEMMA CodeCalls ==
  /\ Code!NoCall = NoCall
  /\ Code!Idle <=> Idle
  /\ \A step : Code!At(step) <=> call.step = step
  /\ \A op, s, first : Code!Begin(op, s, first) <=> Begin(op, s, first)
  /\ \A s, first : Code!BeginSubmit(s, first) <=> BeginSubmit(s, first)
  /\ \A first : Code!BeginConnect(first) <=> BeginConnect(first)
  /\ Code!CallDisconnect <=> CallDisconnect
  /\ Code!CallClearScope <=> CallClearScope
  /\ Code!ReturnSession <=> ReturnSession
  /\ \A c : /\ Code!Newest(c) <=> Newest(c)
            /\ Code!Greets(c) <=> Greets(c)
            /\ Code!Loses(c) <=> Loses(c)
            /\ \A s : Code!Draws(c, s) <=> Draws(c, s)
  /\ \A p : Code!Takes(p) <=> Takes(p)
BY DEF Code!NoCall, NoCall, Code!NewCall, NewCall, Code!Idle, Idle, Code!At,
       Code!Begin, Begin, Code!BeginSubmit, BeginSubmit, Code!BeginConnect, BeginConnect,
       Code!CallDisconnect, CallDisconnect, Code!CallClearScope, CallClearScope,
       Code!ReturnSession, ReturnSession, Code!Newest, Newest, Code!Greets, Greets,
       Code!Loses, Loses, Code!Draws, Draws, Code!Takes, Takes, Code!Spend, Spend

(* A channel has one SSE task, which tells Connected as it opens.           *)
CodeInv ==
  /\ "active" \in DOMAIN shared
  /\ shared.active # None => shared.active \in scope
  /\ streams \in Seq(Code!Stream)
  /\ \A t \in DOMAIN streams : streams[t].events <= channel
  /\ \A t, u \in DOMAIN streams : streams[t].events = channel /\ streams[u].events = channel => t = u
  /\ \A t \in DOMAIN streams : streams[t].events = channel /\ streams[t].task = "opening" => ~greeted
  /\ call.step = "probing" => ~greeted /\ \A t \in DOMAIN streams : streams[t].events < channel
  /\ call.op \in {"create", "resume"} => call.session # None
  /\ call.step = "http" /\ call.prompt # 0 => ~Taken(call.prompt)

(* The parts of it that are about the tasks, and those about the call.      *)
LEMMA StreamsKept ==
  ASSUME CodeInv, UNCHANGED <<streams, channel, greeted>>, call' = call \/ call'.step # "probing"
  PROVE  /\ streams' \in Seq(Code!Stream)
         /\ \A t \in DOMAIN streams' : streams'[t].events <= channel'
         /\ \A t, u \in DOMAIN streams' :
              streams'[t].events = channel' /\ streams'[u].events = channel' => t = u
         /\ \A t \in DOMAIN streams' :
              streams'[t].events = channel' /\ streams'[t].task = "opening" => ~greeted'
         /\ call'.step = "probing" => ~greeted' /\ \A t \in DOMAIN streams' : streams'[t].events < channel'
BY DEF CodeInv

LEMMA StreamsAre ==
  ASSUME NEW q \in Seq(Code!Stream)
  PROVE  \A t \in DOMAIN q : q[t] \in Code!Stream /\ q[t].events \in Nat
<1>1. \A t \in DOMAIN q : q[t] \in Code!Stream
  OBVIOUS
<1> QED
  BY <1>1 DEF Code!Stream

LEMMA TaskMoves ==
  ASSUME NEW st \in Code!Stream, NEW state \in {"open", "ended"}
  PROVE  LET moved == [st EXCEPT !.task = state] IN
         moved \in Code!Stream /\ moved.task # "opening" /\ moved.events = st.events
BY DEF Code!Stream

LEMMA StreamChanges ==
  ASSUME NEW q \in Seq(Code!Stream), NEW t \in DOMAIN q, NEW st \in Code!Stream
  PROVE  LET changed == [q EXCEPT ![t] = st] IN
         /\ changed \in Seq(Code!Stream) /\ DOMAIN changed = DOMAIN q
         /\ changed[t] = st /\ \A u \in DOMAIN q : u # t => changed[u] = q[u]
OBVIOUS

LEMMA StreamStarts ==
  ASSUME NEW c \in Nat
  PROVE  [events |-> c, task |-> "opening", aborted |-> FALSE] \in Code!Stream
BY DEF Code!Stream

LEMMA AbortedIs ==
  ASSUME CodeInv, streams' = Code!Aborted
  PROVE  /\ streams' \in Seq(Code!Stream)
         /\ DOMAIN streams' = DOMAIN streams
         /\ \A t \in DOMAIN streams : streams'[t].events = streams[t].events /\ streams'[t].task = streams[t].task
<1>1. /\ Len(streams) \in Nat /\ DOMAIN streams = 1 .. Len(streams)
      /\ \A t \in DOMAIN streams : streams[t] \in Code!Stream
  BY DEF CodeInv
<1>2. \A t \in DOMAIN streams : streams'[t] = [streams[t] EXCEPT !.aborted = TRUE]
  BY DEF Code!Aborted
<1>3. \A t \in DOMAIN streams :
        /\ streams'[t] \in Code!Stream
        /\ streams'[t].events = streams[t].events /\ streams'[t].task = streams[t].task
  BY <1>1, <1>2 DEF Code!Stream
<1>4. streams' = [t \in 1 .. Len(streams) |-> streams'[t]]
  BY <1>1 DEF Code!Aborted
<1>5. streams' \in [1 .. Len(streams) -> Code!Stream]
  BY <1>1, <1>3, <1>4
<1> QED
  BY <1>1, <1>3, <1>5

LEMMA CodeStep ==
  ASSUME CallInv, CodeInv, Code!OpenCodeNext
  PROVE  CallInv' /\ CodeInv' /\ ContractStep
<1>1. CASE Code!CodeConnect
  <2>1. BeginConnect("probing") /\ streams' = Code!Aborted /\ shared' = Code!Cleared
    BY <1>1, CodeCalls DEF Code!CodeConnect
  <2>2. /\ CallInv' /\ ContractStep /\ call' = NewCall("connect", None, 0, "probing")
        /\ channel' = channel + 1 /\ ~greeted'
    BY <2>1, BeginConnectIs
  <2>3. call'.step = "probing" /\ call'.op = "connect"
    BY <2>2 DEF NewCall
  <2>4. "active" \in DOMAIN shared' /\ shared'.active = None
    BY <2>1 DEF Code!Cleared
  <2>5. /\ streams' \in Seq(Code!Stream)
        /\ \A t \in DOMAIN streams' : streams'[t].events < channel'
    <3>1. /\ streams' \in Seq(Code!Stream) /\ DOMAIN streams' = DOMAIN streams
          /\ \A t \in DOMAIN streams : streams'[t].events = streams[t].events
      BY <2>1, AbortedIs
    <3>2. \A t \in DOMAIN streams : streams[t].events \in Nat /\ streams[t].events <= channel
      BY StreamsAre DEF CodeInv
    <3>3. channel' = channel + 1 /\ channel \in Nat
      BY <2>2 DEF CallInv
    <3>4. \A t \in DOMAIN streams : streams'[t].events < channel'
      <4> TAKE t \in DOMAIN streams
      <4>1. streams'[t].events = streams[t].events
        BY <3>1
      <4> QED
        BY <3>2, <3>3, <4>1
    <3> QED
      BY <3>1, <3>4
  <2>6. /\ \A t \in DOMAIN streams' : streams'[t].events <= channel'
        /\ \A t \in DOMAIN streams' : streams'[t].events # channel'
    <3>1. \A t \in DOMAIN streams' : streams'[t].events \in Nat
      BY <2>5, StreamsAre
    <3> QED
      BY <2>2, <2>5, <3>1 DEF CallInv
  <2> QED
    BY <2>2, <2>3, <2>4, <2>5, <2>6 DEF CodeInv
<1>2. CASE Code!CodeDisconnect
  <2>1. CallDisconnect /\ streams' = Code!Aborted /\ shared' = Code!Cleared
    BY <1>2, CodeCalls DEF Code!CodeDisconnect
  <2>2. CallInv' /\ ContractStep /\ UNCHANGED <<call, channel, greeted, prompts>>
    BY <2>1, CallDisconnectIs
  <2>3. "active" \in DOMAIN shared' /\ shared'.active = None
    BY <2>1 DEF Code!Cleared
  <2>4. /\ streams' \in Seq(Code!Stream)
        /\ DOMAIN streams' = DOMAIN streams
        /\ \A t \in DOMAIN streams : streams'[t].events = streams[t].events /\ streams'[t].task = streams[t].task
    BY <2>1, AbortedIs
  <2> QED
    BY <2>2, <2>3, <2>4 DEF CodeInv, Taken
<1>9. CASE Code!CodeProbed
  <2>1. call.step = "probing" /\ call' = NoCall /\ UNCHANGED <<shared, contact, view, prompts>>
    BY <1>9, CodeCalls DEF Code!CodeProbed, Code!Return
  <2>2. CallInv'
    BY <2>1, CallEnds DEF CallInv
  <2>3. ContractStep
    BY <2>1 DEF ContractStep, Contract!vars
  <2>4. call'.step = "idle" /\ call'.op = "none"
    BY <2>1 DEF NoCall, NewCall
  <2>5. CASE UNCHANGED streams
    BY <2>1, <2>2, <2>3, <2>4, <2>5, StreamsKept DEF CodeInv
  <2>6. CASE streams' = Append(streams, [events |-> channel, task |-> "opening", aborted |-> FALSE])
    <3>1. /\ streams' \in Seq(Code!Stream)
          /\ Len(streams) \in Nat /\ DOMAIN streams = 1 .. Len(streams)
          /\ DOMAIN streams' = 1 .. Len(streams) + 1
          /\ streams'[Len(streams) + 1].events = channel
          /\ \A t \in DOMAIN streams : streams'[t] = streams[t]
      <4>1. channel \in Nat /\ streams \in Seq(Code!Stream)
        BY DEF CallInv, CodeInv
      <4>2. [events |-> channel, task |-> "opening", aborted |-> FALSE] \in Code!Stream
        BY <4>1, StreamStarts
      <4> QED
        BY <2>6, <4>1, <4>2
    <3>2. \A t \in DOMAIN streams' : t = Len(streams) + 1 \/ (t \in DOMAIN streams /\ streams'[t].events < channel)
      BY <2>1, <3>1 DEF CodeInv
    <3>3. \A t \in DOMAIN streams' : streams'[t].events <= channel
                                  /\ (streams'[t].events = channel => t = Len(streams) + 1)
      BY <3>1, <3>2 DEF CodeInv, CallInv
    <3>4. ~greeted'
      BY <2>1 DEF CodeInv
    <3> QED
      BY <2>1, <2>2, <2>3, <2>4, <3>1, <3>3, <3>4 DEF CodeInv
  <2> QED
    BY <1>9, <2>5, <2>6 DEF Code!CodeProbed
<1>3. CASE Code!CodeClearSessionScope
  <2>1. CallClearScope /\ shared' = [shared EXCEPT !.active = None] /\ streams' = streams
    BY <1>3, CodeCalls DEF Code!CodeClearSessionScope
  <2>2. CallInv' /\ ContractStep /\ UNCHANGED <<call, contact, prompts>>
    BY <2>1, CallClearScopeIs
  <2>3. "active" \in DOMAIN shared' /\ shared'.active = None
    BY <2>1 DEF CodeInv
  <2> QED
    BY <2>1, <2>2, <2>3, StreamsKept DEF CodeInv, Taken
<1>4. CASE Code!CodeCallBegins \/ Code!CodeResponds
  <2>1. /\ "active" \in DOMAIN shared' /\ streams' = streams
        /\ \/ /\ shared'.active = shared.active
              /\ \E op \in {"list", "interrupt", "respond"} : Begin(op, None, "http")
           \/ /\ shared'.active = shared.active
              /\ \E op \in {"create", "resume"}, s \in Session : Begin(op, s, "http")
           \/ \E s \in Session : BeginSubmit(s, "http") /\ shared'.active = s
    BY <1>4, CodeCalls DEF Code!CodeCallBegins, Code!CodeResponds, CodeInv
  <2>2. CASE /\ shared'.active = shared.active
             /\ \E op \in {"list", "interrupt", "respond"} : Begin(op, None, "http")
    <3>1. PICK op \in {"list", "interrupt", "respond"} : Begin(op, None, "http")
      BY <2>2
    <3>2. /\ CallInv' /\ ContractStep /\ call' = NewCall(op, None, 0, "http")
          /\ scope \subseteq scope' /\ UNCHANGED <<contact, prompts>>
      BY <3>1, BeginIs DEF Op
    <3>3. call'.step = "http" /\ call'.prompt = 0 /\ call'.op \notin {"create", "resume"}
      BY <3>2 DEF NewCall
    <3> QED
      BY <2>1, <2>2, <3>2, <3>3, StreamsKept DEF CodeInv
  <2>3. CASE /\ shared'.active = shared.active
             /\ \E op \in {"create", "resume"}, s \in Session : Begin(op, s, "http")
    <3>1. PICK op \in {"create", "resume"}, s \in Session : Begin(op, s, "http")
      BY <2>3
    <3>2. /\ CallInv' /\ ContractStep /\ call' = NewCall(op, s, 0, "http")
          /\ scope \subseteq scope' /\ UNCHANGED <<contact, prompts>>
      BY <3>1, BeginIs DEF Op
    <3>3. call'.step = "http" /\ call'.prompt = 0 /\ call'.session # None
      BY <3>2, CallsAssumption DEF NewCall
    <3> QED
      BY <2>1, <2>3, <3>2, <3>3, StreamsKept DEF CodeInv
  <2>4. CASE \E s \in Session : BeginSubmit(s, "http") /\ shared'.active = s
    <3>1. PICK s \in Session : BeginSubmit(s, "http") /\ shared'.active = s
      BY <2>4
    <3>2. /\ CallInv' /\ ContractStep /\ call' = NewCall("submit", s, submits + 1, "http")
          /\ ~Taken(call.prompt)' /\ s \in scope' /\ UNCHANGED contact
      BY <3>1, BeginSubmitIs
    <3>3. call'.step = "http" /\ call'.op = "submit"
      BY <3>2 DEF NewCall
    <3> QED
      BY <2>1, <3>1, <3>2, <3>3, StreamsKept DEF CodeInv
  <2> QED
    BY <2>1, <2>2, <2>3, <2>4
<1>5. CASE Code!CodeAnswered
  <2>1. call.step = "http" /\ call' = NoCall /\ UNCHANGED <<streams, contact>>
    BY <1>5, CodeCalls DEF Code!CodeAnswered, ReturnSession
  <2>2. call'.step = "idle" /\ call'.op = "none"
    BY <2>1 DEF NoCall, NewCall
  <2>3. CASE call.op \in {"create", "resume"} /\ ReturnSession
             /\ shared' = [shared EXCEPT !.active = call.session]
    <3>1. CallInv' /\ ContractStep /\ scope' = {call.session}
      BY <2>3, ReturnSessionIs DEF CodeInv
    <3>2. "active" \in DOMAIN shared' /\ shared'.active = call.session
      BY <2>3 DEF CodeInv
    <3> QED
      BY <2>1, <2>2, <3>1, <3>2, StreamsKept DEF CodeInv
  <2>4. CASE Takes(call.prompt) /\ UNCHANGED <<shared, view>>
    <3>1. call.prompt \in 0 .. submits /\ (call.prompt # 0 => ~Taken(call.prompt))
      BY <2>1 DEF CodeInv, CallInv
    <3>2. /\ ContractStep /\ submits' = submits /\ posted' \in Seq(Nat)
          /\ \A i \in DOMAIN posted' : posted'[i] <= submits
      BY <2>1, <2>4, <3>1, TakesIs
    <3>3. CallInv'
      BY <2>1, <2>4, <3>2 DEF CallInv, NoCall, NewCall
    <3> QED
      BY <2>1, <2>2, <2>4, <3>2, <3>3, StreamsKept DEF CodeInv
  <2>5. CASE UNCHANGED <<shared, view, prompts>>
    <3>1. CallInv'
      BY <2>1, <2>5, CallEnds DEF CallInv
    <3>2. ContractStep
      BY <2>1, <2>5 DEF ContractStep, Contract!vars
    <3> QED
      BY <2>1, <2>2, <2>5, <3>1, <3>2, StreamsKept DEF CodeInv
  <2> QED
    BY <1>5, <2>3, <2>4, <2>5, CodeCalls DEF Code!CodeAnswered
<1>6. CASE \E t \in DOMAIN streams : Code!CodeOpens(t) \/ Code!CodeBreaks(t) \/ Code!CodeAborts(t)
  <2>1. PICK t \in DOMAIN streams : Code!CodeOpens(t) \/ Code!CodeBreaks(t) \/ Code!CodeAborts(t)
    BY <1>6
  <2>2. UNCHANGED <<shared, call, channel, view, prompts>>
    BY <2>1, CodeCalls DEF Code!CodeOpens, Code!CodeBreaks, Code!CodeAborts, Code!Ends, Greets, Loses
  <2>3. CallInv'
    BY <2>2, CallGoesOn
  <2>4. PICK state \in {"open", "ended"} : streams' = [streams EXCEPT ![t].task = state]
    BY <2>1 DEF Code!CodeOpens, Code!CodeBreaks, Code!CodeAborts, Code!Ends, Code!Task
  <2>5. /\ streams' \in Seq(Code!Stream)
        /\ DOMAIN streams' = DOMAIN streams
        /\ \A u \in DOMAIN streams : streams'[u].events = streams[u].events
        /\ streams'[t].task # "opening"
        /\ \A u \in DOMAIN streams : u # t => streams'[u].task = streams[u].task
    <3>1. streams[t] \in Code!Stream
      BY StreamsAre DEF CodeInv
    <3>2. /\ streams' = [streams EXCEPT ![t] = [streams[t] EXCEPT !.task = state]]
          /\ streams \in Seq(Code!Stream)
      BY <2>4 DEF CodeInv
    <3>3. /\ [streams[t] EXCEPT !.task = state] \in Code!Stream
          /\ [streams[t] EXCEPT !.task = state].task # "opening"
          /\ [streams[t] EXCEPT !.task = state].events = streams[t].events
      BY <3>1, TaskMoves
    <3>4. /\ streams' \in Seq(Code!Stream) /\ DOMAIN streams' = DOMAIN streams
          /\ streams'[t] = [streams[t] EXCEPT !.task = state]
          /\ \A u \in DOMAIN streams : u # t => streams'[u] = streams[u]
      BY <3>2, <3>3, StreamChanges
    <3> QED
      BY <3>3, <3>4
  <2>6. /\ ContractStep
        /\ greeted' # greeted => streams[t].events = channel /\ streams[t].task = "opening"
    <3>1. CASE streams[t].task = "opening" /\ Greets(streams[t].events)
      <4>1. Newest(streams[t].events) => ~greeted
        BY <3>1 DEF Newest, CodeInv
      <4> QED
        BY <2>2, <3>1, <4>1, GreetsIs DEF Greets, Newest
    <3>2. CASE Loses(streams[t].events)
      BY <2>2, <3>2, LosesIs DEF Loses
    <3>3. CASE UNCHANGED contact
      BY <2>2, <3>3 DEF ContractStep, Contract!vars
    <3> QED
      BY <2>1, <3>1, <3>2, <3>3, CodeCalls
      DEF Code!CodeOpens, Code!CodeBreaks, Code!CodeAborts, Code!Ends
  <2>7. /\ \A u \in DOMAIN streams' : streams'[u].events <= channel'
        /\ \A u, w \in DOMAIN streams' : streams'[u].events = channel' /\ streams'[w].events = channel' => u = w
        /\ call'.step = "probing" => \A u \in DOMAIN streams' : streams'[u].events < channel'
    BY <2>2, <2>5 DEF CodeInv
  <2>8. /\ \A u \in DOMAIN streams' : streams'[u].events = channel' /\ streams'[u].task = "opening" => ~greeted'
        /\ call'.step = "probing" => ~greeted'
    <3>1. ASSUME greeted' # greeted
          PROVE  /\ \A u \in DOMAIN streams' : streams'[u].events = channel' => streams'[u].task # "opening"
                 /\ call'.step # "probing"
      <4>1. streams[t].events = channel /\ channel \in Nat
        BY <2>6, <3>1 DEF CallInv
      <4> QED
        BY <2>2, <2>5, <4>1 DEF CodeInv
    <3>2. CASE greeted' = greeted
      BY <2>2, <2>5, <3>2 DEF CodeInv
    <3> QED
      BY <3>1, <3>2
  <2> QED
    BY <2>2, <2>3, <2>5, <2>6, <2>7, <2>8 DEF CodeInv, Taken
<1>7. CASE \E t \in DOMAIN streams : Code!CodeFrame(t)
  <2>1. PICK t \in DOMAIN streams : Code!CodeFrame(t)
    BY <1>7
  <2>2. PICK s \in Session \cup {None, turn.session} : Code!Passes(t, s)
    BY <2>1 DEF Code!CodeFrame, Code!MessageUpdated, Code!PartUpdated, Code!PermissionUpdated,
                Code!OtherFrame, Code!SessionIdle
  <2>3. /\ Draws(streams[t].events, s) /\ s \in {None, shared.active}
        /\ UNCHANGED <<streams, call, contact, scope, prompts>>
    BY <2>2, CodeCalls DEF Code!Passes, Code!BelongsToOpenSession, Draws
  <2>4. "active" \in DOMAIN shared' /\ shared'.active = shared.active
    BY <2>1 DEF Code!CodeFrame, Code!MessageUpdated, Code!PartUpdated, Code!PermissionUpdated,
                Code!OtherFrame, Code!SessionIdle, Code!TurnEnds, CodeInv
  <2>5. ContractStep
    BY <2>3, DrawsIs DEF CodeInv
  <2>6. CallInv'
    BY <2>3, CallGoesOn
  <2> QED
    BY <2>3, <2>4, <2>5, <2>6, StreamsKept DEF CodeInv, Taken
<1>8. CASE Code!TurnStarts \/ Code!ReplyGrows \/ Code!PartUnheard \/ Code!TurnEndsUnheard
  <2>1. /\ UNCHANGED <<streams, call, contact, view, prompts>>
        /\ "active" \in DOMAIN shared' /\ shared'.active = shared.active
    BY <1>8 DEF Code!TurnStarts, Code!ReplyGrows, Code!PartUnheard, Code!TurnEndsUnheard,
                Code!TurnEnds, CodeInv
  <2>2. CallInv'
    BY <2>1, CallGoesOn
  <2>3. ContractStep
    BY <2>1 DEF ContractStep, Contract!vars
  <2> QED
    BY <2>1, <2>2, <2>3, StreamsKept DEF CodeInv, Taken
<1> QED
  BY <1>1, <1>2, <1>3, <1>4, <1>5, <1>6, <1>7, <1>8, <1>9
  DEF Code!OpenCodeNext, Code!CodeCallStep, Code!CodeTaskStep
-----------------------------------------------------------------------------
(* The local command line agents.                                           *)

USE DEF Line!contact, Line!view, Line!prompts, Line!callVars, Line!cliVars

LEMMA LineCalls ==
  /\ Line!NoCall = NoCall
  /\ Line!Idle <=> Idle
  /\ \A step : Line!At(step) <=> call.step = step
  /\ \A op, s, first : Line!Begin(op, s, first) <=> Begin(op, s, first)
  /\ \A s, first : Line!BeginSubmit(s, first) <=> BeginSubmit(s, first)
  /\ \A first : Line!BeginConnect(first) <=> BeginConnect(first)
  /\ Line!CallDisconnect <=> CallDisconnect
  /\ Line!ReturnSession <=> ReturnSession
  /\ \A c : /\ Line!Newest(c) <=> Newest(c)
            /\ Line!Greets(c) <=> Greets(c)
            /\ Line!Loses(c) <=> Loses(c)
            /\ \A s : Line!Draws(c, s) <=> Draws(c, s)
  /\ \A p : Line!Takes(p) <=> Takes(p)
BY DEF Line!NoCall, NoCall, Line!NewCall, NewCall, Line!Idle, Idle, Line!At,
       Line!Begin, Begin, Line!BeginSubmit, BeginSubmit, Line!BeginConnect, BeginConnect,
       Line!CallDisconnect, CallDisconnect,
       Line!ReturnSession, ReturnSession, Line!Newest, Newest, Line!Greets, Greets,
       Line!Loses, Loses, Line!Draws, Draws, Line!Takes, Takes, Line!Spend, Spend

(* Only Pi asks, and what it asks is given the live session; only the       *)
(* others name a session of their own accord.                               *)
NotSaid == IF kind = "pi" THEN "system" ELSE "question"

Unsaid(lines) ==
  /\ \E S : lines \in Seq(S)
  /\ \A i \in DOMAIN lines : lines[i].what # NotSaid

Opening == call.step \in {"naming", "stopping", "spawning"}

CliInv ==
  /\ Unsaid(output) /\ inHand.what # NotSaid
  /\ kind = "pi" /\ live # None => live \in scope
  /\ kind = "pi" /\ Opening /\ call.op = "create" => live = call.session
  /\ Opening => call.session # None /\ call.op \in {"create", "resume"}
  /\ opened \in Session \cup {None}
  /\ call.step = "probing" => ~greeted
  /\ call.step = "sending" /\ call.prompt # 0 => ~Taken(call.prompt)

LEMMA UnsaidAppend ==
  ASSUME NEW lines, Unsaid(lines), NEW l, l.what # NotSaid
  PROVE  Unsaid(Append(lines, l))
<1>1. PICK S : lines \in Seq(S)
  BY DEF Unsaid
<1>2. lines \in Seq(S \cup {l}) /\ l \in S \cup {l}
  BY <1>1
<1>3. /\ Append(lines, l) \in Seq(S \cup {l})
      /\ \A i \in DOMAIN Append(lines, l) : (i \in DOMAIN lines /\ Append(lines, l)[i] = lines[i])
                                              \/ Append(lines, l)[i] = l
  BY <1>2
<1> QED
  BY <1>3 DEF Unsaid

LEMMA UnsaidTaken ==
  ASSUME NEW lines, Unsaid(lines), lines # <<>>
  PROVE  Head(lines).what # NotSaid /\ Unsaid(Tail(lines))
<1>1. PICK S : lines \in Seq(S)
  BY DEF Unsaid
<1>2. /\ 1 \in DOMAIN lines /\ Head(lines) = lines[1]
      /\ Tail(lines) \in Seq(S)
      /\ \A i \in DOMAIN Tail(lines) : i + 1 \in DOMAIN lines /\ Tail(lines)[i] = lines[i + 1]
  BY <1>1
<1> QED
  BY <1>2 DEF Unsaid

(* What the call asks of the invariant, when the adapter stays as it was.   *)
LEMMA CliKept ==
  ASSUME CliInv, UNCHANGED <<kind, output, inHand, opened>>,
         live' = None \/ (live' = live /\ scope \subseteq scope') \/ live' \in scope',
         ~Opening',
         call'.step = "probing" => ~greeted',
         call'.step = "sending" /\ call'.prompt # 0 => ~Taken(call.prompt)'
  PROVE  CliInv'
BY DEF CliInv, Unsaid, NotSaid

LEMMA CliStep ==
  ASSUME CallInv, CliInv, Line!CliNext
  PROVE  CallInv' /\ CliInv' /\ ContractStep
<1>1. CASE Line!CliConnect
  <2>1. /\ BeginConnect("probing") /\ live' = None /\ output' = <<>>
        /\ UNCHANGED <<kind, inHand, opened>>
    BY <1>1, LineCalls DEF Line!CliConnect, Line!CliDisconnects
  <2>2. CallInv' /\ ContractStep /\ call' = NewCall("connect", None, 0, "probing") /\ ~greeted'
    BY <2>1, BeginConnectIs
  <2>3. call'.step = "probing"
    BY <2>2 DEF NewCall
  <2>4. Unsaid(output)'
    BY <2>1 DEF Unsaid
  <2> QED
    BY <2>1, <2>2, <2>3, <2>4 DEF CliInv, NotSaid, Opening
<1>2. CASE Line!CliDisconnect
  <2>1. /\ CallDisconnect /\ live' = None /\ output' = <<>>
        /\ UNCHANGED <<kind, inHand, opened>>
    BY <1>2, LineCalls DEF Line!CliDisconnect, Line!CliDisconnects
  <2>2. CallInv' /\ ContractStep /\ UNCHANGED <<call, greeted, prompts>>
    BY <2>1, CallDisconnectIs
  <2>3. call.step = "idle"
    BY <2>1 DEF CallDisconnect, Idle
  <2>4. Unsaid(output)'
    BY <2>1 DEF Unsaid
  <2> QED
    BY <2>1, <2>2, <2>3, <2>4 DEF CliInv, NotSaid, Opening
<1>3. CASE Line!CliClearSessionScope
  <2>1. /\ drawn' = {} /\ opened' = None
        /\ UNCHANGED <<kind, live, output, inHand, call, contact, scope, prompts>>
    BY <1>3 DEF Line!CliClearSessionScope
  <2>2. CallInv'
    BY <2>1, CallGoesOn
  <2>3. ContractStep
    BY <2>1 DEF ContractStep, Contract!Next, Contract!Leave
  <2> QED
    BY <2>1, <2>2, <2>3 DEF CliInv, Unsaid, NotSaid, Opening, Taken
<1>4. CASE \E op \in {"create", "resume"}, s \in Session : Line!Opens(op, s)
  <2>1. PICK op \in {"create", "resume"}, s \in Session : Line!Opens(op, s)
    BY <1>4
  <2>2. PICK first \in {"failing", "naming"} : Begin(op, s, first)
    BY <2>1, LineCalls DEF Line!Opens
  <2>3. /\ CallInv' /\ ContractStep /\ call' = NewCall(op, s, 0, first)
        /\ scope \subseteq scope' /\ UNCHANGED <<contact, prompts>>
    BY <2>2, BeginIs DEF Op
  <2>4. call'.op = op /\ call'.session = s /\ call'.step = first /\ s # None
    BY <2>3, CallsAssumption DEF NewCall
  <2>5. s \in scope'
    BY <2>3, <2>4 DEF CallInv
  <2>6. /\ UNCHANGED <<kind, output, inHand, opened>>
        /\ live' = IF op = "create" /\ kind # "codex" THEN s ELSE live
    BY <2>1 DEF Line!Opens
  <2> QED
    BY <2>3, <2>4, <2>5, <2>6 DEF CliInv, Unsaid, NotSaid, Opening
<1>5. CASE /\ UNCHANGED Line!cliVars
           /\ \/ \E op \in {"interrupt", "respond"} : Begin(op, None, "sending")
              \/ \E s \in Session : BeginSubmit(s, "sending")
  <2>1. CASE \E op \in {"interrupt", "respond"} : Begin(op, None, "sending")
    <3>1. PICK op \in {"interrupt", "respond"} : Begin(op, None, "sending")
      BY <2>1
    <3>2. /\ CallInv' /\ ContractStep /\ call' = NewCall(op, None, 0, "sending")
          /\ scope \subseteq scope'
      BY <3>1, BeginIs DEF Op
    <3>3. call'.step = "sending" /\ call'.prompt = 0
      BY <3>2 DEF NewCall
    <3> QED
      BY <1>5, <3>2, <3>3, CliKept DEF Opening
  <2>2. CASE \E s \in Session : BeginSubmit(s, "sending")
    <3>1. PICK s \in Session : BeginSubmit(s, "sending")
      BY <2>2
    <3>2. /\ CallInv' /\ ContractStep /\ call' = NewCall("submit", s, submits + 1, "sending")
          /\ ~Taken(call.prompt)' /\ scope \subseteq scope'
      BY <3>1, BeginSubmitIs
    <3>3. call'.step = "sending"
      BY <3>2 DEF NewCall
    <3> QED
      BY <1>5, <3>2, <3>3, CliKept DEF Opening
  <2> QED
    BY <1>5, <2>1, <2>2
<1>6. CASE Line!CliProbed
  <2>1. /\ call.step = "probing" /\ call' = NoCall
        /\ UNCHANGED <<view, prompts, channel, kind, live, output, inHand, opened>>
        /\ Greets(channel) \/ UNCHANGED contact
    BY <1>6, LineCalls DEF Line!CliProbed, Line!Greets
  <2>2. ContractStep
    BY <2>1, GreetsIs DEF CliInv, ContractStep, Contract!vars
  <2>3. CallInv'
    BY <2>1, CallEnds DEF CallInv
  <2>4. call'.step = "idle"
    BY <2>1 DEF NoCall, NewCall
  <2> QED
    BY <2>1, <2>2, <2>3, <2>4, CliKept DEF Opening
<1>7. CASE Line!Names \/ Line!OldProcessIsOver
  <2>1. PICK step \in {"failing", "stopping", "spawning"} :
          /\ Opening /\ call' = [call EXCEPT !.step = step, !.reply = "none"]
          /\ UNCHANGED <<contact, view, prompts, kind, live, output, inHand, opened>>
    BY <1>7, LineCalls DEF Line!Names, Line!OldProcessIsOver, Line!Goto, Opening
  <2>2. CallInv'
    BY <2>1, CallGoesOn
  <2>3. ContractStep
    BY <2>1 DEF ContractStep, Contract!vars
  <2>4. call'.step = step /\ call'.op = call.op /\ call'.session = call.session
    BY <2>1 DEF CallInv
  <2> QED
    BY <2>1, <2>2, <2>3, <2>4 DEF CliInv, Unsaid, NotSaid, Opening, Taken
<1>8. CASE Line!Spawns
  <2>1. /\ call.step = "spawning" /\ ReturnSession
        /\ live' = (IF call.op = "resume" THEN call.session ELSE live)
        /\ opened' = call.session /\ UNCHANGED <<kind, output, inHand>>
    BY <1>8, LineCalls DEF Line!Spawns
  <2>2. call.session # None /\ call.session \in Session
    BY <2>1 DEF CliInv, Opening, CallInv
  <2>3. /\ CallInv' /\ ContractStep /\ call' = NoCall /\ scope' = {call.session}
    BY <2>1, <2>2, ReturnSessionIs
  <2>4. call'.step = "idle"
    BY <2>3 DEF NoCall, NewCall
  <2>5. call.op \in {"create", "resume"}
    BY <2>1 DEF CliInv, Opening
  <2> QED
    BY <2>1, <2>2, <2>3, <2>4, <2>5 DEF CliInv, Unsaid, NotSaid, Opening
<1>9. CASE Line!SpawnFails
  <2>1. call' = NoCall /\ UNCHANGED <<contact, view, prompts, kind, live, output, inHand, opened>>
    BY <1>9, LineCalls DEF Line!SpawnFails
  <2>2. CallInv'
    BY <2>1, CallEnds DEF CallInv
  <2>3. ContractStep
    BY <2>1 DEF ContractStep, Contract!vars
  <2>4. call'.step = "idle"
    BY <2>1 DEF NoCall, NewCall
  <2> QED
    BY <2>1, <2>2, <2>3, <2>4, CliKept DEF Opening
<1>10. CASE Line!Sends
  <2>1. /\ call.step = "sending" /\ call' = NoCall
        /\ UNCHANGED <<contact, kind, live, output, inHand, opened>>
        /\ \E p \in {0, call.prompt} : Takes(p)
        /\ UNCHANGED view \/ (call.op = "interrupt" /\ Draws(events, None))
    BY <1>10, LineCalls DEF Line!Sends
  <2>2. call'.step = "idle"
    BY <2>1 DEF NoCall, NewCall
  <2>3. CASE UNCHANGED view
    <3>1. PICK p \in {0, call.prompt} : Takes(p)
      BY <2>1
    <3>2. p \in 0 .. submits /\ (p # 0 => ~Taken(p))
      BY <2>1, <3>1 DEF CliInv, CallInv
    <3>3. /\ ContractStep /\ submits' = submits /\ posted' \in Seq(Nat)
          /\ \A i \in DOMAIN posted' : posted'[i] <= submits
      BY <2>1, <2>3, <3>1, <3>2, TakesIs
    <3>4. CallInv'
      BY <2>1, <2>3, <3>3 DEF CallInv, NoCall, NewCall
    <3> QED
      BY <2>1, <2>2, <2>3, <3>3, <3>4, CliKept DEF Opening
  <2>4. CASE call.op = "interrupt" /\ Draws(events, None)
    <3>1. UNCHANGED prompts /\ UNCHANGED scope
      BY <2>1, <2>4 DEF CallInv, Takes, Draws
    <3>2. ContractStep
      BY <2>1, <2>4, <3>1, DrawsIs
    <3>3. CallInv'
      BY <2>1, <3>1, CallEnds DEF CallInv
    <3> QED
      BY <2>1, <2>2, <3>1, <3>2, <3>3, CliKept DEF Opening
  <2> QED
    BY <2>1, <2>3, <2>4
<1>11. CASE Line!ReaderTakes
  <2>1. /\ inHand' = Head(output) /\ output' = Tail(output) /\ output # <<>>
        /\ UNCHANGED <<kind, live, opened, call, contact, view, prompts>>
    BY <1>11 DEF Line!ReaderTakes
  <2>2. CallInv'
    BY <2>1, CallGoesOn
  <2>3. ContractStep
    BY <2>1 DEF ContractStep, Contract!vars
  <2>4. inHand'.what # NotSaid /\ Unsaid(Tail(output)) /\ NotSaid' = NotSaid
    BY <2>1, UnsaidTaken DEF CliInv, NotSaid
  <2>5. Unsaid(output)' /\ inHand'.what # NotSaid'
    BY <2>1, <2>4 DEF Unsaid
  <2> QED
    BY <2>1, <2>2, <2>3, <2>5 DEF CliInv, Opening, Taken
<1>12. CASE Line!ReaderHandles
  <2>1. UNCHANGED <<kind, output, opened, call, prompts>> /\ inHand' = Line!Nothing
    BY <1>12 DEF Line!ReaderHandles
  <2>2. inHand'.what = "none"
    BY <2>1 DEF Line!Nothing
  <2>3. CASE Line!HandlesLine
    <3>1. \/ /\ inHand.what = "system" /\ UNCHANGED <<contact, view>>
          \/ live' = live /\ UNCHANGED contact
             /\ Draws(events, IF inHand.what = "question" THEN live ELSE None)
      BY <2>3, LineCalls DEF Line!HandlesLine
    <3>2. inHand.what = "question" => kind = "pi"
      BY DEF CliInv, NotSaid
    <3>3. inHand.what = "system" => kind # "pi"
      BY DEF CliInv, NotSaid
    <3>4. (IF inHand.what = "question" THEN live ELSE None) \in scope \cup {None}
      BY <3>2 DEF CliInv
    <3>5. ContractStep /\ UNCHANGED <<contact, scope>>
      <4>1. CASE UNCHANGED <<contact, view>>
        BY <2>1, <4>1 DEF ContractStep, Contract!vars
      <4>2. CASE UNCHANGED contact /\ Draws(events, IF inHand.what = "question" THEN live ELSE None)
        <5>1. ContractStep
          BY <2>1, <3>4, <4>2, DrawsIs
        <5> QED
          BY <4>2, <5>1 DEF Draws
      <4> QED
        BY <3>1, <4>1, <4>2
    <3>6. CallInv'
      BY <2>1, <3>5, CallGoesOn
    <3> QED
      BY <2>1, <2>2, <3>1, <3>3, <3>5, <3>6 DEF CliInv, Unsaid, NotSaid, Opening, Taken
  <2>4. CASE Line!HandlesExit
    <3>1. UNCHANGED <<live, view>> /\ (Loses(events) \/ UNCHANGED contact)
      BY <2>4, LineCalls DEF Line!HandlesExit
    <3>2. ContractStep
      BY <2>1, <3>1, LosesIs DEF ContractStep, Contract!vars
    <3>3. UNCHANGED <<channel, greeted>>
      BY <3>1 DEF Loses
    <3>4. CallInv'
      BY <2>1, <3>1, <3>3, CallGoesOn
    <3> QED
      BY <2>1, <2>2, <3>1, <3>2, <3>3, <3>4 DEF CliInv, Unsaid, NotSaid, Opening, Taken
  <2> QED
    BY <1>12, <2>3, <2>4 DEF Line!ReaderHandles
<1>13. CASE Line!ReaderEnds \/ Line!StopRuns
  <2>1. /\ UNCHANGED <<kind, output, live, opened, call, contact, view, prompts>>
        /\ inHand' = inHand \/ inHand' = Line!Nothing
    BY <1>13 DEF Line!ReaderEnds, Line!StopRuns
  <2>2. CallInv'
    BY <2>1, CallGoesOn
  <2>3. ContractStep
    BY <2>1 DEF ContractStep, Contract!vars
  <2>4. inHand'.what # NotSaid
    BY <2>1 DEF CliInv, Line!Nothing, NotSaid
  <2> QED
    BY <2>1, <2>2, <2>3, <2>4 DEF CliInv, Unsaid, NotSaid, Opening, Taken
<1>14. CASE \E p \in DOMAIN process : Line!ProcessExits(p) \/ Line!ProcessWrites(p)
  <2>1. PICK p \in DOMAIN process : Line!ProcessExits(p) \/ Line!ProcessWrites(p)
    BY <1>14
  <2>2. /\ UNCHANGED <<kind, inHand, live, opened, call, contact, view, prompts>>
        /\ \/ output' = output
           \/ \E what : what # NotSaid /\ output' = Append(output, [from |-> p, what |-> what])
    BY <2>1 DEF Line!ProcessExits, Line!ProcessWrites, NotSaid
  <2>3. CallInv'
    BY <2>2, CallGoesOn
  <2>4. ContractStep
    BY <2>2 DEF ContractStep, Contract!vars
  <2>5. Unsaid(output')
    <3>1. CASE output' = output
      BY <3>1 DEF CliInv
    <3>2. ASSUME NEW what, what # NotSaid, output' = Append(output, [from |-> p, what |-> what])
          PROVE  Unsaid(output')
      <4>1. [from |-> p, what |-> what].what # NotSaid /\ Unsaid(output)
        BY <3>2 DEF CliInv
      <4> QED
        BY <3>2, <4>1, UnsaidAppend
    <3> QED
      BY <2>2, <3>1, <3>2
  <2>6. Unsaid(output)'
    BY <2>2, <2>5 DEF Unsaid, NotSaid
  <2> QED
    BY <2>2, <2>3, <2>4, <2>6 DEF CliInv, NotSaid, Opening, Taken
<1> QED
  BY <1>1, <1>2, <1>3, <1>4, <1>5, <1>6, <1>7, <1>8, <1>9, <1>10, <1>11, <1>12, <1>13, <1>14, LineCalls
  DEF Line!CliNext, Line!CliCallStep, Line!CliCallBegins

-----------------------------------------------------------------------------
(* The gateways of OpenClaw and of Hermes: what the two share is            *)
(* AgentGateway's, and is proved of that.                                   *)

Gw == INSTANCE AgentGateway

USE DEF clawVars,
        Gw!contact, Gw!view, Gw!prompts, Gw!callVars, Gw!gatewayVars,
        Claw!contact, Claw!view, Claw!prompts, Claw!callVars, Claw!gatewayVars,
        Herm!contact, Herm!view, Herm!prompts, Herm!callVars, Herm!gatewayVars, Herm!hermesVars

LEMMA ClawCalls ==
  /\ Claw!NoCall = NoCall
  /\ Claw!Idle <=> Idle
  /\ \A step : Claw!At(step) <=> call.step = step
  /\ \A op, s, first : Claw!Begin(op, s, first) <=> Begin(op, s, first)
  /\ \A s, first : Claw!BeginSubmit(s, first) <=> BeginSubmit(s, first)
  /\ Claw!Return <=> Return
  /\ \A step : Claw!Goto(step) <=> Goto(step)
  /\ Claw!ReturnSession <=> ReturnSession
  /\ \A c : /\ Claw!Greets(c) <=> Greets(c)
            /\ Claw!Loses(c) <=> Loses(c)
            /\ \A s : Claw!Draws(c, s) <=> Draws(c, s)
BY DEF Claw!NoCall, NoCall, Claw!NewCall, NewCall, Claw!Idle, Idle, Claw!At,
       Claw!Begin, Begin, Claw!BeginSubmit, BeginSubmit, Claw!Return, Return, Claw!Goto, Goto,
       Claw!ReturnSession, ReturnSession, Claw!Newest, Newest, Claw!Greets, Greets,
       Claw!Loses, Loses, Claw!Draws, Draws, Claw!Spend, Spend

LEMMA HermCalls ==
  /\ Herm!NoCall = NoCall
  /\ \A step : Herm!At(step) <=> call.step = step
  /\ \A op, s, first : Herm!Begin(op, s, first) <=> Begin(op, s, first)
  /\ \A s, first : Herm!BeginSubmit(s, first) <=> BeginSubmit(s, first)
  /\ Herm!CallClearScope <=> CallClearScope
  /\ Herm!Return <=> Return
  /\ Herm!ReturnSession <=> ReturnSession
  /\ \A c : /\ Herm!Greets(c) <=> Greets(c)
            /\ Herm!Loses(c) <=> Loses(c)
            /\ \A s : Herm!Draws(c, s) <=> Draws(c, s)
BY DEF Herm!NoCall, NoCall, Herm!NewCall, NewCall, Herm!Idle, Idle, Herm!At,
       Herm!Begin, Begin, Herm!BeginSubmit, BeginSubmit, Herm!Return, Return,
       Herm!CallClearScope, CallClearScope,
       Herm!ReturnSession, ReturnSession, Herm!Newest, Newest, Herm!Greets, Greets,
       Herm!Loses, Loses, Herm!Draws, Draws, Herm!Spend, Spend

LEMMA GateCalls ==
  /\ Gw!NoCall = NoCall
  /\ \A first : Gw!BeginConnect(first) <=> BeginConnect(first)
  /\ Gw!CallDisconnect <=> CallDisconnect
  /\ \A c : Gw!Loses(c) <=> Loses(c)
  /\ \A p : Gw!Takes(p) <=> Takes(p)
BY DEF Gw!NoCall, NoCall, Gw!NewCall, NewCall, Gw!Idle, Idle,
       Gw!BeginConnect, BeginConnect, Gw!CallDisconnect, CallDisconnect,
       Gw!Newest, Newest, Gw!Loses, Loses, Gw!Takes, Takes, Gw!Spend, Spend

LEMMA ClawGateTerms ==
  /\ Claw!Reachable <=> Gw!Reachable
  /\ \A c : Claw!Enqueue(c) = Gw!Enqueue(c)
  /\ \A c : Claw!NewGateway(c) = Gw!NewGateway(c)
  /\ Claw!Request = Gw!Request
  /\ Claw!HasAnswer <=> Gw!HasAnswer
  /\ \A r : Claw!Answered(r) <=> Gw!Answered(r)
  /\ \A g, new : Claw!Gate(g, new) <=> Gw!Gate(g, new)
  /\ \A g : Claw!Owns(g) <=> Gw!Owns(g)
  /\ \A gw : Claw!Over(gw) = Gw!Over(gw)
  /\ \A g : Claw!Drops(g) <=> Gw!Drops(g)
  /\ \A g, k : Claw!Commanded(g, k) <=> Gw!Commanded(g, k)
  /\ \A g : Claw!Obeyed(g) = Gw!Obeyed(g)
BY DEF Claw!Reachable, Gw!Reachable, Claw!Enqueue, Gw!Enqueue, Claw!NewGateway, Gw!NewGateway,
       Claw!Request, Gw!Request, Claw!HasAnswer, Gw!HasAnswer, Claw!Answered, Gw!Answered,
       Claw!Gate, Gw!Gate, Claw!Owns, Gw!Owns, Claw!Over, Gw!Over, Claw!Drops, Gw!Drops,
       Claw!Reply, Gw!Reply, Claw!Commanded, Gw!Commanded, Claw!Obeyed, Gw!Obeyed

LEMMA ClawGates ==
  /\ \A first : Claw!Connect(first) <=> Gw!Connect(first)
  /\ Claw!Disconnect <=> Gw!Disconnect
  /\ \A commands, next : Claw!Queues(commands, next) <=> Gw!Queues(commands, next)
  /\ Claw!RequestTimesOut <=> Gw!RequestTimesOut
  /\ \A g : /\ Claw!SendsRequest(g) <=> Gw!SendsRequest(g)
            /\ Claw!Closes(g) <=> Gw!Closes(g)
            /\ Claw!Aborts(g) <=> Gw!Aborts(g)
  /\ \A g, i, r : Claw!Serves(g, i, r) <=> Gw!Serves(g, i, r)
  /\ \A g, state : Claw!Breaks(g, state) <=> Gw!Breaks(g, state)
<1>1. /\ \A first : Claw!Connect(first) <=> Gw!Connect(first)
      /\ Claw!Disconnect <=> Gw!Disconnect
  <2>1. /\ \A first : Claw!BeginConnect(first) <=> Gw!BeginConnect(first)
        /\ Claw!CallDisconnect <=> Gw!CallDisconnect
    BY DEF Gw!NewCall, Claw!NewCall, Gw!Idle, Claw!Idle, Gw!Spend, Claw!Spend,
       Gw!BeginConnect, Claw!BeginConnect, Gw!CallDisconnect, Claw!CallDisconnect
  <2>2. Claw!Closed = Gw!Closed /\ \A c : Claw!NewGateway(c) = Gw!NewGateway(c)
    BY DEF Claw!Closed, Gw!Closed, Claw!Reachable, Gw!Reachable, Claw!NewGateway, Gw!NewGateway
  <2>3. Claw!NewGateway(channel') = Gw!NewGateway(channel')
    BY DEF Claw!NewGateway, Gw!NewGateway
  <2> QED
    BY <2>1, <2>2, <2>3 DEF Claw!Connect, Gw!Connect, Claw!Disconnect, Gw!Disconnect
<1>2. \A commands, next : Claw!Queues(commands, next) <=> Gw!Queues(commands, next)
  BY DEF Claw!Queues, Gw!Queues, Claw!Enqueue, Gw!Enqueue, Claw!Reachable, Gw!Reachable
<1>3. Claw!RequestTimesOut <=> Gw!RequestTimesOut
  BY DEF Claw!RequestTimesOut, Gw!RequestTimesOut, Claw!RequestQueued, Gw!RequestQueued,
         Claw!Spend, Gw!Spend, Claw!Reply, Gw!Reply
<1>4. \A g : /\ Claw!SendsRequest(g) <=> Gw!SendsRequest(g)
             /\ Claw!Closes(g) <=> Gw!Closes(g)
             /\ Claw!Aborts(g) <=> Gw!Aborts(g)
  BY ClawGateTerms DEF Claw!SendsRequest, Gw!SendsRequest, Claw!Closes, Gw!Closes, Claw!Aborts,
     Gw!Aborts,
         Claw!Spend, Gw!Spend, Claw!Reply, Gw!Reply
<1>5. \A g, i, r : Claw!Serves(g, i, r) <=> Gw!Serves(g, i, r)
  BY ClawGateTerms DEF Claw!Serves, Gw!Serves, Claw!Answers, Gw!Answers, Claw!RequestQueued,
     Gw!RequestQueued,
         Claw!Reply, Gw!Reply, Claw!Takes, Gw!Takes, Claw!RemoveAt, Gw!RemoveAt
<1>6. \A g, state : Claw!Breaks(g, state) <=> Gw!Breaks(g, state)
  BY ClawGateTerms DEF Claw!Breaks, Gw!Breaks, Claw!Spend, Gw!Spend, Claw!Loses, Gw!Loses,
     Claw!Newest, Gw!Newest
<1> QED
  BY <1>1, <1>2, <1>3, <1>4, <1>5, <1>6

LEMMA HermGateTerms ==
  /\ Herm!Reachable <=> Gw!Reachable
  /\ \A c : Herm!Enqueue(c) = Gw!Enqueue(c)
  /\ \A c : Herm!NewGateway(c) = Gw!NewGateway(c)
  /\ Herm!Request = Gw!Request
  /\ Herm!HasAnswer <=> Gw!HasAnswer
  /\ \A r : Herm!Answered(r) <=> Gw!Answered(r)
  /\ \A g, new : Herm!Gate(g, new) <=> Gw!Gate(g, new)
  /\ \A g : Herm!Owns(g) <=> Gw!Owns(g)
  /\ \A gw : Herm!Over(gw) = Gw!Over(gw)
  /\ \A g : Herm!Drops(g) <=> Gw!Drops(g)
  /\ \A g, k : Herm!Commanded(g, k) <=> Gw!Commanded(g, k)
  /\ \A g : Herm!Obeyed(g) = Gw!Obeyed(g)
BY DEF Herm!Reachable, Gw!Reachable, Herm!Enqueue, Gw!Enqueue, Herm!NewGateway, Gw!NewGateway,
       Herm!Request, Gw!Request, Herm!HasAnswer, Gw!HasAnswer, Herm!Answered, Gw!Answered,
       Herm!Gate, Gw!Gate, Herm!Owns, Gw!Owns, Herm!Over, Gw!Over, Herm!Drops, Gw!Drops,
       Herm!Reply, Gw!Reply, Herm!Commanded, Gw!Commanded, Herm!Obeyed, Gw!Obeyed

LEMMA HermGates ==
  /\ \A first : Herm!Connect(first) <=> Gw!Connect(first)
  /\ Herm!Disconnect <=> Gw!Disconnect
  /\ \A commands, next : Herm!Queues(commands, next) <=> Gw!Queues(commands, next)
  /\ Herm!RequestTimesOut <=> Gw!RequestTimesOut
  /\ \A g : /\ Herm!SendsRequest(g) <=> Gw!SendsRequest(g)
            /\ Herm!Closes(g) <=> Gw!Closes(g)
            /\ Herm!Aborts(g) <=> Gw!Aborts(g)
  /\ \A g, i, r : Herm!Serves(g, i, r) <=> Gw!Serves(g, i, r)
  /\ \A g, state : Herm!Breaks(g, state) <=> Gw!Breaks(g, state)
<1>1. /\ \A first : Herm!Connect(first) <=> Gw!Connect(first)
      /\ Herm!Disconnect <=> Gw!Disconnect
  <2>1. /\ \A first : Herm!BeginConnect(first) <=> Gw!BeginConnect(first)
        /\ Herm!CallDisconnect <=> Gw!CallDisconnect
    BY DEF Gw!NewCall, Herm!NewCall, Gw!Idle, Herm!Idle, Gw!Spend, Herm!Spend,
       Gw!BeginConnect, Herm!BeginConnect, Gw!CallDisconnect, Herm!CallDisconnect
  <2>2. Herm!Closed = Gw!Closed /\ \A c : Herm!NewGateway(c) = Gw!NewGateway(c)
    BY DEF Herm!Closed, Gw!Closed, Herm!Reachable, Gw!Reachable, Herm!NewGateway, Gw!NewGateway
  <2>3. Herm!NewGateway(channel') = Gw!NewGateway(channel')
    BY DEF Herm!NewGateway, Gw!NewGateway
  <2> QED
    BY <2>1, <2>2, <2>3 DEF Herm!Connect, Gw!Connect, Herm!Disconnect, Gw!Disconnect
<1>2. \A commands, next : Herm!Queues(commands, next) <=> Gw!Queues(commands, next)
  BY DEF Herm!Queues, Gw!Queues, Herm!Enqueue, Gw!Enqueue, Herm!Reachable, Gw!Reachable
<1>3. Herm!RequestTimesOut <=> Gw!RequestTimesOut
  BY DEF Herm!RequestTimesOut, Gw!RequestTimesOut, Herm!RequestQueued, Gw!RequestQueued,
         Herm!Spend, Gw!Spend, Herm!Reply, Gw!Reply
<1>4. \A g : /\ Herm!SendsRequest(g) <=> Gw!SendsRequest(g)
             /\ Herm!Closes(g) <=> Gw!Closes(g)
             /\ Herm!Aborts(g) <=> Gw!Aborts(g)
  BY HermGateTerms DEF Herm!SendsRequest, Gw!SendsRequest, Herm!Closes, Gw!Closes, Herm!Aborts,
     Gw!Aborts,
         Herm!Spend, Gw!Spend, Herm!Reply, Gw!Reply
<1>5. \A g, i, r : Herm!Serves(g, i, r) <=> Gw!Serves(g, i, r)
  BY HermGateTerms DEF Herm!Serves, Gw!Serves, Herm!Answers, Gw!Answers, Herm!RequestQueued,
     Gw!RequestQueued,
         Herm!Reply, Gw!Reply, Herm!Takes, Gw!Takes, Herm!RemoveAt, Gw!RemoveAt
<1>6. \A g, state : Herm!Breaks(g, state) <=> Gw!Breaks(g, state)
  BY HermGateTerms DEF Herm!Breaks, Gw!Breaks, Herm!Spend, Gw!Spend, Herm!Loses, Gw!Loses,
     Herm!Newest, Gw!Newest
<1> QED
  BY <1>1, <1>2, <1>3, <1>4, <1>5, <1>6

-----------------------------------------------------------------------------
(* What one gateway is, with its prompts not bounded by those submitted.    *)
GateCommand ==
  [kind : {"request"}, prompt : Nat] \cup
  [kind : {"active"}, session : Session \cup {None}] \cup
  [kind : {"close"}]

GateRecord ==
  [events : Nat, task : {"dialing", "open", "ended"}, aborted : BOOLEAN,
   commands : Seq(GateCommand), wire : Seq(Nat),
   state : {"pending", "connected", "failed"},
   handshake : {"none", "asked", "accepted", "rejected", "done"},
   active : Session \cup {None}]

GateTypes == gateways \in Seq(GateRecord) /\ gateway \in 0 .. Len(gateways)

IsRequest(c) == c.kind = "request"

(* The handle's gateway has a request in its queue. *)
Queued ==
  /\ gateway > 0
  /\ \E i \in DOMAIN gateways[gateway].commands : IsRequest(gateways[gateway].commands[i])

(* The newest channel is of one gateway, and the handle holds it while it   *)
(* runs and is listened to.                                                 *)
Channels ==
  /\ channel = 0 => line = "closed"
  /\ \A g \in DOMAIN gateways : gateways[g].events <= channel
  /\ channel # 0 =>
       \A g, h \in DOMAIN gateways :
         gateways[g].events = channel /\ gateways[h].events = channel => g = h
  /\ line # "closed" =>
       \A g \in DOMAIN gateways :
         gateways[g].events = channel /\ gateways[g].task # "ended" => g = gateway

(* The call's request, and no other, is in a queue: at the end of the held  *)
(* gateway's, which nothing follows; and once it has left it, it is the     *)
(* newest on the wire.                                                      *)
GateQueues ==
  /\ \A g \in DOMAIN gateways : gateways[g].task = "ended" => gateways[g].commands = <<>>
  /\ \A g \in DOMAIN gateways : \A i \in DOMAIN gateways[g].commands :
       IsRequest(gateways[g].commands[i]) =>
         /\ g = gateway /\ i = Len(gateways[g].commands)
         /\ gateways[g].commands[i].prompt = call.prompt
         /\ call.reply = "waiting"
  /\ gateway > 0 /\ call.reply # "none" /\ gateways[gateway].commands # <<>> => Queued
  /\ call.step \notin {"asked", "subscribing", "legacy"} => call.reply = "none"
  /\ gateway > 0 /\ gateways[gateway].task # "ended" /\ call.reply = "waiting" /\ ~Queued =>
       /\ gateways[gateway].wire # <<>>
       /\ gateways[gateway].wire[Len(gateways[gateway].wire)] = call.prompt

OnWire(p) ==
  \E g \in DOMAIN gateways : \E i \in DOMAIN gateways[g].wire : gateways[g].wire[i] = p

(* The call may still put its prompt on a wire. *)
Pending ==
  \/ call.step = "asking" \/ Queued
  \/ call.step = "asked" /\ call.reply = "unexpected"

(* A prompt is on one wire at most, and one that is, or is still to be put  *)
(* on one, was not taken.                                                   *)
Prompts ==
  /\ \A g \in DOMAIN gateways : \A i \in DOMAIN gateways[g].wire :
       /\ gateways[g].wire[i] <= submits
       /\ gateways[g].wire[i] # 0 => ~Taken(gateways[g].wire[i])
  /\ \A g, h \in DOMAIN gateways :
       \A i \in DOMAIN gateways[g].wire, j \in DOMAIN gateways[h].wire :
         gateways[g].wire[i] = gateways[h].wire[j] /\ gateways[g].wire[i] # 0 => g = h /\ i = j
  /\ call.prompt # 0 /\ Pending => ~Taken(call.prompt) /\ ~OnWire(call.prompt)

GateInv == GateTypes /\ Channels /\ GateQueues /\ Prompts

-----------------------------------------------------------------------------
(* One gateway. *)

LEMMA GateFields ==
  ASSUME NEW gw \in GateRecord
  PROVE  /\ gw.events \in Nat /\ gw.commands \in Seq(GateCommand) /\ gw.wire \in Seq(Nat)
         /\ gw.active \in Session \cup {None}
BY DEF GateRecord

LEMMA OverIs ==
  ASSUME NEW gw \in GateRecord, NEW state \in {"pending", "connected", "failed"}
  PROVE  /\ Gw!Over(gw) \in GateRecord
         /\ [Gw!Over(gw) EXCEPT !.state = state] \in GateRecord
         /\ \A new \in {Gw!Over(gw), [Gw!Over(gw) EXCEPT !.state = state]} :
              /\ new.events = gw.events /\ new.task = "ended"
              /\ new.commands = <<>> /\ new.wire = <<>> /\ new.active = gw.active
              /\ gw.handshake = "done" => new.handshake = "done"
<1> DEFINE over == Gw!Over(gw)
<1>1. <<>> \in Seq(GateCommand) /\ <<>> \in Seq(Nat)
  OBVIOUS
<1>2. over \in GateRecord
  BY <1>1 DEF GateRecord, Gw!Over
<1>3. /\ over.events = gw.events /\ over.task = "ended"
      /\ over.commands = <<>> /\ over.wire = <<>> /\ over.active = gw.active
      /\ gw.handshake = "done" => over.handshake = "done"
  BY DEF GateRecord, Gw!Over
<1> HIDE DEF over
<1>4. /\ [over EXCEPT !.state = state] \in GateRecord
      /\ [over EXCEPT !.state = state].events = over.events
      /\ [over EXCEPT !.state = state].task = over.task
      /\ [over EXCEPT !.state = state].commands = over.commands
      /\ [over EXCEPT !.state = state].wire = over.wire
      /\ [over EXCEPT !.state = state].active = over.active
      /\ [over EXCEPT !.state = state].handshake = over.handshake
  BY <1>2 DEF GateRecord
<1> QED
  BY <1>2, <1>3, <1>4 DEF over

LEMMA NewGatewayIs ==
  ASSUME NEW c \in Nat
  PROVE  /\ Gw!NewGateway(c) \in GateRecord
         /\ Gw!NewGateway(c).events = c /\ Gw!NewGateway(c).task = "dialing"
         /\ Gw!NewGateway(c).commands = <<>> /\ Gw!NewGateway(c).wire = <<>>
         /\ Gw!NewGateway(c).handshake = "none" /\ Gw!NewGateway(c).active = None
<1>1. <<>> \in Seq(GateCommand) /\ <<>> \in Seq(Nat)
  OBVIOUS
<1> QED
  BY <1>1 DEF GateRecord, Gw!NewGateway

(* All of them. *)

LEMMA GatesAre ==
  ASSUME NEW q \in Seq(GateRecord)
  PROVE  /\ Len(q) \in Nat /\ DOMAIN q = 1 .. Len(q)
         /\ \A g \in DOMAIN q : q[g] \in GateRecord
OBVIOUS

LEMMA GateIs ==
  ASSUME NEW q \in Seq(GateRecord), NEW g \in DOMAIN q, NEW new \in GateRecord
  PROVE  LET changed == [q EXCEPT ![g] = new] IN
         /\ changed \in Seq(GateRecord) /\ Len(changed) = Len(q) /\ DOMAIN changed = DOMAIN q
         /\ changed[g] = new /\ \A h \in DOMAIN q : h # g => changed[h] = q[h]
OBVIOUS

LEMMA GateAppended ==
  ASSUME NEW q \in Seq(GateRecord), NEW new \in GateRecord
  PROVE  LET longer == Append(q, new) IN
         /\ longer \in Seq(GateRecord) /\ Len(longer) = Len(q) + 1
         /\ DOMAIN longer = DOMAIN q \cup {Len(q) + 1}
         /\ Len(q) + 1 \notin DOMAIN q
         /\ longer[Len(q) + 1] = new /\ \A h \in DOMAIN q : longer[h] = q[h]
OBVIOUS

-----------------------------------------------------------------------------
(* The parts of the invariant, for the steps that hardly touch them.        *)

LEMMA ChannelsKept ==
  ASSUME Channels, UNCHANGED <<gateway, channel>>, line' # "closed" => line # "closed",
         DOMAIN gateways' = DOMAIN gateways,
         \A g \in DOMAIN gateways : /\ gateways'[g].events = gateways[g].events
                                    /\ gateways'[g].task # "ended" => gateways[g].task # "ended"
  PROVE  Channels'
BY DEF Channels

LEMMA NothingQueued ==
  ASSUME GateTypes, GateQueues, call.reply # "waiting"
  PROVE  /\ \A g \in DOMAIN gateways : \A i \in DOMAIN gateways[g].commands :
              ~IsRequest(gateways[g].commands[i])
         /\ ~Queued
         /\ gateway > 0 => gateway \in DOMAIN gateways
         /\ gateway > 0 /\ call.reply # "none" => gateways[gateway].commands = <<>>
BY DEF GateTypes, GateQueues, Queued

LEMMA QueuesRest ==
  ASSUME call'.reply # "waiting",
         call'.step \notin {"asked", "subscribing", "legacy"} => call'.reply = "none",
         \A g \in DOMAIN gateways' :
           /\ gateways'[g].task = "ended" => gateways'[g].commands = <<>>
           /\ \A i \in DOMAIN gateways'[g].commands : ~IsRequest(gateways'[g].commands[i]),
         gateway' > 0 /\ call'.reply # "none" => gateways'[gateway'].commands = <<>>
  PROVE  GateQueues'
BY DEF GateQueues, IsRequest

(* Wires stay as they are or are emptied; the call goes on with its prompt, *)
(* has none or has a new one.                                               *)
LEMMA PromptsKept ==
  ASSUME CallInv, GateTypes, Prompts, GateTypes',
         \A g \in DOMAIN gateways' :
           gateways'[g].wire = <<>> \/ (g \in DOMAIN gateways /\ gateways'[g].wire = gateways[g].wire),
         posted' = posted, submits' \in Nat, submits <= submits',
         \/ call'.prompt = 0 \/ call'.prompt = submits + 1
         \/ call'.prompt = call.prompt /\ (Pending' => Pending)
  PROVE  Prompts'
<1>1. \A g \in DOMAIN gateways' : \A i \in DOMAIN gateways'[g].wire :
        /\ g \in DOMAIN gateways /\ i \in DOMAIN gateways[g].wire
        /\ gateways'[g].wire[i] = gateways[g].wire[i] /\ gateways[g].wire[i] \in Nat
  BY GatesAre, GateFields DEF GateTypes
<1>2. \A g \in DOMAIN gateways' : \A i \in DOMAIN gateways'[g].wire :
        /\ gateways'[g].wire[i] <= submits'
        /\ gateways'[g].wire[i] <= submits
        /\ gateways'[g].wire[i] # 0 => ~Taken(gateways'[g].wire[i])
  BY <1>1 DEF Prompts, CallInv
<1>3. \A p : OnWire(p)' => OnWire(p)
  BY <1>1 DEF OnWire
<1>4. \A p : Taken(p)' = Taken(p)
  BY DEF Taken
<1>5. submits \in Nat /\ ~Taken(submits + 1)
  BY DEF CallInv, Taken
<1>6. ~OnWire(submits + 1)'
  BY <1>2, <1>5 DEF OnWire
<1>7. call'.prompt # 0 /\ Pending' => ~Taken(call'.prompt) /\ \A g \in DOMAIN gateways' :
         \A i \in DOMAIN gateways'[g].wire : gateways'[g].wire[i] # call'.prompt
  <2>1. CASE call'.prompt = submits + 1
    BY <1>2, <1>5, <2>1
  <2>2. CASE call'.prompt = call.prompt /\ (Pending' => Pending)
    BY <1>1, <2>2 DEF Prompts, OnWire
  <2> QED
    BY <2>1, <2>2
<1>8. (\A g \in DOMAIN gateways : \A i \in DOMAIN gateways[g].wire :
         /\ gateways[g].wire[i] <= submits
         /\ gateways[g].wire[i] # 0 => ~Taken(gateways[g].wire[i]))'
  BY <1>2 DEF Taken
<1>9. (\A g, h \in DOMAIN gateways :
         \A i \in DOMAIN gateways[g].wire, j \in DOMAIN gateways[h].wire :
         gateways[g].wire[i] = gateways[h].wire[j] /\ gateways[g].wire[i] # 0 => g = h /\ i = j)'
  BY <1>1 DEF Prompts
<1> QED
  BY <1>7, <1>8, <1>9 DEF Prompts, Taken, OnWire

(* A step of one gateway's task. *)
GateStep(g, new) ==
  /\ g \in DOMAIN gateways /\ new \in GateRecord
  /\ gateways' = [gateways EXCEPT ![g] = new] /\ gateway' = gateway
  /\ new.events = gateways[g].events
  /\ new.task # "ended" => gateways[g].task # "ended"
  /\ channel' = channel /\ (line' # "closed" => line # "closed")

LEMMA GateStepIs ==
  ASSUME GateInv, NEW g, NEW new, GateStep(g, new)
  PROVE  /\ GateTypes' /\ Channels'
         /\ DOMAIN gateways' = DOMAIN gateways
         /\ gateways'[g] = new /\ \A h \in DOMAIN gateways : h # g => gateways'[h] = gateways[h]
         /\ gateway > 0 => gateway \in DOMAIN gateways
<1>1. /\ gateways \in Seq(GateRecord) /\ g \in DOMAIN gateways /\ new \in GateRecord
      /\ gateways' = [gateways EXCEPT ![g] = new] /\ gateway' = gateway
  BY DEF GateStep, GateInv, GateTypes
<1>2. /\ gateways' \in Seq(GateRecord) /\ Len(gateways') = Len(gateways)
      /\ DOMAIN gateways' = DOMAIN gateways
      /\ gateways'[g] = new /\ \A h \in DOMAIN gateways : h # g => gateways'[h] = gateways[h]
  BY <1>1, GateIs
<1>3. GateTypes' /\ (gateway > 0 => gateway \in DOMAIN gateways)
  BY <1>1, <1>2, GatesAre DEF GateInv, GateTypes
<1>4. \A h \in DOMAIN gateways : /\ gateways'[h].events = gateways[h].events
                                 /\ gateways'[h].task # "ended" => gateways[h].task # "ended"
  BY <1>2 DEF GateStep
<1>5. Channels'
  BY <1>1, <1>2, <1>4, ChannelsKept DEF GateStep, GateInv
<1> QED
  BY <1>2, <1>3, <1>5

(* It does nothing to its queue and its wire. *)
LEMMA GateMoves ==
  ASSUME CallInv, GateInv, NEW g, NEW new, GateStep(g, new),
         new.task = "ended" => gateways[g].task = "ended",
         new.commands = gateways[g].commands, new.wire = gateways[g].wire,
         UNCHANGED <<call, prompts>>
  PROVE  GateInv'
<1>1. /\ GateTypes' /\ Channels' /\ DOMAIN gateways' = DOMAIN gateways /\ gateway' = gateway
      /\ gateways'[g] = new /\ \A h \in DOMAIN gateways : h # g => gateways'[h] = gateways[h]
      /\ gateway > 0 => gateway \in DOMAIN gateways
  BY GateStepIs DEF GateStep
<1>2. \A h \in DOMAIN gateways : /\ gateways'[h].commands = gateways[h].commands
                                 /\ gateways'[h].wire = gateways[h].wire
                                 /\ gateways'[h].task = "ended" => gateways[h].task = "ended"
                                 /\ gateways'[h].task # "ended" => gateways[h].task # "ended"
  BY <1>1 DEF GateStep
<1>3. Queued' = Queued
  BY <1>1, <1>2 DEF Queued
<1>4. GateQueues'
  BY <1>1, <1>2, <1>3 DEF GateQueues, GateInv
<1>5. Prompts'
  BY <1>1, <1>2, <1>3, PromptsKept DEF GateInv, Pending, CallInv
<1> QED
  BY <1>1, <1>4, <1>5 DEF GateInv

(* Its task ends, and the call it answers may be told so. *)
LEMMA GateEnds ==
  ASSUME CallInv, GateInv, NEW g, NEW new, GateStep(g, new),
         new.task = "ended", new.commands = <<>>, new.wire = <<>>,
         \/ call' = call
         \/ g = gateway /\ call' = IF call.reply = "waiting" THEN [call EXCEPT !.reply = "dropped"] ELSE call,
         UNCHANGED prompts
  PROVE  GateInv'
<1>1. /\ GateTypes' /\ Channels' /\ DOMAIN gateways' = DOMAIN gateways /\ gateway' = gateway
      /\ gateways'[g] = new /\ \A h \in DOMAIN gateways : h # g => gateways'[h] = gateways[h]
      /\ gateway > 0 => gateway \in DOMAIN gateways
  BY GateStepIs DEF GateStep
<1>2. /\ call'.prompt = call.prompt /\ call'.step = call.step
      /\ call'.reply = call.reply \/ (g = gateway /\ call.reply = "waiting" /\ call'.reply = "dropped")
  BY DEF CallInv
<1>3. Queued' => Queued
  BY <1>1 DEF Queued
<1>4. GateQueues'
  <2>1. \A h \in DOMAIN gateways' : gateways'[h].task = "ended" => gateways'[h].commands = <<>>
    BY <1>1 DEF GateInv, GateQueues
  <2>2. \A h \in DOMAIN gateways' : \A i \in DOMAIN gateways'[h].commands :
          IsRequest(gateways'[h].commands[i]) =>
            /\ h # g /\ h = gateway /\ i = Len(gateways'[h].commands)
            /\ gateways'[h].commands[i].prompt = call.prompt /\ call.reply = "waiting"
    BY <1>1 DEF GateInv, GateQueues
  <2>3. gateway > 0 /\ call'.reply # "none" /\ gateways'[gateway].commands # <<>> => Queued'
    <3>1. CASE g = gateway
      BY <1>1, <3>1
    <3>2. CASE g # gateway
      BY <1>1, <1>2, <3>2 DEF GateInv, GateQueues, Queued
    <3> QED
      BY <3>1, <3>2
  <2>4. gateway > 0 /\ gateways'[gateway].task # "ended" /\ call'.reply = "waiting" /\ ~Queued' =>
          /\ gateways'[gateway].wire # <<>>
          /\ gateways'[gateway].wire[Len(gateways'[gateway].wire)] = call'.prompt
    <3>1. CASE g = gateway
      BY <1>1, <3>1
    <3>2. CASE g # gateway
      BY <1>1, <1>2, <3>2 DEF GateInv, GateQueues, Queued
    <3> QED
      BY <3>1, <3>2
  <2>5. call'.step \notin {"asked", "subscribing", "legacy"} => call'.reply = "none"
    BY <1>2 DEF GateInv, GateQueues
  <2> QED
    BY <1>1, <1>2, <2>1, <2>2, <2>3, <2>4, <2>5 DEF GateQueues
<1>5. Prompts'
  <2>1. Pending' => Pending
    BY <1>2, <1>3 DEF Pending
  <2>2. \A h \in DOMAIN gateways' :
           gateways'[h].wire = <<>> \/ (h \in DOMAIN gateways /\ gateways'[h].wire = gateways[h].wire)
    BY <1>1
  <2> QED
    BY <1>1, <1>2, <2>1, <2>2, PromptsKept DEF GateInv, CallInv
<1> QED
  BY <1>1, <1>4, <1>5 DEF GateInv

-----------------------------------------------------------------------------
(* The steps that the two adapters share.                                   *)

(* What the other steps of the task leave to the adapter's own invariant.   *)
SameCall ==
  /\ call'.op = call.op /\ call'.session = call.session
  /\ call'.prompt = call.prompt /\ call'.step = call.step
  /\ call'.reply = "none" <=> call.reply = "none"

TaskStep(g) ==
  /\ DOMAIN gateways' = DOMAIN gateways /\ gateway' = gateway
  /\ \A h \in DOMAIN gateways : h # g => gateways'[h] = gateways[h]
  /\ gateways'[g].events = gateways[g].events
  /\ gateways'[g].active = gateways[g].active
  /\ gateways[g].handshake = "done" => gateways'[g].handshake = "done"
  /\ gateways'[g].task = gateways[g].task \/ gateways'[g].task = "ended"
  /\ \/ gateways'[g].commands = gateways[g].commands
     \/ /\ gateways'[g].commands = <<>>
        /\ Len(gateways[g].commands) = 1 \/ gateways'[g].task = "ended"
  /\ SameCall
  /\ UNCHANGED <<view, channel, greeted>>

LEMMA Tails ==
  ASSUME NEW S, NEW q \in Seq(S), q # <<>>
  PROVE  /\ Len(q) \in Nat /\ Len(q) >= 1 /\ Head(q) = q[1] /\ 1 \in DOMAIN q
         /\ Tail(q) \in Seq(S) /\ Len(Tail(q)) = Len(q) - 1
         /\ Len(q) = 1 => Tail(q) = <<>>
         /\ \A i \in DOMAIN Tail(q) : i + 1 \in DOMAIN q /\ Tail(q)[i] = q[i + 1]
OBVIOUS

LEMMA Appends ==
  ASSUME NEW S, NEW q \in Seq(S), NEW e \in S, NEW longer, longer = Append(q, e)
  PROVE  /\ longer \in Seq(S) /\ longer # <<>> /\ longer[Len(longer)] = e
         /\ \A i \in DOMAIN q : i \in DOMAIN longer /\ i # Len(longer) /\ longer[i] = q[i]
         /\ \A i \in DOMAIN longer : i = Len(longer) \/ i \in DOMAIN q
<1>1. /\ longer \in Seq(S) /\ Len(q) \in Nat /\ Len(longer) = Len(q) + 1
      /\ DOMAIN q = 1 .. Len(q) /\ DOMAIN longer = 1 .. Len(q) + 1
      /\ longer[Len(q) + 1] = e
      /\ \A i \in DOMAIN q : longer[i] = q[i]
  OBVIOUS
<1>2. Len(q) + 1 \in DOMAIN longer
  BY <1>1
<1> QED
  BY <1>1, <1>2

LEMMA RequestIs ==
  ASSUME GateInv, NEW g \in DOMAIN gateways, Gw!Commanded(g, "request")
  PROVE  /\ g = gateway /\ gateways[g].task = "open" /\ call.reply = "waiting"
         /\ Len(gateways[g].commands) = 1 /\ Tail(gateways[g].commands) = <<>>
         /\ Head(gateways[g].commands).prompt = call.prompt
         /\ Queued
<1>1. /\ gateways[g].commands \in Seq(GateCommand) /\ gateways[g].commands # <<>>
      /\ gateways[g].task = "open" /\ Head(gateways[g].commands).kind = "request"
  BY GatesAre, GateFields DEF Gw!Commanded, GateInv, GateTypes
<1>2. /\ Head(gateways[g].commands) = gateways[g].commands[1] /\ 1 \in DOMAIN gateways[g].commands
      /\ Len(gateways[g].commands) = 1 => Tail(gateways[g].commands) = <<>>
  BY <1>1, Tails
<1>3. /\ g = gateway /\ 1 = Len(gateways[g].commands) /\ call.reply = "waiting"
      /\ gateways[g].commands[1].prompt = call.prompt
  BY <1>1, <1>2 DEF GateInv, GateQueues, IsRequest
<1>4. Queued
  BY <1>1, <1>2, <1>3, GatesAre DEF Queued, IsRequest, GateInv, GateTypes
<1> QED
  BY <1>1, <1>2, <1>3, <1>4

(* Its only command, the call's request, leaves the queue. *)
LEMMA SendsRequestIs ==
  ASSUME CallInv, GateInv, NEW g \in DOMAIN gateways, Gw!SendsRequest(g)
  PROVE  CallInv' /\ GateInv' /\ ContractStep /\ TaskStep(g)
<1>1. /\ g = gateway /\ gateways[g].task = "open" /\ call.reply = "waiting"
      /\ Len(gateways[g].commands) = 1 /\ Tail(gateways[g].commands) = <<>>
      /\ Head(gateways[g].commands).prompt = call.prompt
      /\ Queued
  BY RequestIs DEF Gw!SendsRequest
<1>2. gateways[g] \in GateRecord /\ g \in Nat /\ g > 0
  BY GatesAre DEF GateInv, GateTypes
<1>3. UNCHANGED <<contact, view, prompts>> /\ gateway' = gateway
  BY DEF Gw!SendsRequest, Gw!Gate
<1>4. ContractStep
  BY <1>3 DEF ContractStep, Contract!vars
<1> DEFINE wire == Append(gateways[g].wire, call.prompt)
           sent == [gateways[g] EXCEPT !.commands = <<>>, !.wire = wire]
           popped == [gateways[g] EXCEPT !.commands = <<>>]
<1>5. call.prompt \in Nat /\ gateways[g].wire \in Seq(Nat)
  BY <1>2, GateFields DEF CallInv
<1>6. /\ wire \in Seq(Nat) /\ wire # <<>> /\ wire[Len(wire)] = call.prompt
      /\ \A i \in DOMAIN wire :
           \/ i = Len(wire) /\ wire[i] = call.prompt
           \/ i \in DOMAIN gateways[g].wire /\ wire[i] = gateways[g].wire[i]
  <2>1. wire = Append(gateways[g].wire, call.prompt)
    OBVIOUS
  <2> HIDE DEF wire
  <2> QED
    BY <1>5, <2>1, Appends
<1>7. \/ gateways' = [gateways EXCEPT ![g] = sent] /\ call' = call
      \/ /\ gateways' = [gateways EXCEPT ![g] = popped]
         /\ call' = [call EXCEPT !.reply = "refused"]
  <2>1. CASE Gw!Gate(g, [Gw!Obeyed(g) EXCEPT !.wire = Append(@, Head(gateways[g].commands).prompt)])
             /\ call' = call
    <3>1. Gw!Obeyed(g) = popped
      BY <1>1 DEF Gw!Obeyed
    <3>2. popped.wire = gateways[g].wire
      BY <1>2 DEF GateRecord
    <3>3. [popped EXCEPT !.wire = Append(@, call.prompt)] = sent
      BY <1>2, <3>2 DEF GateRecord
    <3> QED
      BY <1>1, <2>1, <3>1, <3>3 DEF Gw!Gate
  <2>2. CASE Gw!Gate(g, Gw!Obeyed(g)) /\ (IF Gw!Owns(g) THEN Gw!Reply("refused") ELSE UNCHANGED call)
    BY <1>1, <2>2 DEF Gw!Gate, Gw!Obeyed, Gw!Owns, Gw!Reply
  <2> QED
    BY <2>1, <2>2 DEF Gw!SendsRequest
<1>8. /\ sent \in GateRecord /\ sent.events = gateways[g].events /\ sent.task = "open"
      /\ sent.commands = <<>> /\ sent.wire = wire
      /\ sent.active = gateways[g].active /\ sent.handshake = gateways[g].handshake
  <2>1. <<>> \in Seq(GateCommand)
    OBVIOUS
  <2> HIDE DEF wire
  <2> QED
    BY <1>1, <1>2, <1>6, <2>1 DEF GateRecord
<1>9. /\ popped \in GateRecord /\ popped.events = gateways[g].events /\ popped.task = "open"
      /\ popped.commands = <<>> /\ popped.wire = gateways[g].wire
      /\ popped.active = gateways[g].active /\ popped.handshake = gateways[g].handshake
  <2>1. <<>> \in Seq(GateCommand)
    OBVIOUS
  <2> QED
    BY <1>1, <1>2, <2>1 DEF GateRecord
<1> HIDE DEF wire, sent, popped
<1>10. PICK new \in {sent, popped} : GateStep(g, new) /\ gateways' = [gateways EXCEPT ![g] = new]
  BY <1>1, <1>3, <1>7, <1>8, <1>9 DEF GateStep
<1>11. /\ GateTypes' /\ Channels' /\ DOMAIN gateways' = DOMAIN gateways
       /\ gateways'[g] = new /\ \A h \in DOMAIN gateways : h # g => gateways'[h] = gateways[h]
  BY <1>10, GateStepIs
<1>12. /\ call'.op = call.op /\ call'.session = call.session
       /\ call'.prompt = call.prompt /\ call'.step = call.step
       /\ call'.reply \in {"waiting", "refused"}
  BY <1>1, <1>7 DEF CallInv
<1>13. CallInv'
  BY <1>3, <1>7, <1>12 DEF CallInv
<1>14. \A h \in DOMAIN gateways' : \A i \in DOMAIN gateways'[h].commands :
         ~IsRequest(gateways'[h].commands[i])
  <2>1. gateways'[g].commands = <<>>
    BY <1>8, <1>9, <1>10, <1>11
  <2>2. \A h \in DOMAIN gateways : h # g => \A i \in DOMAIN gateways[h].commands :
          ~IsRequest(gateways[h].commands[i])
    BY <1>1 DEF GateInv, GateQueues
  <2> QED
    BY <1>11, <2>1, <2>2
<1>15. ~Queued'
  BY <1>1, <1>3, <1>11, <1>14 DEF Queued
<1>16. call.step \in {"asked", "subscribing", "legacy"}
  BY <1>1 DEF GateInv, GateQueues
<1>17. ~Pending'
  BY <1>12, <1>15, <1>16 DEF Pending
<1>18. GateQueues'
  <2>1. call'.reply = "waiting" => gateways'[g] = sent
    <3>1. CASE gateways' = [gateways EXCEPT ![g] = sent]
      BY <1>8, <3>1, GateIs DEF GateInv, GateTypes
    <3>2. CASE call' = [call EXCEPT !.reply = "refused"]
      BY <3>2 DEF CallInv
    <3> QED
      BY <1>7, <3>1, <3>2
  <2>2. call'.reply = "waiting" =>
          gateways'[gateway].wire # <<>> /\ gateways'[gateway].wire[Len(gateways'[gateway].wire)] = call'.prompt
    BY <1>1, <1>6, <1>8, <1>12, <2>1
  <2>3. \A h \in DOMAIN gateways' : gateways'[h].task = "ended" => gateways'[h].commands = <<>>
    BY <1>8, <1>9, <1>10, <1>11 DEF GateInv, GateQueues
  <2>4. gateways'[gateway'].commands = <<>>
    BY <1>1, <1>3, <1>8, <1>9, <1>10, <1>11
  <2> QED
    BY <1>3, <1>12, <1>14, <1>16, <2>2, <2>3, <2>4 DEF GateQueues
<1>19. Prompts'
  <2>1. CASE new = popped
    <3>1. \A h \in DOMAIN gateways' : h \in DOMAIN gateways /\ gateways'[h].wire = gateways[h].wire
      BY <1>9, <1>11, <2>1
    <3> QED
      BY <1>3, <1>11, <1>12, <1>17, <3>1, PromptsKept DEF GateInv, CallInv
  <2>2. CASE new = sent
    <3>1. call.prompt # 0 => ~Taken(call.prompt) /\ ~OnWire(call.prompt)
      BY <1>1 DEF GateInv, Prompts, Pending
    <3>2. /\ gateways'[g].wire = wire
          /\ \A h \in DOMAIN gateways : h # g => gateways'[h].wire = gateways[h].wire
      BY <1>8, <1>11, <2>2
    <3>3. \A h \in DOMAIN gateways : \A i \in DOMAIN gateways'[h].wire :
            \/ h = g /\ i = Len(wire) /\ gateways'[h].wire[i] = call.prompt
            \/ i \in DOMAIN gateways[h].wire /\ gateways'[h].wire[i] = gateways[h].wire[i]
      BY <1>6, <3>2
    <3>4. \A h \in DOMAIN gateways : \A i \in DOMAIN gateways[h].wire :
            gateways[h].wire[i] # 0 => gateways[h].wire[i] # call.prompt
      BY <3>1 DEF OnWire
    <3>5. \A p : Taken(p)' = Taken(p)
      BY <1>3 DEF Taken
    <3>6. (\A h \in DOMAIN gateways : \A i \in DOMAIN gateways[h].wire :
             /\ gateways[h].wire[i] <= submits
             /\ gateways[h].wire[i] # 0 => ~Taken(gateways[h].wire[i]))'
      <4> SUFFICES ASSUME NEW h \in DOMAIN gateways, NEW i \in DOMAIN gateways'[h].wire
                   PROVE  /\ gateways'[h].wire[i] <= submits
                          /\ gateways'[h].wire[i] # 0 => ~Taken(gateways'[h].wire[i])
        BY <1>3, <1>11 DEF Taken
      <4> QED
        BY <3>1, <3>3 DEF GateInv, Prompts, CallInv
    <3>7. (\A h, k \in DOMAIN gateways :
             \A i \in DOMAIN gateways[h].wire, j \in DOMAIN gateways[k].wire :
             gateways[h].wire[i] = gateways[k].wire[j] /\ gateways[h].wire[i] # 0 => h = k /\ i = j)'
      <4> SUFFICES ASSUME NEW h \in DOMAIN gateways, NEW k \in DOMAIN gateways,
                          NEW i \in DOMAIN gateways'[h].wire, NEW j \in DOMAIN gateways'[k].wire,
                          gateways'[h].wire[i] = gateways'[k].wire[j], gateways'[h].wire[i] # 0
                   PROVE  h = k /\ i = j
        BY <1>11
      <4> QED
        BY <3>3, <3>4 DEF GateInv, Prompts
    <3> QED
      BY <1>17, <3>6, <3>7 DEF Prompts
  <2> QED
    BY <1>10, <2>1, <2>2
<1>20. TaskStep(g)
  BY <1>1, <1>3, <1>8, <1>9, <1>10, <1>11, <1>12 DEF TaskStep, SameCall
<1> QED
  BY <1>4, <1>11, <1>13, <1>18, <1>19, <1>20 DEF GateInv

(* Where the request at j was, before the one at i was answered. *)
Before(i, j) == IF j < i THEN j ELSE j + 1

LEMMA Removed ==
  ASSUME NEW q \in Seq(Nat), NEW i \in DOMAIN q, NEW shorter, shorter = Gw!RemoveAt(q, i)
  PROVE  /\ shorter \in Seq(Nat)
         /\ \A j \in DOMAIN shorter :
              /\ Before(i, j) \in DOMAIN q /\ Before(i, j) # i
              /\ shorter[j] = q[Before(i, j)]
         /\ \A j, k \in DOMAIN shorter : Before(i, j) = Before(i, k) => j = k
         /\ i # Len(q) => shorter # <<>> /\ shorter[Len(shorter)] = q[Len(q)]
<1> DEFINE front == SubSeq(q, 1, i - 1)
           back == SubSeq(q, i + 1, Len(q))
<1>1. Len(q) \in Nat /\ DOMAIN q = 1 .. Len(q) /\ i \in 1 .. Len(q)
  OBVIOUS
<1>2. /\ front \in Seq(Nat) /\ Len(front) = i - 1
      /\ \A j \in 1 .. i - 1 : front[j] = q[j]
  BY <1>1
<1>3. /\ back \in Seq(Nat) /\ Len(back) = Len(q) - i
      /\ \A j \in 1 .. Len(q) - i : back[j] = q[j + i]
  <2>1. /\ i + 1 \in Int /\ Len(q) \in Int /\ \A j \in i + 1 .. Len(q) : q[j] \in Nat
        /\ Len(q) - (i + 1) + 1 = Len(q) - i
        /\ (IF i + 1 <= Len(q) THEN Len(q) - (i + 1) + 1 ELSE 0) = Len(q) - i
    BY <1>1
  <2>2. /\ back \in Seq(Nat)
        /\ Len(back) = IF i + 1 <= Len(q) THEN Len(q) - (i + 1) + 1 ELSE 0
        /\ \A j \in 1 .. Len(q) - (i + 1) + 1 : back[j] = q[(i + 1) + j - 1]
    BY <2>1, SubSeqProperties
  <2>3. \A j \in 1 .. Len(q) - i : (i + 1) + j - 1 = j + i
    BY <1>1
  <2> HIDE DEF back
  <2> QED
    BY <2>1, <2>2, <2>3
<1>4. shorter = front \o back
  BY DEF Gw!RemoveAt
<1> HIDE DEF front, back
<1>5. /\ shorter \in Seq(Nat) /\ Len(shorter) = Len(q) - 1
      /\ \A j \in 1 .. i - 1 : shorter[j] = front[j]
      /\ \A j \in 1 .. Len(q) - i : shorter[j + (i - 1)] = back[j]
  <2>1. /\ shorter \in Seq(Nat) /\ Len(shorter) = Len(front) + Len(back)
        /\ \A j \in 1 .. Len(front) + Len(back) :
             shorter[j] = IF j <= Len(front) THEN front[j] ELSE back[j - Len(front)]
    <3>1. /\ front \o back \in Seq(Nat) /\ Len(front \o back) = Len(front) + Len(back)
          /\ \A j \in 1 .. Len(front) + Len(back) :
               (front \o back)[j] = IF j <= Len(front) THEN front[j] ELSE back[j - Len(front)]
      BY <1>2, <1>3, ConcatProperties
    <3> QED
      BY <1>4, <3>1, Zenon
  <2>2. /\ Len(front) + Len(back) = Len(q) - 1
        /\ \A j \in 1 .. i - 1 : j \in 1 .. Len(q) - 1 /\ j <= i - 1
        /\ \A j \in 1 .. Len(q) - i :
             /\ j + (i - 1) \in 1 .. Len(q) - 1 /\ ~(j + (i - 1) <= i - 1)
             /\ (j + (i - 1)) - (i - 1) = j
    <3>1. Len(front) + Len(back) = Len(q) - 1
      BY <1>1, <1>2, <1>3
    <3>2. \A j \in 1 .. i - 1 : j \in 1 .. Len(q) - 1 /\ j <= i - 1
      BY <1>1
    <3>3. \A n \in Nat : \A k \in 1 .. n : \A j \in 1 .. n - k :
             /\ j + (k - 1) \in 1 .. n - 1 /\ ~(j + (k - 1) <= k - 1)
             /\ (j + (k - 1)) - (k - 1) = j
      OBVIOUS
    <3> QED
      BY <1>1, <3>1, <3>2, <3>3
  <2>3. \A j \in 1 .. Len(q) - 1 : shorter[j] = IF j <= i - 1 THEN front[j] ELSE back[j - (i - 1)]
    BY <1>2, <2>1, <2>2
  <2>4. \A j \in 1 .. i - 1 : shorter[j] = front[j]
    BY <2>2, <2>3
  <2>5. ASSUME NEW j \in 1 .. Len(q) - i
        PROVE  shorter[j + (i - 1)] = back[j]
    BY <2>2, <2>3
  <2> QED
    BY <2>1, <2>2, <2>4, <2>5
<1>6. DOMAIN shorter = 1 .. Len(q) - 1
  BY <1>5
<1>7. \A j \in DOMAIN shorter :
        /\ Before(i, j) \in DOMAIN q /\ Before(i, j) # i
        /\ shorter[j] = q[Before(i, j)]
  <2> SUFFICES ASSUME NEW j \in 1 .. Len(q) - 1
               PROVE  /\ Before(i, j) \in DOMAIN q /\ Before(i, j) # i
                      /\ shorter[j] = q[Before(i, j)]
    BY <1>6
  <2>1. CASE j < i
    <3>1. j \in 1 .. i - 1 /\ j \in 1 .. Len(q) /\ j # i
      BY <1>1, <2>1
    <3> QED
      BY <1>1, <1>2, <1>5, <2>1, <3>1 DEF Before
  <2>2. CASE ~(j < i)
    <3>1. j - (i - 1) \in 1 .. Len(q) - i /\ (j - (i - 1)) + i = j + 1
      BY <1>1, <2>2
    <3>2. (j - (i - 1)) + (i - 1) = j
      BY <1>1
    <3>3. /\ shorter[(j - (i - 1)) + (i - 1)] = back[j - (i - 1)]
          /\ back[j - (i - 1)] = q[(j - (i - 1)) + i]
      BY <1>3, <1>5, <3>1, Zenon
    <3>4. shorter[j] = q[j + 1]
      BY <3>1, <3>2, <3>3, Zenon
    <3>5. j + 1 \in DOMAIN q /\ j + 1 # i
      BY <1>1, <2>2
    <3> QED
      BY <2>2, <3>4, <3>5, Zenon DEF Before
  <2> QED
    BY <2>1, <2>2
<1>8. \A j, k \in DOMAIN shorter : Before(i, j) = Before(i, k) => j = k
  BY <1>1, <1>6 DEF Before
<1>9. i # Len(q) => shorter # <<>> /\ shorter[Len(shorter)] = q[Len(q)]
  <2> SUFFICES ASSUME i # Len(q)
               PROVE  shorter # <<>> /\ shorter[Len(shorter)] = q[Len(q)]
    OBVIOUS
  <2>1. Len(q) - 1 \in 1 .. Len(q) - 1 /\ ~(Len(q) - 1 < i) /\ (Len(q) - 1) + 1 = Len(q)
    BY <1>1
  <2>2. Before(i, Len(q) - 1) = Len(q)
    BY <2>1 DEF Before
  <2>3. shorter[Len(q) - 1] = q[Len(q)]
    BY <1>6, <1>7, <2>1, <2>2
  <2>4. shorter # <<>>
    BY <1>6, <2>1
  <2> QED
    BY <1>5, <2>3, <2>4
<1> QED
  BY <1>5, <1>7, <1>8, <1>9

(* An answer. *)
LEMMA ServesIs ==
  ASSUME CallInv, GateInv, NEW g \in DOMAIN gateways, NEW i \in DOMAIN gateways[g].wire,
         NEW r, r \in {"ok", "refused", "unexpected"}, Gw!Serves(g, i, r)
  PROVE  CallInv' /\ GateInv' /\ ContractStep /\ TaskStep(g)
<1> DEFINE wire == Gw!RemoveAt(gateways[g].wire, i)
           served == [gateways[g] EXCEPT !.wire = wire]
           p == gateways[g].wire[i]
<1>1. /\ gateways[g] \in GateRecord /\ gateways[g].wire \in Seq(Nat) /\ gateways[g].task = "open"
      /\ p \in Nat
  BY GatesAre, GateFields DEF GateInv, GateTypes, Gw!Serves
<1>2. /\ wire \in Seq(Nat)
      /\ \A j \in DOMAIN wire :
           /\ Before(i, j) \in DOMAIN gateways[g].wire /\ Before(i, j) # i
           /\ wire[j] = gateways[g].wire[Before(i, j)]
      /\ \A j, k \in DOMAIN wire : Before(i, j) = Before(i, k) => j = k
      /\ i # Len(gateways[g].wire) =>
           wire # <<>> /\ wire[Len(wire)] = gateways[g].wire[Len(gateways[g].wire)]
  BY <1>1, Removed
<1>3. /\ gateways' = [gateways EXCEPT ![g] = served] /\ gateway' = gateway
      /\ UNCHANGED <<contact, view, submits>>
      /\ IF r = "ok" THEN Takes(p) ELSE UNCHANGED prompts
      /\ IF g = gateway /\ i = Len(gateways[g].wire) /\ ~Gw!RequestQueued(g)
         THEN call' = IF call.reply = "waiting" THEN [call EXCEPT !.reply = r] ELSE call
         ELSE call' = call
  BY GateCalls DEF Gw!Serves, Gw!Gate, Gw!Answers, Gw!Owns, Gw!Reply, Takes
<1> HIDE DEF wire, p
<1>4. /\ served \in GateRecord /\ served.events = gateways[g].events /\ served.task = "open"
      /\ served.commands = gateways[g].commands /\ served.wire = wire
      /\ served.active = gateways[g].active /\ served.handshake = gateways[g].handshake
  BY <1>1, <1>2 DEF GateRecord
<1> HIDE DEF served
<1>5. /\ GateTypes' /\ Channels' /\ DOMAIN gateways' = DOMAIN gateways
      /\ gateways'[g] = served /\ \A h \in DOMAIN gateways : h # g => gateways'[h] = gateways[h]
      /\ gateway > 0 => gateway \in DOMAIN gateways
  BY <1>1, <1>3, <1>4, GateStepIs DEF GateStep
<1>6. /\ p <= submits /\ (p # 0 => ~Taken(p))
      /\ \A h \in DOMAIN gateways : \A j \in DOMAIN gateways[h].wire :
           gateways[h].wire[j] = p /\ p # 0 => h = g /\ j = i
  BY DEF GateInv, Prompts, p
<1>7. /\ ContractStep /\ posted' \in Seq(Nat) /\ \A j \in DOMAIN posted' : posted'[j] <= submits
      /\ \A q : Taken(q)' <=> Taken(q) \/ (r = "ok" /\ q = p /\ p # 0)
  <2>1. CASE r = "ok"
    <3>1. Takes(p) /\ p \in 0 .. submits /\ UNCHANGED <<contact, view>>
      BY <1>1, <1>3, <1>6, <2>1 DEF CallInv
    <3> QED
      BY <1>6, <2>1, <3>1, TakesIs
  <2>2. CASE r # "ok"
    BY <1>3, <2>2 DEF ContractStep, Contract!vars, CallInv, Taken
  <2> QED
    BY <2>1, <2>2
<1>8. /\ call'.op = call.op /\ call'.session = call.session
      /\ call'.prompt = call.prompt /\ call'.step = call.step
      /\ DOMAIN call' = DOMAIN call
      /\ \/ call'.reply = call.reply
         \/ /\ call.reply = "waiting" /\ call'.reply = r
            /\ g = gateway /\ i = Len(gateways[g].wire) /\ ~Queued
  <2>1. g = gateway /\ ~Gw!RequestQueued(g) => ~Queued
    BY <1>5 DEF Queued, Gw!RequestQueued, IsRequest
  <2> QED
    BY <1>3, <2>1 DEF CallInv
<1>9. CallInv'
  BY <1>3, <1>7, <1>8 DEF CallInv
<1>10. Queued' = Queued
  BY <1>3, <1>4, <1>5 DEF Queued
<1>11. /\ \A h \in DOMAIN gateways : /\ gateways'[h].commands = gateways[h].commands
                                     /\ gateways'[h].task = gateways[h].task
       /\ \A h \in DOMAIN gateways : h # g => gateways'[h].wire = gateways[h].wire
       /\ gateways'[g].wire = wire
  BY <1>1, <1>4, <1>5
<1>12. GateQueues'
  <2>1. \A h \in DOMAIN gateways' : \A j \in DOMAIN gateways'[h].commands :
          IsRequest(gateways'[h].commands[j]) =>
            /\ h = gateway /\ j = Len(gateways'[h].commands)
            /\ gateways'[h].commands[j].prompt = call.prompt
            /\ call'.reply = "waiting"
    <3> SUFFICES ASSUME NEW h \in DOMAIN gateways, NEW j \in DOMAIN gateways[h].commands,
                        IsRequest(gateways[h].commands[j])
                 PROVE  /\ h = gateway /\ j = Len(gateways[h].commands)
                        /\ gateways[h].commands[j].prompt = call.prompt
                        /\ call'.reply = "waiting"
      BY <1>5, <1>11
    <3>1. /\ h = gateway /\ j = Len(gateways[h].commands)
          /\ gateways[h].commands[j].prompt = call.prompt
          /\ call.reply = "waiting"
      BY DEF GateInv, GateQueues
    <3>2. Queued
      BY <3>1 DEF Queued, GateInv, GateTypes
    <3> QED
      BY <1>8, <3>1, <3>2
  <2>2. gateway > 0 /\ call'.reply # "none" /\ gateways'[gateway].commands # <<>> => Queued'
    BY <1>5, <1>8, <1>10, <1>11 DEF GateInv, GateQueues
  <2>3. gateway > 0 /\ gateways'[gateway].task # "ended" /\ call'.reply = "waiting" /\ ~Queued' =>
          /\ gateways'[gateway].wire # <<>>
          /\ gateways'[gateway].wire[Len(gateways'[gateway].wire)] = call'.prompt
    <3> SUFFICES ASSUME gateway > 0, gateways'[gateway].task # "ended", call'.reply = "waiting", ~Queued'
                 PROVE  /\ gateways'[gateway].wire # <<>>
                        /\ gateways'[gateway].wire[Len(gateways'[gateway].wire)] = call'.prompt
      OBVIOUS
    <3>1. call.reply = "waiting"
      BY <1>8
    <3>2. /\ gateways[gateway].wire # <<>>
          /\ gateways[gateway].wire[Len(gateways[gateway].wire)] = call.prompt
      BY <1>5, <1>10, <1>11, <3>1 DEF GateInv, GateQueues
    <3>3. CASE g # gateway
      BY <1>5, <1>8, <1>11, <3>2, <3>3
    <3>4. CASE g = gateway
      <4>1. i # Len(gateways[g].wire)
        <5>1. ~Gw!RequestQueued(g)
          BY <1>10, <3>4 DEF Queued, Gw!RequestQueued, IsRequest
        <5>2. r # "waiting"
          OBVIOUS
        <5> QED
          BY <1>3, <3>1, <3>4, <5>1, <5>2 DEF CallInv
      <4> QED
        BY <1>2, <1>8, <1>11, <3>2, <3>4, <4>1
    <3> QED
      BY <3>3, <3>4
  <2>4. call'.step \notin {"asked", "subscribing", "legacy"} => call'.reply = "none"
    BY <1>8 DEF GateInv, GateQueues
  <2>5. \A h \in DOMAIN gateways' : gateways'[h].task = "ended" => gateways'[h].commands = <<>>
    BY <1>5, <1>11 DEF GateInv, GateQueues
  <2> QED
    BY <1>3, <1>8, <2>1, <2>2, <2>3, <2>4, <2>5 DEF GateQueues
<1>13. \A h \in DOMAIN gateways : \A j \in DOMAIN gateways'[h].wire :
         \E k \in DOMAIN gateways[h].wire :
           /\ gateways'[h].wire[j] = gateways[h].wire[k]
           /\ h = g => k # i /\ k = Before(i, j)
           /\ h # g => k = j
  <2> SUFFICES ASSUME NEW h \in DOMAIN gateways, NEW j \in DOMAIN gateways'[h].wire
               PROVE  \E k \in DOMAIN gateways[h].wire :
                        /\ gateways'[h].wire[j] = gateways[h].wire[k]
                        /\ h = g => k # i /\ k = Before(i, j)
                        /\ h # g => k = j
    OBVIOUS
  <2>1. CASE h = g
    BY <1>2, <1>11, <2>1
  <2>2. CASE h # g
    BY <1>11, <2>2
  <2> QED
    BY <2>1, <2>2
<1>14. Prompts'
  <2>1. (\A h \in DOMAIN gateways : \A j \in DOMAIN gateways[h].wire :
           /\ gateways[h].wire[j] <= submits
           /\ gateways[h].wire[j] # 0 => ~Taken(gateways[h].wire[j]))'
    <3> SUFFICES ASSUME NEW h \in DOMAIN gateways, NEW j \in DOMAIN gateways'[h].wire,
                        NEW v, v = gateways'[h].wire[j]
                 PROVE  v <= submits /\ (v # 0 => ~Taken(v)')
      BY <1>3, <1>5 DEF Taken
    <3>1. PICK k \in DOMAIN gateways[h].wire : v = gateways[h].wire[k] /\ (h = g => k # i)
      BY <1>13
    <3>2. v <= submits /\ (v # 0 => ~Taken(v))
      BY <3>1 DEF GateInv, Prompts
    <3>3. v # 0 => v # p
      BY <1>6, <3>1
    <3> QED
      BY <1>7, <3>2, <3>3
  <2>2. (\A h, l \in DOMAIN gateways :
           \A j \in DOMAIN gateways[h].wire, k \in DOMAIN gateways[l].wire :
           gateways[h].wire[j] = gateways[l].wire[k] /\ gateways[h].wire[j] # 0 => h = l /\ j = k)'
    <3> SUFFICES ASSUME NEW h \in DOMAIN gateways, NEW l \in DOMAIN gateways,
                        NEW j \in DOMAIN gateways'[h].wire, NEW k \in DOMAIN gateways'[l].wire,
                        gateways'[h].wire[j] = gateways'[l].wire[k], gateways'[h].wire[j] # 0
                 PROVE  h = l /\ j = k
      BY <1>5
    <3>1. PICK m \in DOMAIN gateways[h].wire :
            /\ gateways'[h].wire[j] = gateways[h].wire[m]
            /\ h = g => m = Before(i, j)
            /\ h # g => m = j
      BY <1>13
    <3>2. PICK n \in DOMAIN gateways[l].wire :
            /\ gateways'[l].wire[k] = gateways[l].wire[n]
            /\ l = g => n = Before(i, k)
            /\ l # g => n = k
      BY <1>13
    <3>3. h = l /\ m = n
      <4>1. gateways[h].wire[m] = gateways[l].wire[n] /\ gateways[h].wire[m] # 0
        BY <3>1, <3>2
      <4> QED
        BY <4>1 DEF GateInv, Prompts
    <3> QED
      BY <1>2, <1>11, <3>1, <3>2, <3>3
  <2>3. call'.prompt # 0 /\ Pending' => (~Taken(call.prompt) /\ ~OnWire(call.prompt))'
    <3> SUFFICES ASSUME call.prompt # 0, Pending'
                 PROVE  (~Taken(call.prompt) /\ ~OnWire(call.prompt))'
      BY <1>8
    <3>1. CASE Pending
      <4>1. ~Taken(call.prompt) /\ ~OnWire(call.prompt)
        BY <3>1 DEF GateInv, Prompts
      <4>2. call.prompt # p
        BY <4>1 DEF OnWire, p
      <4>3. ~Taken(call.prompt)'
        BY <1>7, <1>8, <4>1, <4>2 DEF Taken
      <4>4. ~OnWire(call.prompt)'
        BY <1>5, <1>8, <1>13, <4>1 DEF OnWire
      <4> QED
        BY <4>3, <4>4
    <3>2. CASE ~Pending
      <4>1. /\ call'.reply = "unexpected" /\ r = "unexpected"
            /\ call.reply = "waiting" /\ g = gateway /\ i = Len(gateways[g].wire) /\ ~Queued
        BY <1>8, <1>10, <3>2 DEF Pending
      <4>2. p = call.prompt
        BY <1>1, <1>5, <4>1 DEF GateInv, GateQueues, GateTypes, p
      <4>3. ~Taken(call.prompt)'
        BY <1>6, <1>7, <1>8, <4>1, <4>2 DEF Taken
      <4>4. ~OnWire(call.prompt)'
        BY <1>5, <1>6, <1>8, <1>13, <4>2 DEF OnWire
      <4> QED
        BY <4>3, <4>4
    <3> QED
      BY <3>1, <3>2
  <2> QED
    BY <2>1, <2>2, <2>3 DEF Prompts
<1>15. TaskStep(g)
  BY <1>1, <1>3, <1>4, <1>5, <1>8 DEF TaskStep, SameCall
<1> QED
  BY <1>5, <1>7, <1>9, <1>12, <1>14, <1>15 DEF GateInv

(* The end of a task. *)
LEMMA EndsIs ==
  ASSUME CallInv, GateInv, NEW g \in DOMAIN gateways,
         Gw!Closes(g) \/ Gw!Aborts(g)
  PROVE  CallInv' /\ GateInv' /\ ContractStep /\ TaskStep(g)
<1> DEFINE new == Gw!Over(gateways[g])
<1>1. /\ gateways[g] \in GateRecord /\ gateways[g].task # "ended"
      /\ gateways' = [gateways EXCEPT ![g] = new] /\ gateway' = gateway
      /\ UNCHANGED <<call, contact, view, prompts>>
  BY GatesAre DEF Gw!Closes, Gw!Aborts, Gw!Gate, Gw!Commanded, GateInv, GateTypes
<1>2. /\ new \in GateRecord /\ new.events = gateways[g].events /\ new.task = "ended"
      /\ new.commands = <<>> /\ new.wire = <<>> /\ new.active = gateways[g].active
      /\ gateways[g].handshake = "done" => new.handshake = "done"
  BY <1>1, OverIs
<1> HIDE DEF new
<1>3. GateStep(g, new)
  BY <1>1, <1>2 DEF GateStep
<1>4. GateInv'
  BY <1>1, <1>2, <1>3, GateEnds
<1>5. TaskStep(g)
  BY <1>1, <1>2, <1>3, GateStepIs DEF TaskStep, SameCall
<1>6. CallInv' /\ ContractStep
  BY <1>1, CallGoesOn DEF ContractStep, Contract!vars
<1> QED
  BY <1>4, <1>5, <1>6

LEMMA FailsIs ==
  ASSUME CallInv, GateInv, NEW g \in DOMAIN gateways, NEW new \in GateRecord,
         gateways[g].task # "ended",
         gateways' = [gateways EXCEPT ![g] = new], gateway' = gateway,
         new.events = gateways[g].events, new.task = "ended",
         new.commands = <<>>, new.wire = <<>>, new.active = gateways[g].active,
         gateways[g].handshake = "done" => new.handshake = "done",
         Loses(gateways[g].events), Gw!Drops(g), UNCHANGED <<view, prompts>>
  PROVE  CallInv' /\ GateInv' /\ ContractStep /\ TaskStep(g)
<1>1. UNCHANGED <<channel, greeted>> /\ (line' # "closed" => line # "closed")
  BY DEF Loses, Newest
<1>2. GateStep(g, new)
  BY <1>1 DEF GateStep
<1>3. \/ call' = call
      \/ g = gateway /\ call' = IF call.reply = "waiting" THEN [call EXCEPT !.reply = "dropped"] ELSE call
  BY DEF Gw!Drops, Gw!Owns, Gw!Reply
<1>4. GateInv'
  BY <1>2, <1>3, GateEnds
<1>5. SameCall /\ DOMAIN call' = DOMAIN call
  BY <1>3 DEF SameCall, CallInv
<1>6. TaskStep(g)
  BY <1>1, <1>2, <1>5, GateStepIs DEF TaskStep
<1>7. CallInv'
  BY <1>1, <1>5 DEF CallInv, SameCall
<1>8. ContractStep
  BY LosesIs
<1> QED
  BY <1>4, <1>6, <1>7, <1>8

LEMMA BreaksIs ==
  ASSUME CallInv, GateInv, NEW g \in DOMAIN gateways,
         NEW state \in {"pending", "connected", "failed"}, Gw!Breaks(g, state)
  PROVE  CallInv' /\ GateInv' /\ ContractStep /\ TaskStep(g)
<1> DEFINE new == [Gw!Over(gateways[g]) EXCEPT !.state = state]
<1>1. /\ gateways[g] \in GateRecord /\ gateways[g].task # "ended"
      /\ gateways' = [gateways EXCEPT ![g] = new] /\ gateway' = gateway
      /\ Loses(gateways[g].events) /\ Gw!Drops(g) /\ UNCHANGED <<view, prompts>>
  BY GatesAre, GateCalls DEF Gw!Breaks, Gw!Gate, GateInv, GateTypes
<1>2. /\ new \in GateRecord /\ new.events = gateways[g].events /\ new.task = "ended"
      /\ new.commands = <<>> /\ new.wire = <<>> /\ new.active = gateways[g].active
      /\ gateways[g].handshake = "done" => new.handshake = "done"
  BY <1>1, OverIs
<1> HIDE DEF new
<1> QED
  BY <1>1, <1>2, FailsIs

(* The call's own timeout. *)
LEMMA RequestTimesOutIs ==
  ASSUME CallInv, GateInv, Gw!RequestTimesOut
  PROVE  /\ CallInv' /\ GateInv' /\ ContractStep
         /\ SameCall /\ UNCHANGED <<gateways, gateway, contact, view, prompts>>
<1>1. /\ call.reply = "waiting" /\ call' = [call EXCEPT !.reply = "dropped"]
      /\ UNCHANGED <<gateways, gateway, contact, view, prompts>>
      /\ ~Queued
  BY DEF Gw!RequestTimesOut, Gw!RequestQueued, Gw!Reply, Queued, IsRequest
<1>2. SameCall /\ call'.reply = "dropped" /\ DOMAIN call' = DOMAIN call
  BY <1>1 DEF SameCall, CallInv
<1>3. CallInv'
  BY <1>1, <1>2 DEF CallInv, SameCall
<1>4. /\ \A g \in DOMAIN gateways : \A i \in DOMAIN gateways[g].commands :
           ~IsRequest(gateways[g].commands[i])
      /\ gateway > 0 => gateways[gateway].commands = <<>>
  BY <1>1 DEF GateInv, GateQueues, Queued, GateTypes
<1>5. GateQueues'
  BY <1>1, <1>2, <1>4, QueuesRest DEF SameCall, GateInv, GateQueues
<1>6. Prompts'
  <2>1. Pending' => Pending
    BY <1>1, <1>2 DEF Pending, SameCall, Queued
  <2>2. GateTypes' /\ submits \in Nat
    BY <1>1 DEF GateInv, GateTypes, CallInv
  <2> QED
    BY <1>1, <1>2, <2>1, <2>2, PromptsKept DEF SameCall, GateInv
<1>7. GateTypes' /\ Channels'
  BY <1>1 DEF GateInv, GateTypes, Channels
<1>8. ContractStep
  BY <1>1 DEF ContractStep, Contract!vars
<1> QED
  BY <1>1, <1>2, <1>3, <1>5, <1>6, <1>7, <1>8 DEF GateInv

-----------------------------------------------------------------------------
(* What a call does to the queues. *)

LEMMA EnqueueIs ==
  ASSUME GateTypes, NEW more \in Seq(GateCommand), NEW q, q = Gw!Enqueue(more)
  PROVE  /\ q \in Seq(GateRecord) /\ Len(q) = Len(gateways) /\ DOMAIN q = DOMAIN gateways
         /\ \A h \in DOMAIN gateways :
              /\ q[h].events = gateways[h].events /\ q[h].task = gateways[h].task
              /\ q[h].wire = gateways[h].wire /\ q[h].active = gateways[h].active
              /\ q[h].handshake = gateways[h].handshake
              /\ q[h].commands = IF Gw!Reachable /\ h = gateway
                                 THEN gateways[h].commands \o more ELSE gateways[h].commands
<1>1. CASE ~Gw!Reachable
  BY <1>1, GatesAre DEF Gw!Enqueue, GateTypes
<1>2. CASE Gw!Reachable
  <2> DEFINE gw == gateways[gateway]
             longer == gw.commands \o more
             new == [gw EXCEPT !.commands = longer]
  <2>1. gateway \in DOMAIN gateways /\ gw \in GateRecord
    BY <1>2, GatesAre DEF Gw!Reachable, GateTypes
  <2>2. longer \in Seq(GateCommand)
    <3>1. gw.commands \in Seq(GateCommand)
      BY <2>1, GateFields
    <3> QED
      BY <3>1
  <2>3. q = [gateways EXCEPT ![gateway] = new]
    BY <1>2, <2>1 DEF Gw!Enqueue, GateTypes
  <2> HIDE DEF gw, longer
  <2>4. /\ new \in GateRecord /\ new.events = gw.events /\ new.task = gw.task
        /\ new.wire = gw.wire /\ new.active = gw.active /\ new.handshake = gw.handshake
        /\ new.commands = longer
    BY <2>1, <2>2 DEF GateRecord
  <2> HIDE DEF new
  <2>5. /\ q \in Seq(GateRecord) /\ Len(q) = Len(gateways) /\ DOMAIN q = DOMAIN gateways
        /\ q[gateway] = new /\ \A h \in DOMAIN gateways : h # gateway => q[h] = gateways[h]
    BY <2>1, <2>3, <2>4, GateIs DEF GateTypes
  <2> QED
    BY <1>2, <2>4, <2>5 DEF gw, longer
<1> QED
  BY <1>1, <1>2

LEMMA ClosedIs ==
  ASSUME GateTypes, NEW q, q = Gw!Closed
  PROVE  /\ q \in Seq(GateRecord) /\ Len(q) = Len(gateways) /\ DOMAIN q = DOMAIN gateways
         /\ \A h \in DOMAIN gateways :
              /\ q[h].events = gateways[h].events /\ q[h].task = gateways[h].task
              /\ q[h].wire = gateways[h].wire /\ q[h].handshake = gateways[h].handshake
              /\ \/ q[h].commands = gateways[h].commands
                 \/ /\ gateways[h].task # "ended"
                    /\ q[h].commands = Append(gateways[h].commands, [kind |-> "close"])
<1>1. CASE ~Gw!Reachable
  BY <1>1, GatesAre DEF Gw!Closed, GateTypes
<1>2. CASE Gw!Reachable
  <2> DEFINE gw == gateways[gateway]
             longer == Append(gw.commands, [kind |-> "close"])
             new == [gw EXCEPT !.commands = longer, !.aborted = TRUE]
  <2>1. gateway \in DOMAIN gateways /\ gw \in GateRecord /\ gw.task # "ended"
    BY <1>2, GatesAre DEF Gw!Reachable, GateTypes
  <2>2. longer \in Seq(GateCommand)
    <3>1. gw.commands \in Seq(GateCommand) /\ [kind |-> "close"] \in GateCommand
      BY <2>1, GateFields DEF GateCommand
    <3> QED
      BY <3>1
  <2>3. q = [gateways EXCEPT ![gateway] = new]
    BY <1>2, <2>1 DEF Gw!Closed, GateTypes
  <2> HIDE DEF gw, longer
  <2>4. /\ new \in GateRecord /\ new.events = gw.events /\ new.task = gw.task
        /\ new.wire = gw.wire /\ new.handshake = gw.handshake
        /\ new.commands = longer
    BY <2>1, <2>2 DEF GateRecord
  <2> HIDE DEF new
  <2>5. /\ q \in Seq(GateRecord) /\ Len(q) = Len(gateways) /\ DOMAIN q = DOMAIN gateways
        /\ q[gateway] = new /\ \A h \in DOMAIN gateways : h # gateway => q[h] = gateways[h]
    BY <2>1, <2>3, <2>4, GateIs DEF GateTypes
  <2> QED
    BY <2>1, <2>4, <2>5 DEF gw, longer
<1> QED
  BY <1>1, <1>2

(* Closed leaves no request where there was none. *)
LEMMA ClosedQueues ==
  ASSUME GateTypes, GateQueues, call.reply # "waiting", NEW q, q = Gw!Closed
  PROVE  \A h \in DOMAIN q :
           /\ q[h].task = "ended" => q[h].commands = <<>>
           /\ \A i \in DOMAIN q[h].commands : ~IsRequest(q[h].commands[i])
<1> SUFFICES ASSUME NEW h \in DOMAIN gateways
             PROVE  /\ q[h].task = "ended" => q[h].commands = <<>>
                    /\ \A i \in DOMAIN q[h].commands : ~IsRequest(q[h].commands[i])
  BY ClosedIs
<1>1. /\ q[h].task = gateways[h].task
      /\ \/ q[h].commands = gateways[h].commands
         \/ /\ gateways[h].task # "ended"
            /\ q[h].commands = Append(gateways[h].commands, [kind |-> "close"])
  BY ClosedIs
<1>2. \A i \in DOMAIN gateways[h].commands : ~IsRequest(gateways[h].commands[i])
  BY NothingQueued
<1>3. CASE q[h].commands = gateways[h].commands
  BY <1>1, <1>2, <1>3 DEF GateQueues
<1>4. CASE /\ gateways[h].task # "ended"
           /\ q[h].commands = Append(gateways[h].commands, [kind |-> "close"])
  <2>1. gateways[h].commands \in Seq(GateCommand) /\ [kind |-> "close"] \in GateCommand
    BY GatesAre, GateFields DEF GateTypes, GateCommand
  <2>2. \A i \in DOMAIN q[h].commands :
          \/ q[h].commands[i] = [kind |-> "close"]
          \/ i \in DOMAIN gateways[h].commands /\ q[h].commands[i] = gateways[h].commands[i]
    BY <1>4, <2>1, Appends
  <2>3. ~IsRequest([kind |-> "close"])
    BY DEF IsRequest
  <2> QED
    BY <1>1, <1>2, <1>4, <2>2, <2>3
<1> QED
  BY <1>1, <1>3, <1>4

(* A new gateway takes the place of the one the handle held.                *)
LEMMA OpensIs ==
  ASSUME CallInv, GateInv, CallInv', call.reply # "waiting",
         NEW c \in Nat, NEW q, q \in {gateways, Gw!Closed},
         gateways' = Append(q, Gw!NewGateway(c)), gateway' = Len(gateways) + 1,
         call'.prompt = 0, call'.reply = "none", UNCHANGED prompts,
         \/ c = channel + 1 /\ channel' = channel + 1 /\ line' = "silent"
         \/ c = 0 /\ UNCHANGED <<channel, line>> /\ ~Gw!Reachable
  PROVE  /\ GateInv'
         /\ gateway' \in DOMAIN gateways' /\ gateways'[gateway'] = Gw!NewGateway(c)
         /\ DOMAIN gateways' = DOMAIN gateways \cup {gateway'} /\ gateway' \notin DOMAIN gateways
         /\ \A g \in DOMAIN gateways : /\ gateways'[g].events = gateways[g].events
                                       /\ gateways'[g].handshake = gateways[g].handshake
                                       /\ gateways'[g].task = gateways[g].task
<1> DEFINE new == Gw!NewGateway(c)
<1>1. /\ new \in GateRecord /\ new.events = c /\ new.task = "dialing"
      /\ new.commands = <<>> /\ new.wire = <<>>
  BY NewGatewayIs
<1> HIDE DEF new
<1>2. /\ q \in Seq(GateRecord) /\ Len(q) = Len(gateways) /\ DOMAIN q = DOMAIN gateways
      /\ \A h \in DOMAIN gateways :
           /\ q[h].events = gateways[h].events /\ q[h].task = gateways[h].task
           /\ q[h].wire = gateways[h].wire /\ q[h].handshake = gateways[h].handshake
  BY ClosedIs DEF GateInv, GateTypes
<1>3. \A h \in DOMAIN q :
        /\ q[h].task = "ended" => q[h].commands = <<>>
        /\ \A i \in DOMAIN q[h].commands : ~IsRequest(q[h].commands[i])
  <2>1. CASE q = gateways
    BY <2>1, NothingQueued DEF GateInv, GateQueues
  <2>2. CASE q = Gw!Closed
    BY <2>2, ClosedQueues DEF GateInv
  <2> QED
    BY <2>1, <2>2
<1>4. /\ gateways' \in Seq(GateRecord) /\ Len(gateways') = Len(q) + 1
      /\ DOMAIN gateways' = DOMAIN q \cup {gateway'} /\ gateway' \notin DOMAIN q
      /\ gateways'[gateway'] = new /\ \A h \in DOMAIN q : gateways'[h] = q[h]
  <2>1. gateways' = Append(q, new) /\ gateway' = Len(q) + 1
    BY <1>2 DEF new
  <2> QED
    BY <1>1, <1>2, <2>1, GateAppended
<1>5. GateTypes' /\ gateway' > 0 /\ gateway' \in DOMAIN gateways'
  BY <1>2, <1>4, GatesAre DEF GateTypes, GateInv
<1>6. \A g \in DOMAIN gateways' :
        \/ g = gateway' /\ gateways'[g] = new
        \/ g \in DOMAIN gateways /\ g # gateway' /\ gateways'[g] = q[g]
  BY <1>2, <1>4
<1>7. \A g \in DOMAIN gateways : gateways[g].events \in Nat /\ gateways[g].events <= channel
  BY GatesAre, GateFields DEF GateInv, GateTypes, Channels
<1>8. Channels'
  <2>1. CASE c = channel + 1 /\ channel' = channel + 1 /\ line' = "silent"
    <3>1. channel \in Nat
      BY DEF CallInv
    <3>2. \A g \in DOMAIN gateways' :
            /\ gateways'[g].events <= channel'
            /\ gateways'[g].events = channel' => g = gateway'
      BY <1>1, <1>2, <1>6, <1>7, <2>1, <3>1
    <3> QED
      BY <2>1, <3>1, <3>2 DEF Channels
  <2>2. CASE c = 0 /\ UNCHANGED <<channel, line>> /\ ~Gw!Reachable
    <3>1. channel \in Nat
      BY DEF CallInv
    <3>2. \A g \in DOMAIN gateways' :
            /\ gateways'[g].events <= channel
            /\ gateways'[g].events = channel /\ channel # 0 =>
                 g \in DOMAIN gateways /\ gateways[g].events = channel /\ gateways[g].task = gateways'[g].task
      BY <1>1, <1>2, <1>6, <1>7, <2>2, <3>1
    <3>3. channel # 0 =>
            \A g, h \in DOMAIN gateways' :
              gateways'[g].events = channel /\ gateways'[h].events = channel => g = h
      BY <3>2 DEF GateInv, Channels
    <3>4. line # "closed" =>
            \A g \in DOMAIN gateways' :
              gateways'[g].events = channel /\ gateways'[g].task # "ended" => g = gateway'
      <4>1. line # "closed" => channel # 0
        BY DEF GateInv, Channels
      <4>2. line # "closed" => \A g \in DOMAIN gateways : gateways[g].events = channel /\ gateways[g].task # "ended" =>
                                  g = gateway /\ g > 0
        BY GatesAre DEF GateInv, Channels, GateTypes
      <4> QED
        BY <2>2, <3>2, <4>1, <4>2 DEF Gw!Reachable
    <3> QED
      BY <2>2, <3>2, <3>3, <3>4 DEF Channels, GateInv
  <2> QED
    BY <2>1, <2>2
<1>9. GateQueues'
  <2>1. \A g \in DOMAIN gateways' :
          /\ gateways'[g].task = "ended" => gateways'[g].commands = <<>>
          /\ \A i \in DOMAIN gateways'[g].commands : ~IsRequest(gateways'[g].commands[i])
    BY <1>1, <1>2, <1>3, <1>6
  <2> QED
    BY <2>1, QueuesRest
<1>10. Prompts'
  <2>1. \A g \in DOMAIN gateways' :
          gateways'[g].wire = <<>> \/ (g \in DOMAIN gateways /\ gateways'[g].wire = gateways[g].wire)
    BY <1>1, <1>2, <1>6
  <2>2. submits \in Nat
    BY DEF CallInv
  <2> QED
    BY <1>5, <2>1, <2>2, PromptsKept DEF GateInv
<1> QED
  BY <1>2, <1>4, <1>5, <1>8, <1>9, <1>10 DEF GateInv, new

LEMMA IdleRests ==
  ASSUME GateInv, call.step = "idle"
  PROVE  call.reply = "none"
BY DEF GateInv, GateQueues

LEMMA ConnectIs ==
  ASSUME CallInv, GateInv, NEW first, first \notin {"idle", "asking"}, Gw!Connect(first)
  PROVE  /\ CallInv' /\ GateInv' /\ ContractStep
         /\ call' = NewCall("connect", None, 0, first) /\ ~greeted'
         /\ gateway' \in DOMAIN gateways' /\ gateways'[gateway'] = Gw!NewGateway(channel + 1)
<1>1. BeginConnect(first)
  BY GateCalls DEF Gw!Connect
<1>2. /\ CallInv' /\ ContractStep
      /\ call' = NewCall("connect", None, 0, first)
      /\ channel' = channel + 1 /\ line' = "silent" /\ greeted' = FALSE /\ UNCHANGED prompts
  BY <1>1, BeginConnectIs
<1>3. call.reply # "waiting" /\ call'.prompt = 0 /\ call'.reply = "none" /\ channel + 1 \in Nat
  BY <1>1, <1>2, IdleRests DEF BeginConnect, Idle, NewCall, CallInv
<1>4. gateways' = Append(Gw!Closed, Gw!NewGateway(channel + 1)) /\ gateway' = Len(gateways) + 1
  <2>1. gateways' = Append(Gw!Closed, Gw!NewGateway(channel')) /\ gateway' = Len(gateways) + 1
    BY DEF Gw!Connect
  <2> QED
    BY <1>2, <2>1
<1>5. PICK q \in {gateways, Gw!Closed} : gateways' = Append(q, Gw!NewGateway(channel + 1))
  BY <1>4
<1> QED
  BY <1>2, <1>3, <1>4, <1>5, OpensIs

LEMMA DisconnectIs ==
  ASSUME CallInv, GateInv, Gw!Disconnect
  PROVE  /\ CallInv' /\ GateInv' /\ ContractStep
         /\ gateway' = 0 /\ call.step = "idle" /\ UNCHANGED <<call, channel, greeted>>
         /\ DOMAIN gateways' = DOMAIN gateways
         /\ \A g \in DOMAIN gateways : /\ gateways'[g].events = gateways[g].events
                                       /\ gateways'[g].handshake = gateways[g].handshake
                                       /\ gateways'[g].task = gateways[g].task
<1>1. CallDisconnect /\ gateways' = Gw!Closed /\ gateway' = 0
  BY GateCalls DEF Gw!Disconnect
<1>2. /\ CallInv' /\ ContractStep /\ line' = "closed"
      /\ UNCHANGED <<call, channel, greeted, prompts>>
  BY <1>1, CallDisconnectIs
<1>3. call.step = "idle" /\ call.reply = "none"
  BY <1>1, IdleRests DEF CallDisconnect, Idle
<1>4. /\ gateways' \in Seq(GateRecord) /\ DOMAIN gateways' = DOMAIN gateways
      /\ \A h \in DOMAIN gateways :
           /\ gateways'[h].events = gateways[h].events /\ gateways'[h].task = gateways[h].task
           /\ gateways'[h].wire = gateways[h].wire /\ gateways'[h].handshake = gateways[h].handshake
  BY <1>1, ClosedIs DEF GateInv
<1>5. \A h \in DOMAIN gateways' :
        /\ gateways'[h].task = "ended" => gateways'[h].commands = <<>>
        /\ \A i \in DOMAIN gateways'[h].commands : ~IsRequest(gateways'[h].commands[i])
  BY <1>1, <1>3, ClosedQueues DEF GateInv
<1>6. GateTypes' /\ Channels'
  BY <1>1, <1>2, <1>4 DEF GateTypes, GateInv, Channels
<1>7. GateQueues'
  BY <1>1, <1>2, <1>3, <1>5, QueuesRest
<1>8. Prompts'
  <2>1. ~Pending'
    BY <1>1, <1>2, <1>3 DEF Pending, Queued
  <2> QED
    BY <1>2, <1>4, <1>6, <2>1, PromptsKept DEF GateInv, CallInv
<1> QED
  BY <1>1, <1>2, <1>3, <1>4, <1>6, <1>7, <1>8 DEF GateInv

-----------------------------------------------------------------------------
(* A call begins, goes on or returns, and the gateways are left alone.      *)
LEMMA GatesLeft ==
  ASSUME CallInv, GateInv, call.reply # "waiting", UNCHANGED <<gateways, gateway, channel, line, posted>>,
         call'.reply = "none", submits' \in Nat, submits <= submits',
         \/ call'.prompt = 0 \/ call'.prompt = submits + 1
         \/ call'.prompt = call.prompt /\ (call'.step # "asking" \/ call.step = "asking")
  PROVE  GateInv'
<1>1. GateTypes' /\ Channels'
  BY DEF GateInv, GateTypes, Channels
<1>2. /\ \A g \in DOMAIN gateways : \A i \in DOMAIN gateways[g].commands :
           ~IsRequest(gateways[g].commands[i])
      /\ ~Queued
  BY NothingQueued DEF GateInv
<1>3. GateQueues'
  BY <1>2, QueuesRest DEF GateInv, GateQueues
<1>4. Prompts'
  <2>1. Pending' => call'.step = "asking"
    BY <1>2 DEF Pending, Queued
  <2> QED
    BY <1>1, <2>1, PromptsKept DEF GateInv, Pending
<1> QED
  BY <1>1, <1>3, <1>4 DEF GateInv

(* The call queues its request, after what it has to say before.            *)
LEMMA QueuesIs ==
  ASSUME CallInv, GateInv, call.reply # "waiting", call.prompt # 0 => Pending,
         NEW next \in {"asked", "subscribing", "legacy"},
         NEW more \in Seq(GateCommand), more # <<>>, more[Len(more)] = Gw!Request,
         \A i \in DOMAIN more : i # Len(more) => ~IsRequest(more[i]),
         Gw!Queues(more, next)
  PROVE  /\ CallInv' /\ GateInv' /\ ContractStep
         /\ call'.op = call.op /\ call'.session = call.session
         /\ call'.prompt = call.prompt /\ call'.step = next /\ call'.reply \in {"waiting", "dropped"}
         /\ gateways' = Gw!Enqueue(more) /\ gateway' = gateway /\ UNCHANGED <<contact, view, prompts>>
<1>1. /\ gateways' = Gw!Enqueue(more) /\ gateway' = gateway /\ UNCHANGED <<contact, view, prompts>>
      /\ call' = [call EXCEPT !.step = next, !.reply = IF Gw!Reachable THEN "waiting" ELSE "dropped"]
  BY DEF Gw!Queues
<1>2. /\ call'.op = call.op /\ call'.session = call.session
      /\ call'.prompt = call.prompt /\ call'.step = next
      /\ call'.reply = IF Gw!Reachable THEN "waiting" ELSE "dropped"
  BY <1>1 DEF CallInv
<1>3. CallInv'
  BY <1>1, CallGoesOn
<1>4. ContractStep
  BY <1>1 DEF ContractStep, Contract!vars
<1>5. /\ gateways' \in Seq(GateRecord) /\ Len(gateways') = Len(gateways) /\ DOMAIN gateways' = DOMAIN gateways
      /\ \A h \in DOMAIN gateways :
           /\ gateways'[h].events = gateways[h].events /\ gateways'[h].task = gateways[h].task
           /\ gateways'[h].wire = gateways[h].wire
           /\ gateways'[h].commands = IF Gw!Reachable /\ h = gateway
                                      THEN gateways[h].commands \o more ELSE gateways[h].commands
  BY <1>1, EnqueueIs DEF GateInv
<1>6. GateTypes' /\ Channels'
  BY <1>1, <1>5, ChannelsKept DEF GateInv, GateTypes
<1>7. /\ \A g \in DOMAIN gateways : \A i \in DOMAIN gateways[g].commands :
           ~IsRequest(gateways[g].commands[i])
      /\ ~Queued /\ (gateway > 0 => gateway \in DOMAIN gateways)
  BY NothingQueued DEF GateInv
<1>8. CASE ~Gw!Reachable
  <2>1. gateway > 0 => gateways[gateway].commands = <<>>
    BY <1>7, <1>8 DEF Gw!Reachable, GateInv, GateQueues
  <2>2. GateQueues'
    BY <1>1, <1>2, <1>5, <1>7, <1>8, <2>1, QueuesRest DEF GateInv, GateQueues
  <2>3. ~Pending'
    BY <1>1, <1>2, <1>5, <1>7, <1>8 DEF Pending, Queued
  <2>4. Prompts'
    BY <1>1, <1>2, <1>5, <1>6, <2>3, PromptsKept DEF GateInv, CallInv
  <2> QED
    BY <1>1, <1>2, <1>3, <1>4, <1>6, <2>2, <2>4 DEF GateInv
<1>9. CASE Gw!Reachable
  <2> DEFINE old == gateways[gateway].commands
             longer == old \o more
  <2>1. gateway \in DOMAIN gateways /\ gateways[gateway].task # "ended" /\ gateway > 0
    BY <1>7, <1>9 DEF Gw!Reachable
  <2>2. old \in Seq(GateCommand)
    BY <2>1, GatesAre, GateFields DEF GateInv, GateTypes
  <2>3. /\ longer # <<>> /\ Len(longer) \in DOMAIN longer /\ longer[Len(longer)] = Gw!Request
        /\ \A i \in DOMAIN longer : i # Len(longer) => ~IsRequest(longer[i])
    <3> HIDE DEF old
    <3>1. /\ Len(old) \in Nat /\ Len(more) \in Nat /\ Len(more) > 0
          /\ DOMAIN old = 1 .. Len(old) /\ DOMAIN more = 1 .. Len(more)
      BY <2>2
    <3>2. /\ longer \in Seq(GateCommand) /\ Len(longer) = Len(old) + Len(more)
          /\ \A i \in 1 .. Len(old) + Len(more) :
               longer[i] = IF i <= Len(old) THEN old[i] ELSE more[i - Len(old)]
      BY <2>2, ConcatProperties
    <3>3. \A i \in DOMAIN old : ~IsRequest(old[i])
      BY <1>7, <2>1 DEF old
    <3> HIDE DEF longer
    <3>4. DOMAIN longer = 1 .. Len(old) + Len(more)
      BY <3>1, <3>2
    <3>5. longer[Len(longer)] = Gw!Request /\ Len(longer) \in DOMAIN longer /\ longer # <<>>
      <4>1. /\ Len(longer) \in 1 .. Len(old) + Len(more) /\ ~(Len(longer) <= Len(old))
            /\ Len(longer) - Len(old) = Len(more)
        BY <3>1, <3>2
      <4> QED
        BY <3>2, <3>4, <4>1
    <3>6. ASSUME NEW i \in DOMAIN longer, i # Len(longer)
          PROVE  ~IsRequest(longer[i])
      <4>1. CASE i <= Len(old)
        <5>1. i \in DOMAIN old /\ longer[i] = old[i]
          BY <3>1, <3>2, <3>4, <4>1
        <5> QED
          BY <3>3, <5>1
      <4>2. CASE ~(i <= Len(old))
        <5>1. PICK k \in DOMAIN more : k = i - Len(old) /\ k # Len(more)
          BY <3>1, <3>2, <3>4, <3>6, <4>2
        <5>2. longer[i] = more[k]
          BY <3>2, <3>4, <4>2, <5>1
        <5> QED
          BY <5>1, <5>2
      <4> QED
        BY <4>1, <4>2
    <3> QED
      BY <3>5, <3>6
  <2>4. gateways'[gateway].commands = longer
    BY <1>5, <1>9, <2>1
  <2> HIDE DEF longer
  <2>5. IsRequest(Gw!Request) /\ Gw!Request.prompt = call.prompt
    BY DEF IsRequest, Gw!Request
  <2>6. Queued'
    BY <1>1, <2>1, <2>3, <2>4, <2>5 DEF Queued
  <2>7. GateQueues'
    <3>1. \A h \in DOMAIN gateways' : gateways'[h].task = "ended" => gateways'[h].commands = <<>>
      BY <1>5, <2>1 DEF GateInv, GateQueues
    <3>2. \A h \in DOMAIN gateways' : \A i \in DOMAIN gateways'[h].commands :
            IsRequest(gateways'[h].commands[i]) =>
              /\ h = gateway /\ i = Len(gateways'[h].commands)
              /\ gateways'[h].commands[i].prompt = call.prompt
      <4>1. \A h \in DOMAIN gateways : h # gateway => gateways'[h].commands = gateways[h].commands
        BY <1>5
      <4> QED
        BY <1>5, <1>7, <2>3, <2>4, <2>5, <4>1
    <3> QED
      BY <1>1, <1>2, <1>9, <2>6, <3>1, <3>2 DEF GateQueues
  <2>8. Prompts'
    BY <1>1, <1>2, <1>5, <1>6, PromptsKept DEF GateInv, CallInv
  <2> QED
    BY <1>1, <1>2, <1>3, <1>4, <1>6, <2>7, <2>8 DEF GateInv
<1> QED
  BY <1>8, <1>9

-----------------------------------------------------------------------------
(* OpenClaw.  A gateway's handshake is over once Connected was told.        *)
ClawTold ==
  greeted /\ channel # 0 =>
    \A g \in DOMAIN gateways : gateways[g].events = channel => gateways[g].handshake = "done"

(* What the held gateway filters by, or will, was asked for.                *)
ClawFilters ==
  Gw!Reachable =>
    /\ gateways[gateway].active \in scope \cup {None}
    /\ \A i \in DOMAIN gateways[gateway].commands :
         gateways[gateway].commands[i].kind = "active" =>
           gateways[gateway].commands[i].session \in scope \cup {None}

(* A call that opens a session has made it the one to filter by, or that is *)
(* the last thing it queued before its request.                             *)
ClawOpens ==
  /\ call.op \in {"create", "resume"} => call.session # None
  /\ call.step = "connecting" => call.prompt = 0
  /\ call.step = "subscribing" \/ (call.step = "legacy" /\ call.op # "submit") =>
       /\ call.op \in {"create", "resume"} /\ call.reply # "none"
       /\ Gw!Reachable =>
            \/ /\ Len(gateways[gateway].commands) <= 1
               /\ gateways[gateway].active = call.session
            \/ /\ Len(gateways[gateway].commands) >= 2
               /\ gateways[gateway].commands[Len(gateways[gateway].commands) - 1] =
                    [kind |-> "active", session |-> call.session]

ClawInv == GateInv /\ ClawTold /\ ClawFilters /\ ClawOpens

LEMMA ClawQueueKept ==
  ASSUME ClawInv, SameCall, scope' = scope, gateway' = gateway, DOMAIN gateways' = DOMAIN gateways,
         \A h \in DOMAIN gateways :
           /\ gateways'[h].active = gateways[h].active
           /\ gateways'[h].task # "ended" => gateways[h].task # "ended"
           /\ \/ gateways'[h].commands = gateways[h].commands
              \/ /\ gateways'[h].commands = <<>>
                 /\ Len(gateways[h].commands) = 1 \/ gateways'[h].task = "ended"
  PROVE  ClawFilters' /\ ClawOpens'
<1>1. Gw!Reachable' => /\ Gw!Reachable /\ gateway \in DOMAIN gateways
                       /\ gateways'[gateway].active = gateways[gateway].active
                       /\ \/ gateways'[gateway].commands = gateways[gateway].commands
                          \/ /\ gateways'[gateway].commands = <<>>
                             /\ Len(gateways[gateway].commands) = 1
  <2>1. gateway > 0 => gateway \in DOMAIN gateways
    BY GatesAre DEF ClawInv, GateInv, GateTypes
  <2> QED
    BY <2>1 DEF Gw!Reachable
<1>2. ClawFilters'
  BY <1>1 DEF ClawInv, ClawFilters
<1>3. ClawOpens'
  <2>1. /\ call'.op \in {"create", "resume"} => call'.session # None
        /\ call'.step = "connecting" => call'.prompt = 0
    BY DEF ClawInv, ClawOpens, SameCall
  <2> SUFFICES ASSUME call'.step = "subscribing" \/ (call'.step = "legacy" /\ call'.op # "submit")
               PROVE  /\ call'.op \in {"create", "resume"} /\ call'.reply # "none"
                      /\ Gw!Reachable' =>
                           \/ /\ Len(gateways'[gateway].commands) <= 1
                              /\ gateways'[gateway].active = call'.session
                           \/ /\ Len(gateways'[gateway].commands) >= 2
                              /\ gateways'[gateway].commands[Len(gateways'[gateway].commands) - 1] =
                                   [kind |-> "active", session |-> call'.session]
    BY <2>1 DEF ClawOpens
  <2>2. /\ call.op \in {"create", "resume"} /\ call.reply # "none"
        /\ Gw!Reachable =>
             \/ /\ Len(gateways[gateway].commands) <= 1
                /\ gateways[gateway].active = call.session
             \/ /\ Len(gateways[gateway].commands) >= 2
                /\ gateways[gateway].commands[Len(gateways[gateway].commands) - 1] =
                     [kind |-> "active", session |-> call.session]
    BY DEF ClawInv, ClawOpens, SameCall
  <2>3. Len(<<>>) = 0
    OBVIOUS
  <2>4. CASE gateways'[gateway].commands = gateways[gateway].commands
    BY <1>1, <2>2, <2>4 DEF SameCall
  <2>5. CASE gateways'[gateway].commands = <<>> /\ Len(gateways[gateway].commands) = 1
    BY <1>1, <2>2, <2>3, <2>5 DEF SameCall
  <2> QED
    BY <1>1, <2>2, <2>4, <2>5 DEF SameCall
<1> QED
  BY <1>2, <1>3

LEMMA ClawTaskKept ==
  ASSUME ClawInv, GateInv', NEW g \in DOMAIN gateways, TaskStep(g)
  PROVE  ClawInv'
<1>1. \A h \in DOMAIN gateways :
           /\ gateways'[h].events = gateways[h].events
           /\ gateways'[h].active = gateways[h].active
           /\ gateways[h].handshake = "done" => gateways'[h].handshake = "done"
           /\ gateways'[h].task # "ended" => gateways[h].task # "ended"
           /\ \/ gateways'[h].commands = gateways[h].commands
              \/ /\ gateways'[h].commands = <<>>
                 /\ Len(gateways[h].commands) = 1 \/ gateways'[h].task = "ended"
  BY DEF TaskStep
<1>2. ClawFilters' /\ ClawOpens'
  BY <1>1, ClawQueueKept DEF TaskStep
<1>3. ClawTold'
  BY <1>1 DEF ClawInv, ClawTold, TaskStep
<1> QED
  BY <1>2, <1>3 DEF ClawInv

(* The handshake goes on, or the socket opens. *)
LEMMA ClawMoves ==
  ASSUME CallInv, ClawInv, NEW g \in DOMAIN gateways, NEW new \in GateRecord,
         gateways' = [gateways EXCEPT ![g] = new], gateway' = gateway,
         new.events = gateways[g].events, new.active = gateways[g].active,
         new.commands = gateways[g].commands, new.wire = gateways[g].wire,
         new.task = "ended" <=> gateways[g].task = "ended",
         UNCHANGED <<call, view, prompts, channel>>, line' # "closed" => line # "closed",
         \/ greeted' = greeted /\ (gateways[g].handshake = "done" => new.handshake = "done")
         \/ new.handshake = "done" /\ (greeted' # greeted => gateways[g].events = channel)
  PROVE  CallInv' /\ ClawInv'
<1>1. GateStep(g, new)
  BY DEF GateStep
<1>2. GateInv'
  BY <1>1, GateMoves DEF ClawInv
<1>3. /\ DOMAIN gateways' = DOMAIN gateways
      /\ gateways'[g] = new /\ \A h \in DOMAIN gateways : h # g => gateways'[h] = gateways[h]
  BY <1>1, GateStepIs DEF ClawInv
<1>4. SameCall
  BY DEF SameCall
<1>5. ClawFilters' /\ ClawOpens'
  BY <1>3, <1>4, ClawQueueKept
<1>6. ClawTold'
  <2>1. CASE greeted' = greeted /\ (gateways[g].handshake = "done" => new.handshake = "done")
    BY <1>3, <2>1 DEF ClawInv, ClawTold
  <2>2. CASE new.handshake = "done" /\ (greeted' # greeted => gateways[g].events = channel)
    <3>1. CASE greeted' = greeted
      BY <1>3, <2>2, <3>1 DEF ClawInv, ClawTold
    <3>2. CASE greeted' # greeted
      <4>1. channel # 0 => \A h \in DOMAIN gateways : gateways[h].events = channel => h = g
        BY <2>2, <3>2 DEF ClawInv, GateInv, Channels
      <4> QED
        BY <1>3, <2>2, <4>1 DEF ClawTold
    <3> QED
      BY <3>1, <3>2
  <2> QED
    BY <2>1, <2>2
<1>7. CallInv'
  BY CallGoesOn
<1> QED
  BY <1>2, <1>5, <1>6, <1>7 DEF ClawInv

LEMMA ClawHandshakes ==
  ASSUME CallInv, ClawInv, NEW g \in DOMAIN gateways,
         Claw!ClawDials(g) \/ Claw!Challenged(g) \/ Claw!HandshakeAnswered(g) \/ Claw!HandshakeTold(g)
         \/ Claw!HandshakeFails(g)
  PROVE  CallInv' /\ ClawInv' /\ ContractStep
<1> DEFINE gw == gateways[g]
<1>1. gw \in GateRecord
  BY GatesAre DEF ClawInv, GateInv, GateTypes
<1>2. CASE Claw!ClawDials(g)
  <2>1. gw.task = "dialing"
    BY <1>2 DEF Claw!ClawDials
  <2>2. CASE Gw!Gate(g, [gw EXCEPT !.task = "open"]) /\ UNCHANGED callVars
    <3> DEFINE new == [gw EXCEPT !.task = "open"]
    <3>1. /\ gateways' = [gateways EXCEPT ![g] = new] /\ gateway' = gateway
          /\ UNCHANGED <<call, contact, view, prompts>>
      BY <2>2 DEF Gw!Gate
    <3>2. /\ new \in GateRecord /\ new.events = gw.events /\ new.active = gw.active
          /\ new.commands = gw.commands /\ new.wire = gw.wire
          /\ new.task = "open" /\ new.handshake = gw.handshake
      BY <1>1 DEF GateRecord
    <3> HIDE DEF new
    <3>3. CallInv' /\ ClawInv'
      BY <2>1, <3>1, <3>2, ClawMoves
    <3>4. ContractStep
      BY <3>1 DEF ContractStep, Contract!vars
    <3> QED
      BY <3>3, <3>4
  <2>3. CASE /\ Gw!Gate(g, [Gw!Over(gw) EXCEPT !.state = "failed"])
             /\ Loses(gw.events) /\ Gw!Drops(g) /\ UNCHANGED <<view, prompts>>
    <3> DEFINE new == [Gw!Over(gw) EXCEPT !.state = "failed"]
    <3>1. gateways' = [gateways EXCEPT ![g] = new] /\ gateway' = gateway
      BY <2>3 DEF Gw!Gate
    <3>2. /\ new \in GateRecord /\ new.events = gw.events /\ new.task = "ended"
          /\ new.commands = <<>> /\ new.wire = <<>> /\ new.active = gw.active
          /\ gw.handshake = "done" => new.handshake = "done"
      BY <1>1, OverIs
    <3> HIDE DEF new
    <3>3. CallInv' /\ GateInv' /\ ContractStep /\ TaskStep(g)
      BY <2>1, <2>3, <3>1, <3>2, FailsIs DEF ClawInv
    <3> QED
      BY <3>3, ClawTaskKept
  <2> QED
    BY <1>2, <2>2, <2>3, ClawGateTerms, ClawCalls DEF Claw!ClawDials
<1>3. CASE Claw!Challenged(g)
  <2>1. PICK new \in {[gw EXCEPT !.handshake = "asked"], [gw EXCEPT !.handshake = "done", !.state = "failed"]} :
          /\ gateways' = [gateways EXCEPT ![g] = new] /\ gateway' = gateway
          /\ UNCHANGED <<call, view, prompts>> /\ (UNCHANGED contact \/ Loses(gw.events))
    BY <1>3, ClawGateTerms, ClawCalls DEF Claw!Challenged, Gw!Gate
  <2>2. gw.handshake = "none"
    BY <1>3 DEF Claw!Challenged
  <2>3. /\ new \in GateRecord /\ new.events = gw.events /\ new.active = gw.active
        /\ new.commands = gw.commands /\ new.wire = gw.wire /\ new.task = gw.task
    <3>1. CASE new = [gw EXCEPT !.handshake = "asked"]
      BY <1>1, <3>1 DEF GateRecord
    <3>2. CASE new = [gw EXCEPT !.handshake = "done", !.state = "failed"]
      BY <1>1, <3>2 DEF GateRecord
    <3> QED
      BY <3>1, <3>2
  <2>4. UNCHANGED <<channel, greeted>> /\ (line' # "closed" => line # "closed")
    BY <2>1 DEF Loses, Newest
  <2>5. CallInv' /\ ClawInv'
    BY <2>1, <2>2, <2>3, <2>4, ClawMoves
  <2>6. ContractStep
    BY <2>1, LosesIs DEF ContractStep, Contract!vars
  <2> QED
    BY <2>5, <2>6
<1>4. CASE Claw!HandshakeAnswered(g)
  <2>1. PICK new \in {[gw EXCEPT !.handshake = "accepted"], [gw EXCEPT !.handshake = "rejected", !.state = "failed"]} :
          /\ gateways' = [gateways EXCEPT ![g] = new] /\ gateway' = gateway
          /\ UNCHANGED <<call, contact, view, prompts>>
    BY <1>4, ClawGateTerms DEF Claw!HandshakeAnswered, Gw!Gate
  <2>2. gw.handshake = "asked"
    BY <1>4 DEF Claw!HandshakeAnswered
  <2>3. /\ new \in GateRecord /\ new.events = gw.events /\ new.active = gw.active
        /\ new.commands = gw.commands /\ new.wire = gw.wire /\ new.task = gw.task
    <3>1. CASE new = [gw EXCEPT !.handshake = "accepted"]
      BY <1>1, <3>1 DEF GateRecord
    <3>2. CASE new = [gw EXCEPT !.handshake = "rejected", !.state = "failed"]
      BY <1>1, <3>2 DEF GateRecord
    <3> QED
      BY <3>1, <3>2
  <2>4. CallInv' /\ ClawInv'
    BY <2>1, <2>2, <2>3, ClawMoves
  <2>5. ContractStep
    BY <2>1 DEF ContractStep, Contract!vars
  <2> QED
    BY <2>4, <2>5
<1>5. CASE Claw!HandshakeTold(g)
  <2>1. PICK new \in {[gw EXCEPT !.handshake = "done", !.state = "connected"],
                      [gw EXCEPT !.handshake = "done", !.state = "failed"]} :
          /\ gateways' = [gateways EXCEPT ![g] = new] /\ gateway' = gateway
          /\ UNCHANGED <<call, view, prompts>> /\ (Greets(gw.events) \/ Loses(gw.events))
    BY <1>5, ClawGateTerms, ClawCalls DEF Claw!HandshakeTold, Gw!Gate
  <2>2. gw.handshake \in {"accepted", "rejected"}
    BY <1>5 DEF Claw!HandshakeTold
  <2>3. /\ new \in GateRecord /\ new.events = gw.events /\ new.active = gw.active
        /\ new.commands = gw.commands /\ new.wire = gw.wire /\ new.task = gw.task
        /\ new.handshake = "done"
    <3>1. CASE new = [gw EXCEPT !.handshake = "done", !.state = "connected"]
      BY <1>1, <3>1 DEF GateRecord
    <3>2. CASE new = [gw EXCEPT !.handshake = "done", !.state = "failed"]
      BY <1>1, <3>2 DEF GateRecord
    <3> QED
      BY <2>1, <3>1, <3>2
  <2>4. /\ UNCHANGED channel /\ (line' # "closed" => line # "closed")
        /\ greeted' # greeted => gw.events = channel
    BY <2>1 DEF Greets, Loses, Newest
  <2>5. CallInv' /\ ClawInv'
    BY <2>1, <2>3, <2>4, ClawMoves
  <2>6. Newest(gw.events) => ~greeted
    BY <2>2 DEF Newest, ClawInv, ClawTold, GateInv, Channels
  <2>7. ContractStep
    BY <2>1, <2>6, GreetsIs, LosesIs
  <2> QED
    BY <2>5, <2>7
<1>6. CASE Claw!HandshakeFails(g)
  <2> DEFINE new == [gw EXCEPT !.handshake = "rejected"]
  <2>1. /\ gateways' = [gateways EXCEPT ![g] = new] /\ gateway' = gateway
        /\ gw.handshake # "done" /\ UNCHANGED <<call, contact, view, prompts>>
    BY <1>6, ClawGateTerms DEF Claw!HandshakeFails, Gw!Gate
  <2>2. /\ new \in GateRecord /\ new.events = gw.events /\ new.active = gw.active
        /\ new.commands = gw.commands /\ new.wire = gw.wire /\ new.task = gw.task
    BY <1>1 DEF GateRecord
  <2> HIDE DEF new
  <2>3. CallInv' /\ ClawInv'
    BY <2>1, <2>2, ClawMoves
  <2>4. ContractStep
    BY <2>1 DEF ContractStep, Contract!vars
  <2> QED
    BY <2>3, <2>4
<1> QED
  BY <1>2, <1>3, <1>4, <1>5, <1>6

(* GatewayCommand::SetActive leaves the queue, where it was not the last    *)
(* command when a request is waited for.                                    *)
LEMMA ActiveIs ==
  ASSUME CallInv, ClawInv, NEW g \in DOMAIN gateways, Claw!SetsActive(g)
  PROVE  CallInv' /\ ClawInv' /\ ContractStep
<1> DEFINE gw == gateways[g]
           s == Head(gw.commands).session
           rest == Tail(gw.commands)
           new == [gw EXCEPT !.commands = rest, !.active = s]
           later == {c \in {rest[i] : i \in DOMAIN rest} : c.kind = "active"}
<1>1. /\ gw \in GateRecord /\ gw.commands \in Seq(GateCommand) /\ gw.task = "open"
      /\ gw.commands # <<>> /\ Head(gw.commands).kind = "active"
  BY GatesAre, GateFields, ClawGateTerms
  DEF ClawInv, GateInv, GateTypes, Claw!SetsActive, Gw!Commanded
<1>2. /\ Len(gw.commands) \in Nat /\ Len(gw.commands) >= 1
      /\ Head(gw.commands) = gw.commands[1] /\ 1 \in DOMAIN gw.commands
      /\ rest \in Seq(GateCommand) /\ Len(rest) = Len(gw.commands) - 1
      /\ \A i \in DOMAIN rest : i + 1 \in DOMAIN gw.commands /\ rest[i] = gw.commands[i + 1]
  BY <1>1, Tails
<1> DEFINE n == Len(gw.commands)
<1>19. /\ n \in Nat /\ n >= 1 /\ Len(rest) = n - 1
       /\ DOMAIN rest = 1 .. n - 1 /\ DOMAIN gw.commands = 1 .. n
  BY <1>1, <1>2
<1> HIDE DEF n
<1>3. /\ gw.commands[1] \in GateCommand /\ gw.commands[1].kind = "active"
      /\ s = gw.commands[1].session /\ s \in Session \cup {None}
  <2>1. gw.commands[1] \in GateCommand /\ gw.commands[1].kind = "active" /\ s = gw.commands[1].session
    BY <1>1, <1>2
  <2>2. \A c \in GateCommand : c.kind = "active" => c.session \in Session \cup {None}
    BY DEF GateCommand
  <2> QED
    BY <2>1, <2>2
<1> HIDE DEF rest, s
<1>4. /\ gateways' = [gateways EXCEPT ![g] = new] /\ gateway' = gateway
      /\ UNCHANGED <<call, contact, prompts>>
      /\ IF g = gateway /\ s = None
         THEN drawn' = {} /\ scope' = scope \cap ({call.session} \cup {c.session : c \in later})
         ELSE UNCHANGED view
  <2>1. [Gw!Obeyed(g) EXCEPT !.active = s] = new
    BY <1>1 DEF GateRecord, Gw!Obeyed, rest
  <2> QED
    BY <2>1, ClawGateTerms DEF Claw!SetsActive, Gw!Gate, Gw!Owns, Claw!ToSet, s, rest
<1> HIDE DEF later
<1>20. UNCHANGED <<call, contact, prompts>>
  BY <1>4
<1>5. /\ new \in GateRecord /\ new.events = gw.events /\ new.task = "open"
      /\ new.commands = rest /\ new.wire = gw.wire /\ new.active = s /\ new.handshake = gw.handshake
  BY <1>1, <1>2, <1>3 DEF GateRecord
<1> HIDE DEF new
<1>6. GateStep(g, new)
  BY <1>1, <1>4, <1>5 DEF GateStep
<1>7. /\ GateTypes' /\ Channels' /\ DOMAIN gateways' = DOMAIN gateways
      /\ gateways'[g] = new /\ \A h \in DOMAIN gateways : h # g => gateways'[h] = gateways[h]
      /\ gateway > 0 => gateway \in DOMAIN gateways
  BY <1>6, GateStepIs DEF ClawInv
<1>8. \A h \in DOMAIN gateways' : /\ gateways'[h].wire = gateways[h].wire
                                  /\ gateways'[h].task = gateways[h].task
                                  /\ h # g => gateways'[h].commands = gateways[h].commands
  BY <1>1, <1>5, <1>7
<1>9. ~IsRequest(gw.commands[1])
  BY <1>3 DEF IsRequest
(* A request in it is the last command, and not the one that leaves. *)
<1>10. \A i \in DOMAIN gw.commands : IsRequest(gw.commands[i]) =>
         /\ i = Len(gw.commands) /\ i # 1 /\ g = gateway /\ call.reply = "waiting"
         /\ gw.commands[i].prompt = call.prompt
         /\ Len(rest) \in DOMAIN rest /\ rest[Len(rest)] = gw.commands[i]
  <2> SUFFICES ASSUME NEW i \in DOMAIN gw.commands, IsRequest(gw.commands[i])
               PROVE  /\ i = Len(gw.commands) /\ i # 1 /\ g = gateway /\ call.reply = "waiting"
                      /\ gw.commands[i].prompt = call.prompt
                      /\ Len(rest) \in DOMAIN rest /\ rest[Len(rest)] = gw.commands[i]
    OBVIOUS
  <2>1. /\ i = Len(gw.commands) /\ g = gateway /\ call.reply = "waiting"
        /\ gw.commands[i].prompt = call.prompt
    BY DEF ClawInv, GateInv, GateQueues
  <2>2. i # 1
    BY <1>9
  <2>3. Len(rest) \in DOMAIN rest /\ Len(rest) + 1 = i
    <3>1. i = n /\ n # 1
      BY <2>1, <2>2 DEF n
    <3> QED
      BY <1>19, <3>1
  <2> QED
    BY <1>2, <2>1, <2>2, <2>3
<1>11. Queued' <=> Queued
  <2>1. CASE g # gateway
    BY <1>4, <1>7, <2>1 DEF Queued
  <2>2. CASE g = gateway
    <3>1. Queued' => Queued
      BY <1>2, <1>4, <1>5, <1>7, <2>2 DEF Queued
    <3>2. Queued => Queued'
      BY <1>4, <1>5, <1>7, <1>10, <2>2 DEF Queued
    <3> QED
      BY <3>1, <3>2
  <2> QED
    BY <2>1, <2>2
<1>12. GateQueues'
  <2>1. \A h \in DOMAIN gateways' : gateways'[h].task = "ended" => gateways'[h].commands = <<>>
    BY <1>5, <1>7 DEF ClawInv, GateInv, GateQueues
  <2>2. \A h \in DOMAIN gateways' : \A i \in DOMAIN gateways'[h].commands :
          IsRequest(gateways'[h].commands[i]) =>
            /\ h = gateway /\ i = Len(gateways'[h].commands)
            /\ gateways'[h].commands[i].prompt = call.prompt /\ call.reply = "waiting"
    <3> SUFFICES ASSUME NEW h \in DOMAIN gateways, NEW i \in DOMAIN gateways'[h].commands,
                        IsRequest(gateways'[h].commands[i])
                 PROVE  /\ h = gateway /\ i = Len(gateways'[h].commands)
                        /\ gateways'[h].commands[i].prompt = call.prompt /\ call.reply = "waiting"
      BY <1>7
    <3>1. CASE h # g
      BY <1>7, <3>1 DEF ClawInv, GateInv, GateQueues
    <3>2. CASE h = g
      <4>1. i \in DOMAIN rest /\ gateways'[h].commands = rest
        BY <1>5, <1>7, <3>2
      <4>2. i + 1 \in DOMAIN gw.commands /\ rest[i] = gw.commands[i + 1]
        BY <1>2, <4>1
      <4>3. /\ i + 1 = Len(gw.commands) /\ g = gateway /\ call.reply = "waiting"
            /\ gw.commands[i + 1].prompt = call.prompt
        BY <1>10, <4>1, <4>2
      <4>4. i = Len(rest)
        BY <1>2, <4>1, <4>3
      <4> QED
        BY <3>2, <4>1, <4>2, <4>3, <4>4
    <3> QED
      BY <3>1, <3>2
  <2>3. gateway > 0 /\ call.reply # "none" /\ gateways'[gateway].commands # <<>> => Queued'
    <3>1. CASE g # gateway
      BY <1>7, <1>11, <3>1 DEF ClawInv, GateInv, GateQueues
    <3>2. CASE g = gateway
      BY <1>1, <1>7, <1>11, <3>2 DEF ClawInv, GateInv, GateQueues
    <3> QED
      BY <3>1, <3>2
  <2>4. gateway > 0 /\ gateways'[gateway].task # "ended" /\ call.reply = "waiting" /\ ~Queued' =>
          /\ gateways'[gateway].wire # <<>>
          /\ gateways'[gateway].wire[Len(gateways'[gateway].wire)] = call.prompt
    BY <1>7, <1>8, <1>11 DEF ClawInv, GateInv, GateQueues
  <2>5. call.step \notin {"asked", "subscribing", "legacy"} => call.reply = "none"
    BY DEF ClawInv, GateInv, GateQueues
  <2> QED
    BY <1>4, <2>1, <2>2, <2>3, <2>4, <2>5 DEF GateQueues
<1>13. Prompts'
  BY <1>4, <1>7, <1>8, <1>11, PromptsKept DEF ClawInv, GateInv, Pending, CallInv
<1>14. \A i \in DOMAIN gw.commands : g = gateway /\ gw.commands[i].kind = "active" =>
         gw.commands[i].session \in scope \cup {None}
  BY <1>1, <1>7, GatesAre DEF ClawInv, ClawFilters, Gw!Reachable, GateInv, GateTypes
<1>15. CallInv' /\ ContractStep
  <2>1. scope' \subseteq scope /\ (call.session # None => call.session \in scope')
    BY <1>4 DEF CallInv
  <2>2. CallInv'
    BY <1>4, <2>1 DEF CallInv
  <2>3. CASE UNCHANGED view
    BY <1>20, <2>2, <2>3 DEF ContractStep, Contract!vars
  <2>4. CASE drawn' = {}
    BY <1>20, <2>1, <2>2, <2>4 DEF ContractStep, Contract!Next, Contract!Leave
  <2> QED
    BY <1>4, <2>2, <2>3, <2>4
<1>16. ClawTold'
  BY <1>4, <1>5, <1>7 DEF ClawInv, ClawTold
<1>17. CASE g # gateway
  <2>1. Gw!Reachable' <=> Gw!Reachable
    BY <1>4, <1>7, <1>17 DEF Gw!Reachable
  <2>2. ClawFilters'
    BY <1>4, <1>7, <1>17, <2>1 DEF ClawInv, ClawFilters, Gw!Reachable
  <2>3. ClawOpens'
    BY <1>4, <1>7, <1>17, <2>1 DEF ClawInv, ClawOpens, Gw!Reachable
  <2> QED
    BY <1>7, <1>12, <1>13, <1>15, <1>16, <2>2, <2>3 DEF ClawInv, GateInv
<1>18. CASE g = gateway
  <2>1. Gw!Reachable
    BY <1>1, <1>7, <1>18, GatesAre DEF Gw!Reachable, ClawInv, GateInv, GateTypes
  <2>2. \A i \in DOMAIN rest : rest[i].kind = "active" => rest[i].session \in scope' \cup {None}
    <3> SUFFICES ASSUME NEW i \in DOMAIN rest, rest[i].kind = "active"
                 PROVE  rest[i].session \in scope' \cup {None}
      OBVIOUS
    <3>1. rest[i].session \in scope \cup {None}
      BY <1>2, <1>14, <1>18
    <3>2. rest[i].session \in {c.session : c \in later}
      BY DEF later
    <3> QED
      BY <1>4, <3>1, <3>2
  <2>3. s \in scope' \cup {None}
    BY <1>2, <1>3, <1>4, <1>14, <1>18
  <2>4. ClawFilters'
    BY <1>4, <1>5, <1>7, <1>18, <2>2, <2>3 DEF ClawFilters
  <2>5. ClawOpens'
    <3>1. /\ call.op \in {"create", "resume"} => call.session # None
          /\ call.step = "connecting" => call.prompt = 0
      BY DEF ClawInv, ClawOpens
    <3> SUFFICES ASSUME call.step = "subscribing" \/ (call.step = "legacy" /\ call.op # "submit")
                 PROVE  /\ call.op \in {"create", "resume"} /\ call.reply # "none"
                        /\ \/ Len(rest) <= 1 /\ s = call.session
                           \/ /\ Len(rest) >= 2
                              /\ rest[Len(rest) - 1] = [kind |-> "active", session |-> call.session]
      BY <1>4, <1>5, <1>7, <1>18, <3>1 DEF ClawOpens
    <3>2. /\ call.op \in {"create", "resume"} /\ call.reply # "none"
          /\ \/ Len(gw.commands) <= 1
             \/ gw.commands[Len(gw.commands) - 1] = [kind |-> "active", session |-> call.session]
      BY <1>18, <2>1 DEF ClawInv, ClawOpens
    <3>3. Queued
      BY <1>1, <1>18, <2>1, <3>2 DEF ClawInv, GateInv, GateQueues, Gw!Reachable
    <3>4. Len(gw.commands) # 1
      BY <1>10, <1>18, <3>3 DEF Queued
    <3>5. gw.commands[Len(gw.commands) - 1] = [kind |-> "active", session |-> call.session]
      <4>1. ~(n <= 1)
        <5>1. n # 1
          BY <3>4 DEF n
        <5> QED
          BY <1>19, <5>1
      <4> QED
        BY <3>2, <4>1 DEF n
    <3>6. CASE Len(gw.commands) = 2
      <4>1. gw.commands[1].session = call.session
        BY <3>5, <3>6
      <4> QED
        BY <1>2, <1>3, <3>2, <3>6, <4>1
    <3>7. CASE Len(gw.commands) # 2
      <4>1. Len(rest) >= 2 /\ Len(rest) - 1 \in DOMAIN rest /\ (Len(rest) - 1) + 1 = Len(gw.commands) - 1
        <5>1. n >= 3
          <6>1. n # 1 /\ n # 2
            BY <3>4, <3>7 DEF n
          <6> QED
            BY <1>19, <6>1
        <5> QED
          BY <1>19, <5>1 DEF n
      <4> QED
        BY <1>2, <3>2, <3>5, <4>1
    <3> QED
      BY <3>6, <3>7
  <2> QED
    BY <1>7, <1>12, <1>13, <1>15, <1>16, <2>4, <2>5 DEF ClawInv, GateInv
<1> QED
  BY <1>17, <1>18

(* The gateways are as they were and no call opens a session.               *)
LEMMA ClawLeft ==
  ASSUME ClawInv, GateInv', UNCHANGED <<gateways, gateway>>,
         UNCHANGED <<channel, greeted>>, scope \subseteq scope',
         call'.op \in {"create", "resume"} => call'.session # None,
         call'.step = "connecting" => call'.prompt = 0,
         call'.step \notin {"subscribing", "legacy"}
  PROVE  ClawInv'
BY DEF ClawInv, ClawTold, ClawFilters, ClawOpens, Gw!Reachable

(* A gateway was opened. *)
LEMMA ClawNew ==
  ASSUME ClawInv, GateInv', gateway' \in DOMAIN gateways',
         NEW c \in Nat, gateways'[gateway'] = Gw!NewGateway(c),
         call'.op \in {"create", "resume"} => call'.session # None,
         call'.step = "connecting" => call'.prompt = 0,
         call'.step \notin {"subscribing", "legacy"}
  PROVE  ClawFilters' /\ ClawOpens'
<1>1. gateways'[gateway'].active = None /\ gateways'[gateway'].commands = <<>>
  BY NewGatewayIs
<1> QED
  BY <1>1 DEF ClawFilters, ClawOpens

LEMMA ClawBegins ==
  ASSUME CallInv, ClawInv, Claw!ClawCallBegins
  PROVE  CallInv' /\ ClawInv' /\ ContractStep
<1>1. CASE \E op \in {"list", "create", "resume"}, s \in Session \cup {None} :
             /\ s # None \/ op = "list"
             /\ Claw!Ensuring(op, s)
  <2>1. PICK op \in {"list", "create", "resume"}, s \in Session \cup {None} :
          /\ s # None \/ op = "list"
          /\ Claw!Ensuring(op, s)
    BY <1>1
  <2>2. PICK first \in {"asking", "connecting"} : Begin(op, s, first)
    BY <2>1, ClawCalls DEF Claw!Ensuring
  <2>3. /\ CallInv' /\ ContractStep /\ call' = NewCall(op, s, 0, first)
        /\ scope \subseteq scope' /\ UNCHANGED <<contact, drawn, prompts>>
    BY <2>2, BeginIs DEF Op
  <2>4. /\ call'.op = op /\ call'.session = s /\ call'.prompt = 0 /\ call'.step = first
        /\ call'.reply = "none"
    BY <2>3 DEF NewCall
  <2>5. call.reply # "waiting"
    BY <2>2, IdleRests DEF Begin, Idle, ClawInv
  <2>6. submits \in Nat
    BY DEF CallInv
  <2>7. CASE UNCHANGED <<gateways, gateway>>
    <3>1. GateInv'
      BY <2>3, <2>4, <2>5, <2>6, <2>7, GatesLeft DEF ClawInv
    <3>2. ClawInv'
      BY <2>1, <2>3, <2>4, <2>7, <3>1, ClawLeft
    <3> QED
      BY <2>3, <3>2
  <2>8. CASE /\ ~Gw!Reachable
             /\ gateways' = Append(gateways, Gw!NewGateway(0)) /\ gateway' = Len(gateways) + 1
    <3>1. /\ GateInv'
          /\ gateway' \in DOMAIN gateways' /\ gateways'[gateway'] = Gw!NewGateway(0)
          /\ DOMAIN gateways' = DOMAIN gateways \cup {gateway'}
          /\ \A g \in DOMAIN gateways : /\ gateways'[g].events = gateways[g].events
                                        /\ gateways'[g].handshake = gateways[g].handshake
      <4>1. PICK q \in {gateways, Gw!Closed} : gateways' = Append(q, Gw!NewGateway(0)) /\ q = gateways
        BY <2>8
      <4> QED
        BY <2>3, <2>4, <2>5, <2>8, <4>1, OpensIs DEF ClawInv
    <3>2. ClawFilters' /\ ClawOpens'
      BY <2>1, <2>4, <3>1, ClawNew
    <3>3. ClawTold'
      <4>1. gateways'[gateway'].events = 0
        BY <3>1, NewGatewayIs
      <4> QED
        BY <2>3, <3>1, <4>1 DEF ClawInv, ClawTold
    <3> QED
      BY <2>3, <3>1, <3>2, <3>3 DEF ClawInv
  <2> QED
    BY <2>1, <2>7, <2>8, ClawGateTerms DEF Claw!Ensuring, Claw!IsOpen
<1>2. CASE \E op \in {"interrupt", "respond"} : Begin(op, None, "asking") /\ UNCHANGED <<gateways, gateway>>
  <2>1. PICK op \in {"interrupt", "respond"} : Begin(op, None, "asking") /\ UNCHANGED <<gateways, gateway>>
    BY <1>2
  <2>2. /\ CallInv' /\ ContractStep /\ call' = NewCall(op, None, 0, "asking")
        /\ scope \subseteq scope' /\ UNCHANGED <<contact, drawn, prompts>>
    BY <2>1, BeginIs DEF Op
  <2>3. /\ call'.op = op /\ call'.prompt = 0 /\ call'.step = "asking"
        /\ call'.reply = "none"
    BY <2>2 DEF NewCall
  <2>4. call.reply # "waiting" /\ submits \in Nat
    BY <2>1, IdleRests DEF Begin, Idle, ClawInv, CallInv
  <2>5. GateInv'
    BY <2>1, <2>2, <2>3, <2>4, GatesLeft DEF ClawInv
  <2>6. ClawInv'
    BY <2>1, <2>2, <2>3, <2>5, ClawLeft
  <2> QED
    BY <2>2, <2>6
<1>3. CASE \E s \in Session : BeginSubmit(s, "asking") /\ UNCHANGED <<gateways, gateway>>
  <2>1. PICK s \in Session : BeginSubmit(s, "asking") /\ UNCHANGED <<gateways, gateway>>
    BY <1>3
  <2>2. /\ CallInv' /\ ContractStep /\ call' = NewCall("submit", s, submits + 1, "asking")
        /\ scope' = scope \cup {s} /\ UNCHANGED <<contact, drawn, posted>>
    BY <2>1, BeginSubmitIs
  <2>3. /\ call'.op = "submit" /\ call'.prompt = submits + 1 /\ call'.step = "asking"
        /\ call'.reply = "none"
    BY <2>2 DEF NewCall
  <2>4. call.reply # "waiting" /\ submits \in Nat /\ submits' = submits + 1
    BY <2>1, IdleRests DEF BeginSubmit, Idle, ClawInv, CallInv
  <2>5. GateInv'
    BY <2>1, <2>2, <2>3, <2>4, GatesLeft DEF ClawInv
  <2>6. ClawInv'
    BY <2>1, <2>2, <2>3, <2>5, ClawLeft
  <2> QED
    BY <2>2, <2>6
<1> QED
  BY <1>1, <1>2, <1>3, ClawCalls, CallsAssumption DEF Claw!ClawCallBegins

(* One request, and nothing before it. *)
LEMMA OneRequest ==
  ASSUME CallInv, NEW more, more = <<Gw!Request>>
  PROVE  /\ more \in Seq(GateCommand) /\ more # <<>> /\ more[Len(more)] = Gw!Request
         /\ \A i \in DOMAIN more : i # Len(more) => ~IsRequest(more[i])
         /\ Len(more) = 1 /\ DOMAIN more = {1} /\ more[1] = Gw!Request
         /\ Gw!Request.kind = "request"
<1>1. Gw!Request \in GateCommand /\ Gw!Request.kind = "request"
  BY DEF Gw!Request, GateCommand, CallInv
<1>2. Len(more) = 1 /\ DOMAIN more = {1} /\ more[1] = Gw!Request /\ more \in Seq(GateCommand) /\ more # <<>>
  BY <1>1
<1> QED
  BY <1>1, <1>2

LEMMA TwoCommands ==
  ASSUME CallInv, NEW s \in Session \cup {None}, NEW more,
         more = <<[kind |-> "active", session |-> s], Gw!Request>>
  PROVE  /\ more \in Seq(GateCommand) /\ more # <<>> /\ more[Len(more)] = Gw!Request
         /\ \A i \in DOMAIN more : i # Len(more) => ~IsRequest(more[i])
         /\ Len(more) = 2 /\ DOMAIN more = {1, 2}
         /\ more[1] = [kind |-> "active", session |-> s] /\ more[2] = Gw!Request
         /\ Gw!Request.kind = "request"
<1>1. Gw!Request \in GateCommand /\ Gw!Request.kind = "request"
  BY DEF Gw!Request, GateCommand, CallInv
<1>2. [kind |-> "active", session |-> s] \in GateCommand /\ ~IsRequest([kind |-> "active", session |-> s])
  BY DEF GateCommand, IsRequest
<1>3. /\ Len(more) = 2 /\ DOMAIN more = {1, 2}
      /\ more[1] = [kind |-> "active", session |-> s] /\ more[2] = Gw!Request
      /\ more \in Seq(GateCommand) /\ more # <<>>
  BY <1>1, <1>2
<1> QED
  BY <1>1, <1>2, <1>3

LEMMA Longer ==
  ASSUME NEW S, NEW q \in Seq(S), NEW more \in Seq(S), NEW longer, longer = q \o more
  PROVE  /\ longer \in Seq(S) /\ Len(q) \in Nat /\ Len(more) \in Nat
         /\ Len(longer) = Len(q) + Len(more)
         /\ \A i \in DOMAIN longer :
              \/ i \in DOMAIN q /\ longer[i] = q[i]
              \/ \E j \in DOMAIN more : longer[i] = more[j]
         /\ \A j \in DOMAIN more : Len(q) + j \in DOMAIN longer /\ longer[Len(q) + j] = more[j]
<1>1. /\ q \o more \in Seq(S) /\ Len(q \o more) = Len(q) + Len(more)
      /\ \A i \in 1 .. Len(q) + Len(more) :
           (q \o more)[i] = IF i <= Len(q) THEN q[i] ELSE more[i - Len(q)]
  BY ConcatProperties
<1>2. /\ longer \in Seq(S) /\ Len(longer) = Len(q) + Len(more)
      /\ \A i \in 1 .. Len(q) + Len(more) :
           longer[i] = IF i <= Len(q) THEN q[i] ELSE more[i - Len(q)]
  BY <1>1, Zenon
<1>3. /\ Len(q) \in Nat /\ Len(more) \in Nat /\ DOMAIN q = 1 .. Len(q) /\ DOMAIN more = 1 .. Len(more)
      /\ DOMAIN longer = 1 .. Len(q) + Len(more)
  BY <1>2
<1>4. ASSUME NEW i \in DOMAIN longer
      PROVE  \/ i \in DOMAIN q /\ longer[i] = q[i]
             \/ \E j \in DOMAIN more : longer[i] = more[j]
  <2>1. CASE i <= Len(q)
    BY <1>2, <1>3, <2>1
  <2>2. CASE ~(i <= Len(q))
    <3>1. i - Len(q) \in DOMAIN more
      BY <1>3, <2>2
    <3> QED
      BY <1>2, <1>3, <2>2, <3>1
  <2> QED
    BY <2>1, <2>2
<1>5. ASSUME NEW j \in DOMAIN more
      PROVE  Len(q) + j \in DOMAIN longer /\ longer[Len(q) + j] = more[j]
  <2>1. Len(q) + j \in 1 .. Len(q) + Len(more) /\ ~(Len(q) + j <= Len(q)) /\ (Len(q) + j) - Len(q) = j
    BY <1>3
  <2> QED
    BY <1>2, <1>3, <2>1
<1> QED
  BY <1>2, <1>3, <1>4, <1>5

(* The call puts its request in the queue, perhaps after the session to     *)
(* filter by.                                                               *)
LEMMA ClawQueues ==
  ASSUME CallInv, ClawInv, call.reply # "waiting", call.prompt # 0 => Pending,
         NEW next \in {"asked", "subscribing", "legacy"}, NEW more, Gw!Queues(more, next),
         \/ /\ more = <<Gw!Request>>
            /\ next # "subscribing"
            /\ next = "legacy" /\ call.op # "submit" =>
                 call.step = "subscribing" /\ call.reply # "none"
         \/ /\ more = <<[kind |-> "active", session |-> call.session], Gw!Request>>
            /\ next = "subscribing" /\ call.op \in {"create", "resume"}
  PROVE  CallInv' /\ ClawInv' /\ ContractStep
<1>1. /\ more \in Seq(GateCommand) /\ more # <<>> /\ more[Len(more)] = Gw!Request
      /\ \A i \in DOMAIN more : i # Len(more) => ~IsRequest(more[i])
  BY OneRequest, TwoCommands DEF CallInv
<1>2. /\ CallInv' /\ GateInv' /\ ContractStep
      /\ call'.op = call.op /\ call'.session = call.session
      /\ call'.prompt = call.prompt /\ call'.step = next /\ call'.reply \in {"waiting", "dropped"}
      /\ gateways' = Gw!Enqueue(more) /\ gateway' = gateway /\ UNCHANGED <<contact, view, prompts>>
  BY <1>1, QueuesIs DEF ClawInv
<1>3. /\ DOMAIN gateways' = DOMAIN gateways
      /\ \A h \in DOMAIN gateways :
           /\ gateways'[h].events = gateways[h].events /\ gateways'[h].task = gateways[h].task
           /\ gateways'[h].active = gateways[h].active
           /\ gateways'[h].handshake = gateways[h].handshake
           /\ gateways'[h].commands = IF Gw!Reachable /\ h = gateway
                                      THEN gateways[h].commands \o more ELSE gateways[h].commands
  BY <1>1, <1>2, EnqueueIs DEF ClawInv, GateInv
<1>4. ClawTold'
  BY <1>2, <1>3 DEF ClawInv, ClawTold
<1>5. gateway > 0 => gateway \in DOMAIN gateways
  BY NothingQueued DEF ClawInv, GateInv
<1>6. CASE ~Gw!Reachable
  <2>1. ~Gw!Reachable'
    BY <1>2, <1>3, <1>5, <1>6 DEF Gw!Reachable
  <2>2. ClawFilters'
    BY <2>1 DEF ClawFilters
  <2>3. ClawOpens'
    BY <1>2, <2>1 DEF ClawOpens, ClawInv
  <2> QED
    BY <1>2, <1>4, <2>2, <2>3 DEF ClawInv
<1>7. CASE Gw!Reachable
  <2> DEFINE old == gateways[gateway].commands
             longer == gateways'[gateway].commands
  <2>1. gateway \in DOMAIN gateways /\ longer = old \o more
    BY <1>3, <1>5, <1>7 DEF Gw!Reachable
  <2>2. old \in Seq(GateCommand)
    BY <2>1, GatesAre, GateFields DEF ClawInv, GateInv, GateTypes
  <2> HIDE DEF old, longer
  <2>3. /\ longer \in Seq(GateCommand) /\ Len(old) \in Nat /\ Len(more) \in Nat
        /\ Len(longer) = Len(old) + Len(more)
        /\ \A i \in DOMAIN longer :
             \/ i \in DOMAIN old /\ longer[i] = old[i]
             \/ \E j \in DOMAIN more : longer[i] = more[j]
        /\ \A j \in DOMAIN more : Len(old) + j \in DOMAIN longer /\ longer[Len(old) + j] = more[j]
    BY <1>1, <2>1, <2>2, Longer
  <2>4. \A j \in DOMAIN more : more[j].kind = "active" => more[j].session \in scope \cup {None}
    <3>1. call.session \in scope \cup {None}
      BY DEF CallInv
    <3>2. CASE more = <<Gw!Request>>
      BY <3>2, OneRequest
    <3>3. CASE more = <<[kind |-> "active", session |-> call.session], Gw!Request>>
      <4>1. call.session \in Session \cup {None}
        BY DEF CallInv
      <4>2. /\ DOMAIN more = {1, 2} /\ more[1] = [kind |-> "active", session |-> call.session]
            /\ more[2] = Gw!Request /\ Gw!Request.kind = "request"
        BY <3>3, <4>1, TwoCommands
      <4> HIDE <3>3
      <4> QED
        BY <3>1, <4>2
    <3> QED
      BY <3>2, <3>3
  <2>5. ClawFilters'
    <3>1. \A i \in DOMAIN old : old[i].kind = "active" => old[i].session \in scope \cup {None}
      BY <1>7 DEF ClawInv, ClawFilters, old
    <3>2. \A i \in DOMAIN longer : longer[i].kind = "active" => longer[i].session \in scope \cup {None}
      BY <2>3, <2>4, <3>1
    <3>3. gateways'[gateway].active \in scope \cup {None}
      BY <1>3, <1>7, <2>1 DEF ClawInv, ClawFilters
    <3> QED
      BY <1>2, <3>2, <3>3 DEF ClawFilters, longer
  <2>6. ClawOpens'
    <3>1. call.op \in {"create", "resume"} => call.session # None
      BY DEF ClawInv, ClawOpens
    <3>2. CASE more = <<Gw!Request>> /\ next # "subscribing" /\ ~(next = "legacy" /\ call.op # "submit")
      BY <1>2, <3>1, <3>2 DEF ClawOpens
    <3>3. CASE more = <<Gw!Request>> /\ call.step = "subscribing" /\ call.reply # "none"
      <4>1. /\ call.op \in {"create", "resume"} /\ old = <<>> /\ gateways[gateway].active = call.session
        <5>1. old = <<>>
          BY <1>7, <3>3, NothingQueued DEF ClawInv, GateInv, Gw!Reachable, old
        <5>2. Len(old) = 0
          BY <5>1
        <5> QED
          BY <1>7, <3>3, <5>1, <5>2 DEF ClawInv, ClawOpens, old
      <4>2. Len(old) = 0 /\ Len(more) = 1
        BY <3>3, <4>1, OneRequest
      <4>3. Len(longer) <= 1 /\ gateways'[gateway].active = call.session
        BY <1>3, <2>1, <2>3, <4>1, <4>2
      <4> QED
        BY <1>2, <3>1, <4>1, <4>3 DEF ClawOpens, longer
    <3>4. CASE more = <<[kind |-> "active", session |-> call.session], Gw!Request>>
               /\ next = "subscribing" /\ call.op \in {"create", "resume"}
      <4>1. call.session \in Session \cup {None}
        BY DEF CallInv
      <4>2. /\ Len(more) = 2 /\ 1 \in DOMAIN more
            /\ more[1] = [kind |-> "active", session |-> call.session]
        BY <3>4, <4>1, TwoCommands
      <4> HIDE <3>4
      <4>3. Len(longer) >= 2 /\ longer[Len(longer) - 1] = [kind |-> "active", session |-> call.session]
        <5>1. Len(longer) = Len(old) + 2 /\ Len(longer) - 1 = Len(old) + 1
          BY <2>3, <4>2
        <5> QED
          BY <2>3, <4>2, <5>1
      <4> QED
        BY <1>2, <3>1, <3>4, <4>3 DEF ClawOpens, longer
    <3> QED
      BY <3>2, <3>3, <3>4
  <2> QED
    BY <1>2, <1>4, <2>5, <2>6 DEF ClawInv
<1> QED
  BY <1>6, <1>7

(* A blank chat: the gateway is told to filter by nothing.                  *)
LEMMA ClawClears ==
  ASSUME CallInv, ClawInv, Claw!ClawClearSessionScope
  PROVE  CallInv' /\ ClawInv' /\ ContractStep
<1> DEFINE more == <<[kind |-> "active", session |-> None]>>
<1>1. /\ call.step = "idle" /\ UNCHANGED <<gateway, call, contact, prompts>>
      /\ gateways' = Gw!Enqueue(more)
      /\ IF Gw!Reachable THEN UNCHANGED view ELSE scope' = {} /\ drawn' = {}
  BY ClawGateTerms, ClawCalls DEF Claw!ClawClearSessionScope, Idle
<1>2. /\ more \in Seq(GateCommand) /\ DOMAIN more = {1}
      /\ more[1] = [kind |-> "active", session |-> None]
      /\ ~IsRequest(more[1])
  <2>1. [kind |-> "active", session |-> None] \in GateCommand
    BY DEF GateCommand
  <2>2. ~IsRequest([kind |-> "active", session |-> None])
    BY DEF IsRequest
  <2>3. more \in Seq(GateCommand) /\ DOMAIN more = {1} /\ more[1] = [kind |-> "active", session |-> None]
    BY <2>1
  <2> HIDE DEF more
  <2> QED
    BY <2>2, <2>3
<1>3. more[1].kind = "active" /\ more[1].session = None
  BY <1>2
<1> HIDE DEF more
<1>4. /\ gateways' \in Seq(GateRecord) /\ Len(gateways') = Len(gateways)
      /\ DOMAIN gateways' = DOMAIN gateways
      /\ \A h \in DOMAIN gateways :
           /\ gateways'[h].events = gateways[h].events /\ gateways'[h].task = gateways[h].task
           /\ gateways'[h].wire = gateways[h].wire /\ gateways'[h].active = gateways[h].active
           /\ gateways'[h].handshake = gateways[h].handshake
           /\ gateways'[h].commands = IF Gw!Reachable /\ h = gateway
                                      THEN gateways[h].commands \o more ELSE gateways[h].commands
  BY <1>1, <1>2, EnqueueIs DEF ClawInv, GateInv
<1>5. call.reply = "none"
  BY <1>1, IdleRests DEF ClawInv
<1>6. /\ \A g \in DOMAIN gateways : \A i \in DOMAIN gateways[g].commands :
           ~IsRequest(gateways[g].commands[i])
      /\ gateway > 0 => gateway \in DOMAIN gateways
  BY <1>5, NothingQueued DEF ClawInv, GateInv
<1>7. ASSUME NEW h \in DOMAIN gateways, NEW i \in DOMAIN gateways'[h].commands
      PROVE  \/ /\ i \in DOMAIN gateways[h].commands
                /\ gateways'[h].commands[i] = gateways[h].commands[i]
             \/ gateways'[h].commands[i] = more[1]
  <2>1. CASE Gw!Reachable /\ h = gateway
    <3>1. gateways[h].commands \in Seq(GateCommand)
      BY GatesAre, GateFields DEF ClawInv, GateInv, GateTypes
    <3>2. gateways'[h].commands = gateways[h].commands \o more
      BY <1>4, <2>1
    <3> DEFINE old == gateways[h].commands
               longer == gateways'[h].commands
    <3>3. old \in Seq(GateCommand) /\ more \in Seq(GateCommand) /\ longer = old \o more
      BY <1>2, <3>1, <3>2
    <3> HIDE DEF old, longer
    <3>4. /\ longer \in Seq(GateCommand) /\ Len(old) \in Nat /\ Len(more) \in Nat
          /\ Len(longer) = Len(old) + Len(more)
          /\ \A k \in DOMAIN longer :
               \/ k \in DOMAIN old /\ longer[k] = old[k]
               \/ \E j \in DOMAIN more : longer[k] = more[j]
          /\ \A j \in DOMAIN more : Len(old) + j \in DOMAIN longer /\ longer[Len(old) + j] = more[j]
      BY <3>3, Longer
    <3> QED
      BY <1>2, <3>4 DEF old, longer
  <2>2. CASE ~(Gw!Reachable /\ h = gateway)
    BY <1>4, <1>7, <2>2
  <2> QED
    BY <2>1, <2>2
<1>8. \A h \in DOMAIN gateways' : \A i \in DOMAIN gateways'[h].commands :
        ~IsRequest(gateways'[h].commands[i])
  BY <1>2, <1>4, <1>6, <1>7
<1>9. GateInv'
  <2>1. GateTypes'
    BY <1>1, <1>4 DEF ClawInv, GateInv, GateTypes
  <2>2. Channels'
    BY <1>1, <1>4, ChannelsKept DEF ClawInv, GateInv
  <2>3. GateQueues'
    <3>1. \A h \in DOMAIN gateways' : gateways'[h].task = "ended" => gateways'[h].commands = <<>>
      BY <1>4 DEF ClawInv, GateInv, GateQueues, Gw!Reachable
    <3> QED
      BY <1>1, <1>5, <1>8, <3>1, QueuesRest
  <2>4. Prompts'
    <3>1. ~Pending'
      BY <1>1, <1>4, <1>6, <1>8 DEF Pending, Queued
    <3>2. submits' \in Nat /\ submits <= submits'
      BY <1>1 DEF CallInv
    <3> QED
      BY <1>1, <1>4, <2>1, <3>1, <3>2, PromptsKept DEF ClawInv, GateInv
  <2> QED
    BY <2>1, <2>2, <2>3, <2>4 DEF GateInv
<1>10. ClawTold'
  BY <1>1, <1>4 DEF ClawInv, ClawTold
<1>11. ClawFilters'
  <2>1. Gw!Reachable' <=> Gw!Reachable
    BY <1>1, <1>4, <1>6 DEF Gw!Reachable
  <2>2. CASE Gw!Reachable
    <3>1. gateway \in DOMAIN gateways /\ scope' = scope
      BY <1>1, <1>6, <2>2 DEF Gw!Reachable
    <3> QED
      BY <1>1, <1>3, <1>4, <1>7, <2>2, <3>1 DEF ClawInv, ClawFilters
  <2> QED
    BY <2>1, <2>2 DEF ClawFilters
<1>12. ClawOpens'
  BY <1>1 DEF ClawInv, ClawOpens
<1>13. CallInv'
  BY <1>1 DEF CallInv
<1>14. ContractStep
  BY <1>1 DEF ContractStep, Contract!Next, Contract!Leave, Contract!vars
<1> QED
  BY <1>9, <1>10, <1>11, <1>12, <1>13, <1>14 DEF ClawInv

LEMMA ClawConnects ==
  ASSUME CallInv, ClawInv, Claw!ClawConnect
  PROVE  CallInv' /\ ClawInv' /\ ContractStep
<1>1. /\ CallInv' /\ GateInv' /\ ContractStep
      /\ call' = NewCall("connect", None, 0, "connecting") /\ ~greeted'
      /\ gateway' \in DOMAIN gateways' /\ gateways'[gateway'] = Gw!NewGateway(channel + 1)
  BY ClawGates, ConnectIs DEF ClawInv, Claw!ClawConnect
<1>2. call'.op = "connect" /\ call'.step = "connecting" /\ call'.prompt = 0
  BY <1>1 DEF NewCall
<1>3. channel + 1 \in Nat
  BY DEF CallInv
<1>4. ClawFilters' /\ ClawOpens'
  BY <1>1, <1>2, <1>3, ClawNew
<1>5. ClawTold'
  BY <1>1 DEF ClawTold
<1> QED
  BY <1>1, <1>4, <1>5 DEF ClawInv

LEMMA ClawDisconnects ==
  ASSUME CallInv, ClawInv, Claw!Disconnect
  PROVE  CallInv' /\ ClawInv' /\ ContractStep
<1>1. /\ CallInv' /\ GateInv' /\ ContractStep
      /\ gateway' = 0 /\ call.step = "idle" /\ UNCHANGED <<call, channel, greeted>>
      /\ DOMAIN gateways' = DOMAIN gateways
      /\ \A g \in DOMAIN gateways : /\ gateways'[g].events = gateways[g].events
                                    /\ gateways'[g].handshake = gateways[g].handshake
  BY ClawGates, DisconnectIs DEF ClawInv
<1>2. ~Gw!Reachable'
  BY <1>1 DEF Gw!Reachable
<1>3. ClawFilters' /\ ClawOpens'
  BY <1>1, <1>2 DEF ClawInv, ClawFilters, ClawOpens
<1>4. ClawTold'
  BY <1>1 DEF ClawInv, ClawTold
<1> QED
  BY <1>1, <1>3, <1>4 DEF ClawInv

(* What a call that is over, or goes on to ask, leaves. *)
LEMMA ClawCallMoves ==
  ASSUME CallInv, ClawInv, call.reply # "waiting",
         UNCHANGED <<gateways, gateway, contact, view, prompts>>,
         \/ call' = NoCall
         \/ call.step = "connecting" /\ call' = [call EXCEPT !.step = "asking", !.reply = "none"]
  PROVE  CallInv' /\ ClawInv' /\ ContractStep
<1>1. CallInv'
  BY CallGoesOn
<1>2. ContractStep
  BY DEF ContractStep, Contract!vars
<1>3. /\ call'.reply = "none"
      /\ call'.op \in {"create", "resume"} => call'.session # None
      /\ call'.step \in {"idle", "asking"}
      /\ call'.prompt = 0
  <2>1. CASE call' = NoCall
    BY <2>1 DEF NoCall, NewCall
  <2>2. CASE call.step = "connecting" /\ call' = [call EXCEPT !.step = "asking", !.reply = "none"]
    BY <2>2 DEF CallInv, ClawInv, ClawOpens
  <2> QED
    BY <2>1, <2>2
<1>4. submits' \in Nat /\ submits <= submits'
  BY DEF CallInv
<1>5. GateInv'
  BY <1>3, <1>4, GatesLeft DEF ClawInv
<1>6. ClawInv'
  BY <1>3, <1>5, ClawLeft
<1> QED
  BY <1>1, <1>2, <1>6

LEMMA ClawWaits ==
  ASSUME CallInv, ClawInv, Claw!WaitConnected \/ Claw!WaitTimesOut
  PROVE  CallInv' /\ ClawInv' /\ ContractStep
<1>1. /\ call.step = "connecting"
      /\ UNCHANGED <<gateways, gateway, contact, view, prompts>>
      /\ call' = NoCall \/ call' = [call EXCEPT !.step = "asking", !.reply = "none"]
  BY ClawCalls DEF Claw!WaitConnected, Claw!WaitTimesOut, Return, Goto
<1>2. call.reply # "waiting"
  BY <1>1 DEF ClawInv, GateInv, GateQueues
<1> QED
  BY <1>1, <1>2, ClawCallMoves

LEMMA ClawQueuesAll ==
  ASSUME CallInv, ClawInv, Claw!ClawAsks \/ Claw!SubscribeToSession \/ Claw!AsksLegacy
  PROVE  CallInv' /\ ClawInv' /\ ContractStep
<1>1. CASE Claw!ClawAsks
  <2>1. call.step = "asking" /\ Gw!Queues(<<Gw!Request>>, "asked")
    BY <1>1, ClawCalls, ClawGates, ClawGateTerms DEF Claw!ClawAsks
  <2>2. call.reply # "waiting" /\ Pending
    BY <2>1 DEF ClawInv, GateInv, GateQueues, Pending
  <2> QED
    BY <2>1, <2>2, ClawQueues
<1>2. CASE Claw!SubscribeToSession
  <2>1. /\ Gw!Queues(<<[kind |-> "active", session |-> call.session], Gw!Request>>, "subscribing")
        /\ call.op \in {"create", "resume"} /\ (call.step = "asking" \/ call.reply = "ok")
    BY <1>2, ClawCalls, ClawGates, ClawGateTerms DEF Claw!SubscribeToSession, Gw!Answered
  <2>2. call.reply # "waiting" /\ call.prompt = 0
    BY <2>1 DEF ClawInv, GateInv, GateQueues, CallInv
  <2> QED
    BY <2>1, <2>2, ClawQueues
<1>3. CASE Claw!AsksLegacy
  <2>1. /\ Gw!Queues(<<Gw!Request>>, "legacy") /\ call.reply \notin {"none", "waiting"}
        /\ \/ call.step = "asked" /\ call.op = "submit" /\ call.reply = "unexpected"
           \/ call.step = "subscribing"
    BY <1>3, ClawCalls, ClawGates, ClawGateTerms
    DEF Claw!AsksLegacy, Claw!AsksLegacySend, Gw!HasAnswer, Gw!Answered
  <2>2. call.prompt # 0 => Pending
    BY <2>1 DEF ClawInv, ClawOpens, CallInv, Pending
  <2> QED
    BY <2>1, <2>2, ClawQueues
<1> QED
  BY <1>1, <1>2, <1>3

LEMMA ClawReturnsIs ==
  ASSUME CallInv, ClawInv, Claw!ClawReturns
  PROVE  CallInv' /\ ClawInv' /\ ContractStep
<1>1. call.reply \notin {"none", "waiting"} /\ UNCHANGED <<gateways, gateway>>
  BY ClawGateTerms DEF Claw!ClawReturns, Gw!HasAnswer
<1>2. CASE Return
  <2>1. call' = NoCall /\ UNCHANGED <<contact, view, prompts>>
    BY <1>2 DEF Return
  <2> QED
    BY <1>1, <2>1, ClawCallMoves
<1>3. CASE /\ ReturnSession
           /\ call.step = "subscribing" \/ (call.step = "legacy" /\ call.op # "submit")
  <2>1. call.session # None
    BY <1>3 DEF ClawInv, ClawOpens
  <2>2. /\ CallInv' /\ ContractStep /\ call' = NoCall /\ scope' = {call.session}
        /\ UNCHANGED <<contact, prompts>>
    BY <1>3, <2>1, ReturnSessionIs
  <2>3. call'.reply = "none" /\ call'.prompt = 0 /\ call'.op = "none" /\ call'.step = "idle"
    BY <2>2 DEF NoCall, NewCall
  <2>4. submits' \in Nat /\ submits <= submits'
    BY <2>2 DEF CallInv
  <2>5. GateInv'
    BY <1>1, <2>2, <2>3, <2>4, GatesLeft DEF ClawInv
  <2>6. ClawTold' /\ ClawOpens'
    BY <1>1, <2>2, <2>3 DEF ClawInv, ClawTold, ClawOpens
  <2>7. ClawFilters'
    <3> SUFFICES ASSUME Gw!Reachable
                 PROVE  gateways[gateway].active = call.session /\ gateways[gateway].commands = <<>>
      BY <1>1, <2>2 DEF ClawFilters, Gw!Reachable
    <3>1. gateways[gateway].commands = <<>>
      BY <1>1, NothingQueued DEF ClawInv, GateInv, Gw!Reachable
    <3>2. Len(gateways[gateway].commands) = 0
      BY <3>1
    <3> QED
      BY <1>3, <3>1, <3>2 DEF ClawInv, ClawOpens
  <2> QED
    BY <2>2, <2>5, <2>6, <2>7 DEF ClawInv
<1> QED
  BY <1>2, <1>3, ClawCalls DEF Claw!ClawReturns

LEMMA ClawTimesOut ==
  ASSUME CallInv, ClawInv, Claw!RequestTimesOut
  PROVE  CallInv' /\ ClawInv' /\ ContractStep
<1>1. /\ CallInv' /\ GateInv' /\ ContractStep
      /\ SameCall /\ UNCHANGED <<gateways, gateway, contact, view, prompts>>
  BY ClawGates, RequestTimesOutIs DEF ClawInv
<1>2. ClawFilters' /\ ClawOpens'
  BY <1>1, ClawQueueKept
<1>3. ClawTold'
  BY <1>1 DEF ClawInv, ClawTold
<1> QED
  BY <1>1, <1>2, <1>3 DEF ClawInv

LEMMA ClawTasks ==
  ASSUME CallInv, ClawInv, NEW g \in DOMAIN gateways,
         \/ Claw!SendsRequest(g) \/ Claw!Closes(g) \/ Claw!Aborts(g)
         \/ Claw!ClawServes(g) \/ Claw!ClawBreaks(g)
  PROVE  CallInv' /\ ClawInv' /\ ContractStep
<1>1. GateInv
  BY DEF ClawInv
<1>2. CASE Claw!SendsRequest(g)
  BY <1>1, <1>2, ClawGates, SendsRequestIs, ClawTaskKept
<1>3. CASE Claw!Closes(g) \/ Claw!Aborts(g)
  BY <1>1, <1>3, ClawGates, EndsIs, ClawTaskKept
<1>4. CASE Claw!ClawServes(g)
  <2>1. PICK i \in DOMAIN gateways[g].wire, r \in {"ok", "refused", "unexpected"} : Gw!Serves(g, i, r)
    BY <1>4, ClawGates DEF Claw!ClawServes
  <2> QED
    BY <1>1, <2>1, ServesIs, ClawTaskKept
<1>5. CASE Claw!ClawBreaks(g)
  <2>1. gateways[g].state \in {"pending", "connected", "failed"}
    BY <1>1, GatesAre DEF GateInv, GateTypes, GateRecord
  <2>2. PICK state \in {"pending", "connected", "failed"} : Gw!Breaks(g, state)
    BY <1>5, <2>1, ClawGates DEF Claw!ClawBreaks
  <2> QED
    BY <1>1, <2>2, BreaksIs, ClawTaskKept
<1> QED
  BY <1>2, <1>3, <1>4, <1>5

LEMMA ClawFrames ==
  ASSUME CallInv, ClawInv, NEW g \in DOMAIN gateways, Claw!ClawFrame(g)
  PROVE  CallInv' /\ ClawInv' /\ ContractStep
<1>1. /\ gateways[g].task = "open" /\ UNCHANGED <<gateways, gateway, call, contact, prompts>>
  BY DEF Claw!ClawFrame
<1>2. PICK label : /\ label = None \/ label \in {gateways[g].active} \ {None}
                   /\ Draws(gateways[g].events, label)
  BY ClawCalls DEF Claw!ClawFrame, Claw!IsForActiveSession, Claw!BelongsToOpenSession
<1>3. Newest(gateways[g].events) => label \in scope \cup {None}
  <2> SUFFICES ASSUME Newest(gateways[g].events) PROVE label \in scope \cup {None}
    OBVIOUS
  <2>1. g = gateway
    BY <1>1 DEF ClawInv, GateInv, Channels, Newest
  <2>2. gateway > 0
    BY <2>1, GatesAre DEF ClawInv, GateInv, GateTypes
  <2>3. gateways[g].active \in scope \cup {None}
    BY <1>1, <2>1, <2>2 DEF ClawInv, ClawFilters, Gw!Reachable
  <2> QED
    BY <1>2, <2>3
<1>4. ContractStep
  BY <1>1, <1>2, <1>3, DrawsIs
<1>5. UNCHANGED <<gateways, gateway, call, channel, line, greeted, scope, submits, posted>>
  BY <1>1, <1>2 DEF Draws
<1>6. CallInv'
  BY <1>5 DEF CallInv
<1>7. GateTypes' /\ Channels'
  BY <1>5 DEF ClawInv, GateInv, GateTypes, Channels
<1>8. GateQueues' /\ Prompts'
  BY <1>5 DEF ClawInv, GateInv, GateQueues, Prompts, Pending, Queued, OnWire, Taken
<1>9. ClawTold' /\ ClawFilters' /\ ClawOpens'
  BY <1>5 DEF ClawInv, ClawTold, ClawFilters, ClawOpens, Gw!Reachable
<1> QED
  BY <1>4, <1>6, <1>7, <1>8, <1>9 DEF ClawInv, GateInv

LEMMA ClawStep ==
  ASSUME CallInv, ClawInv, Claw!OpenClawNext
  PROVE  CallInv' /\ ClawInv' /\ ContractStep
<1>1. CASE Claw!ClawConnect \/ Claw!Disconnect \/ Claw!ClawClearSessionScope \/ Claw!ClawCallBegins
  BY <1>1, ClawConnects, ClawDisconnects, ClawClears, ClawBegins
<1>2. CASE Claw!ClawCallStep \/ Claw!WaitTimesOut \/ Claw!RequestTimesOut
  BY <1>2, ClawWaits, ClawQueuesAll, ClawReturnsIs, ClawTimesOut DEF Claw!ClawCallStep
<1>3. CASE \E g \in DOMAIN gateways :
             \/ Claw!ClawTaskStep(g) \/ Claw!HandshakeFails(g) \/ Claw!ClawFrame(g)
             \/ Claw!ClawBreaks(g)
  <2>1. PICK g \in DOMAIN gateways :
             \/ Claw!ClawTaskStep(g) \/ Claw!HandshakeFails(g) \/ Claw!ClawFrame(g)
             \/ Claw!ClawBreaks(g)
    BY <1>3
  <2>2. CASE \/ Claw!ClawDials(g) \/ Claw!Challenged(g) \/ Claw!HandshakeAnswered(g)
             \/ Claw!HandshakeTold(g) \/ Claw!HandshakeFails(g)
    BY <2>2, ClawHandshakes
  <2>3. CASE Claw!SetsActive(g)
    BY <2>3, ActiveIs
  <2>4. CASE \/ Claw!SendsRequest(g) \/ Claw!Closes(g) \/ Claw!Aborts(g)
             \/ Claw!ClawServes(g) \/ Claw!ClawBreaks(g)
    BY <2>4, ClawTasks
  <2>5. CASE Claw!ClawFrame(g)
    BY <2>5, ClawFrames
  <2> QED
    BY <2>1, <2>2, <2>3, <2>4, <2>5 DEF Claw!ClawTaskStep
<1> QED
  BY <1>1, <1>2, <1>3 DEF Claw!OpenClawNext

-----------------------------------------------------------------------------
(* Hermes.  Connected is told when the socket opens, and what `subscribed`  *)
(* lets pass was asked for or named by the agent.                           *)

HermTold ==
  greeted /\ channel # 0 =>
    \A g \in DOMAIN gateways : gateways[g].events = channel => gateways[g].task # "dialing"

HermAsked ==
  /\ subscribed \subseteq scope
  /\ call.op \in {"create", "resume"} => call.session # None

HermInv == GateInv /\ HermTold /\ HermAsked

LEMMA HermTaskKept ==
  ASSUME HermInv, GateInv', NEW g \in DOMAIN gateways, TaskStep(g), subscribed' = subscribed
  PROVE  HermInv'
<1>1. HermTold'
  BY DEF HermInv, HermTold, TaskStep
<1>2. HermAsked'
  BY DEF HermInv, HermAsked, TaskStep, SameCall
<1> QED
  BY <1>1, <1>2 DEF HermInv

(* The gateways are as they were. *)
LEMMA HermLeft ==
  ASSUME CallInv, CallInv', HermInv, call.reply # "waiting",
         UNCHANGED <<gateways, gateway, contact, posted>>,
         call'.reply = "none", submits <= submits',
         \/ call'.prompt = 0 \/ call'.prompt = submits + 1
         \/ call'.prompt = call.prompt /\ (call'.step # "asking" \/ call.step = "asking"),
         subscribed' \subseteq scope',
         call'.op \in {"create", "resume"} => call'.session # None
  PROVE  HermInv'
<1>1. submits' \in Nat
  BY DEF CallInv
<1>2. GateInv'
  BY <1>1, GatesLeft DEF HermInv
<1>3. HermTold' /\ HermAsked'
  BY DEF HermInv, HermTold, HermAsked
<1> QED
  BY <1>2, <1>3 DEF HermInv

LEMMA HermConnections ==
  ASSUME CallInv, HermInv,
         Herm!HermesConnect \/ Herm!HermesDisconnect \/ Herm!HermesClearSessionScope
  PROVE  CallInv' /\ HermInv' /\ ContractStep
<1>1. CASE Herm!HermesConnect
  <2>1. /\ CallInv' /\ GateInv' /\ ContractStep /\ subscribed' = {}
        /\ call' = NewCall("connect", None, 0, "connected") /\ ~greeted'
    BY <1>1, HermGates, ConnectIs DEF HermInv, Herm!HermesConnect
  <2>2. call'.op = "connect"
    BY <2>1 DEF NewCall
  <2> QED
    BY <2>1, <2>2 DEF HermInv, HermTold, HermAsked
<1>2. CASE Herm!HermesDisconnect
  <2>1. /\ CallInv' /\ GateInv' /\ ContractStep /\ subscribed' = {}
        /\ UNCHANGED <<call, channel, greeted>>
        /\ DOMAIN gateways' = DOMAIN gateways
        /\ \A g \in DOMAIN gateways : /\ gateways'[g].events = gateways[g].events
                                      /\ gateways'[g].task = gateways[g].task
    BY <1>2, HermGates, DisconnectIs DEF HermInv, Herm!HermesDisconnect
  <2> QED
    BY <2>1 DEF HermInv, HermTold, HermAsked
<1>3. CASE Herm!HermesClearSessionScope
  <2>1. CallClearScope /\ subscribed' = {} /\ UNCHANGED <<gateways, gateway>>
    BY <1>3, HermCalls DEF Herm!HermesClearSessionScope
  <2>2. /\ CallInv' /\ ContractStep /\ UNCHANGED <<call, contact, prompts>>
    BY <2>1, CallClearScopeIs
  <2>3. call.step = "idle"
    BY <2>1 DEF CallClearScope, Idle
  <2>4. call.reply = "none"
    BY <2>3, IdleRests DEF HermInv
  <2>5. call'.op \in {"create", "resume"} => call'.session # None
    BY <2>2 DEF HermInv, HermAsked
  <2>6. submits <= submits'
    BY <2>2 DEF CallInv
  <2> QED
    BY <2>1, <2>2, <2>3, <2>4, <2>5, <2>6, HermLeft
<1> QED
  BY <1>1, <1>2, <1>3

LEMMA HermBegins ==
  ASSUME CallInv, HermInv, Herm!HermesCallBegins
  PROVE  CallInv' /\ HermInv' /\ ContractStep
<1>1. UNCHANGED <<gateways, gateway, subscribed>>
  BY DEF Herm!HermesCallBegins
<1>2. CASE \E op \in Op \ {"submit"}, s \in Session \cup {None}, first \in {"http", "asking"} :
             Begin(op, s, first) /\ (op \in {"create", "resume"} => s # None)
  <2>1. PICK op \in Op \ {"submit"}, s \in Session \cup {None}, first \in {"http", "asking"} :
             Begin(op, s, first) /\ (op \in {"create", "resume"} => s # None)
    BY <1>2
  <2>2. /\ CallInv' /\ ContractStep /\ call' = NewCall(op, s, 0, first)
        /\ scope \subseteq scope' /\ UNCHANGED <<contact, drawn, prompts>>
    BY <2>1, BeginIs
  <2>3. /\ call'.op = op /\ call'.session = s /\ call'.prompt = 0 /\ call'.reply = "none"
    BY <2>2 DEF NewCall
  <2>4. call.reply # "waiting"
    BY <2>1, IdleRests DEF Begin, Idle, HermInv
  <2>5. submits <= submits'
    BY <2>2 DEF CallInv
  <2>6. subscribed' \subseteq scope'
    BY <1>1, <2>2 DEF HermInv, HermAsked
  <2> QED
    BY <1>1, <2>1, <2>2, <2>3, <2>4, <2>5, <2>6, HermLeft
<1>3. CASE \E s \in Session : BeginSubmit(s, "asking")
  <2>1. PICK s \in Session : BeginSubmit(s, "asking")
    BY <1>3
  <2>2. /\ CallInv' /\ ContractStep /\ call' = NewCall("submit", s, submits + 1, "asking")
        /\ scope' = scope \cup {s} /\ UNCHANGED <<contact, drawn, posted>>
    BY <2>1, BeginSubmitIs
  <2>3. /\ call'.op = "submit" /\ call'.prompt = submits + 1 /\ call'.reply = "none"
    BY <2>2 DEF NewCall
  <2>4. call.reply # "waiting" /\ submits' = submits + 1
    BY <2>1, IdleRests DEF BeginSubmit, Idle, HermInv
  <2>5. submits <= submits'
    BY <2>4 DEF CallInv
  <2>6. subscribed' \subseteq scope'
    BY <1>1, <2>2 DEF HermInv, HermAsked
  <2> QED
    BY <1>1, <2>2, <2>3, <2>4, <2>5, <2>6, HermLeft
<1>4. \/ \E op \in Op \ {"submit"}, s \in Session \cup {None}, first \in {"http", "asking"} :
           Begin(op, s, first) /\ (op \in {"create", "resume"} => s # None)
      \/ \E s \in Session : BeginSubmit(s, "asking")
  <2>1. \A op \in {"list", "interrupt", "respond", "create", "resume"} : op \in Op \ {"submit"}
    BY DEF Op
  <2>2. \A s \in Session : s \in Session \cup {None} /\ s # None
    BY CallsAssumption
  <2>3. \/ Begin("list", None, "http")
        \/ \E s \in Session : \E op \in {"create", "resume"} : Begin(op, s, "asking")
        \/ \E op \in {"interrupt", "respond"} : Begin(op, None, "asking")
        \/ \E s \in Session : BeginSubmit(s, "asking")
    BY HermCalls DEF Herm!HermesCallBegins
  <2> QED
    BY <2>1, <2>2, <2>3
<1> QED
  BY <1>2, <1>3, <1>4

LEMMA HermAsks ==
  ASSUME CallInv, HermInv, Herm!HermesAsks
  PROVE  CallInv' /\ HermInv' /\ ContractStep
<1> DEFINE more == <<Gw!Request>>
<1>1. call.step = "asking" /\ Gw!Queues(more, "asked") /\ subscribed' = subscribed
  BY HermCalls, HermGates, HermGateTerms DEF Herm!HermesAsks
<1>2. call.reply # "waiting" /\ Pending
  BY <1>1 DEF HermInv, GateInv, GateQueues, Pending
<1>3. /\ more \in Seq(GateCommand) /\ more # <<>> /\ more[Len(more)] = Gw!Request
      /\ \A i \in DOMAIN more : i # Len(more) => ~IsRequest(more[i])
  BY OneRequest
<1> HIDE DEF more
<1>4. /\ CallInv' /\ GateInv' /\ ContractStep
      /\ call'.op = call.op /\ call'.session = call.session
      /\ gateways' = Gw!Enqueue(more) /\ UNCHANGED <<contact, view>>
  BY <1>1, <1>2, <1>3, QueuesIs DEF HermInv
<1>5. /\ DOMAIN gateways' = DOMAIN gateways
      /\ \A h \in DOMAIN gateways :
           gateways'[h].events = gateways[h].events /\ gateways'[h].task = gateways[h].task
  BY <1>3, <1>4, EnqueueIs DEF HermInv, GateInv
<1> QED
  BY <1>1, <1>4, <1>5 DEF HermInv, HermTold, HermAsked

LEMMA HermReturns ==
  ASSUME CallInv, HermInv, Herm!HermesOpens \/ Herm!HermesReturns
  PROVE  CallInv' /\ HermInv' /\ ContractStep
<1>1. CASE Herm!HermesOpens
  <2>1. /\ call.reply = "ok" /\ call.op \in {"create", "resume"} /\ subscribed' = {call.session}
        /\ ReturnSession /\ UNCHANGED <<gateways, gateway>>
    BY <1>1, HermCalls, HermGateTerms DEF Herm!HermesOpens, Gw!Answered
  <2>2. call.session # None
    BY <2>1 DEF HermInv, HermAsked
  <2>3. /\ CallInv' /\ ContractStep /\ call' = NoCall /\ scope' = {call.session}
        /\ UNCHANGED <<contact, prompts>>
    BY <2>1, <2>2, ReturnSessionIs
  <2>4. call'.reply = "none" /\ call'.prompt = 0 /\ call'.op = "none" /\ submits <= submits'
    BY <2>3 DEF NoCall, NewCall, CallInv
  <2> QED
    BY <2>1, <2>3, <2>4, HermLeft
<1>2. CASE Herm!HermesReturns
  <2>1. /\ call.step \in {"connected", "http"} \/ call.reply \notin {"none", "waiting"}
        /\ call' = NoCall
        /\ UNCHANGED <<contact, view, prompts, gateways, gateway, subscribed>>
    BY <1>2, HermCalls, HermGateTerms DEF Herm!HermesReturns, Gw!HasAnswer, Return
  <2>2. call.reply # "waiting"
    BY <2>1 DEF HermInv, GateInv, GateQueues
  <2>3. call'.reply = "none" /\ call'.prompt = 0 /\ call'.op = "none" /\ submits <= submits'
    BY <2>1 DEF NoCall, NewCall, CallInv
  <2>4. CallInv'
    BY <2>1, CallGoesOn
  <2>5. ContractStep
    BY <2>1 DEF ContractStep, Contract!vars
  <2>6. subscribed' \subseteq scope'
    BY <2>1 DEF HermInv, HermAsked
  <2> QED
    BY <2>1, <2>2, <2>3, <2>4, <2>5, <2>6, HermLeft
<1> QED
  BY <1>1, <1>2

LEMMA HermDials ==
  ASSUME CallInv, HermInv, NEW g \in DOMAIN gateways, Herm!HermesDials(g)
  PROVE  CallInv' /\ HermInv' /\ ContractStep
<1> DEFINE gw == gateways[g]
<1>1. gw \in GateRecord /\ gw.task = "dialing" /\ UNCHANGED <<subscribed, view, prompts>>
  BY GatesAre DEF HermInv, GateInv, GateTypes, Herm!HermesDials
<1>2. CASE Gw!Gate(g, [gw EXCEPT !.task = "open"]) /\ Greets(gw.events) /\ call' = call
  <2> DEFINE new == [gw EXCEPT !.task = "open"]
  <2>1. gateways' = [gateways EXCEPT ![g] = new] /\ gateway' = gateway
    BY <1>2 DEF Gw!Gate
  <2>2. /\ new \in GateRecord /\ new.events = gw.events /\ new.task = "open"
        /\ new.commands = gw.commands /\ new.wire = gw.wire
    BY <1>1 DEF GateRecord
  <2> HIDE DEF new
  <2>3. /\ channel' = channel /\ (line' # "closed" => line # "closed")
        /\ greeted' # greeted => Newest(gw.events)
    BY <1>2 DEF Greets, Newest
  <2>4. GateStep(g, new)
    BY <1>1, <2>1, <2>2, <2>3 DEF GateStep
  <2>5. GateInv'
    BY <1>1, <1>2, <2>2, <2>4, GateMoves DEF HermInv
  <2>6. /\ DOMAIN gateways' = DOMAIN gateways
        /\ gateways'[g] = new /\ \A h \in DOMAIN gateways : h # g => gateways'[h] = gateways[h]
    BY <2>4, GateStepIs DEF HermInv
  <2>7. HermTold'
    <3>1. CASE greeted' = greeted
      BY <2>2, <2>3, <2>6, <3>1 DEF HermInv, HermTold
    <3>2. CASE greeted' # greeted
      <4>1. channel # 0 => \A h \in DOMAIN gateways : gateways[h].events = channel => h = g
        BY <2>3, <3>2 DEF HermInv, GateInv, Channels, Newest
      <4> QED
        BY <2>2, <2>3, <2>6, <4>1 DEF HermTold
    <3> QED
      BY <3>1, <3>2
  <2>8. Newest(gw.events) => ~greeted
    BY <1>1 DEF Newest, HermInv, HermTold, GateInv, Channels
  <2>9. ContractStep
    BY <1>1, <1>2, <2>8, GreetsIs
  <2>10. CallInv'
    BY <1>1, <1>2, <2>3, CallGoesOn
  <2>11. HermAsked'
    BY <1>1, <1>2 DEF HermInv, HermAsked
  <2> QED
    BY <2>5, <2>7, <2>9, <2>10, <2>11 DEF HermInv
<1>3. CASE Gw!Gate(g, Gw!Over(gw)) /\ Loses(gw.events) /\ Gw!Drops(g)
  <2> DEFINE new == Gw!Over(gw)
  <2>1. gateways' = [gateways EXCEPT ![g] = new] /\ gateway' = gateway
    BY <1>3 DEF Gw!Gate
  <2>2. /\ new \in GateRecord /\ new.events = gw.events /\ new.task = "ended"
        /\ new.commands = <<>> /\ new.wire = <<>> /\ new.active = gw.active
        /\ gw.handshake = "done" => new.handshake = "done"
    BY <1>1, OverIs
  <2> HIDE DEF new
  <2>3. CallInv' /\ GateInv' /\ ContractStep /\ TaskStep(g)
    BY <1>1, <1>3, <2>1, <2>2, FailsIs DEF HermInv
  <2> QED
    BY <1>1, <2>3, HermTaskKept
<1> QED
  BY <1>2, <1>3, HermGateTerms, HermCalls DEF Herm!HermesDials

LEMMA HermTasks ==
  ASSUME CallInv, HermInv, NEW g \in DOMAIN gateways,
         \/ (Herm!SendsRequest(g) \/ Herm!Closes(g) \/ Herm!Aborts(g)) /\ subscribed' = subscribed
         \/ Herm!HermesServes(g) \/ Herm!HermesBreaks(g)
  PROVE  CallInv' /\ HermInv' /\ ContractStep
<1>1. GateInv
  BY DEF HermInv
<1>2. CASE Herm!SendsRequest(g) /\ subscribed' = subscribed
  BY <1>1, <1>2, HermGates, SendsRequestIs, HermTaskKept
<1>3. CASE (Herm!Closes(g) \/ Herm!Aborts(g)) /\ subscribed' = subscribed
  BY <1>1, <1>3, HermGates, EndsIs, HermTaskKept
<1>4. CASE Herm!HermesServes(g)
  <2>1. PICK i \in DOMAIN gateways[g].wire, r \in {"ok", "refused", "unexpected"} : Gw!Serves(g, i, r)
    BY <1>4, HermGates DEF Herm!HermesServes
  <2>2. subscribed' = subscribed
    BY <1>4 DEF Herm!HermesServes
  <2> QED
    BY <1>1, <2>1, <2>2, ServesIs, HermTaskKept
<1>5. CASE Herm!HermesBreaks(g)
  <2>1. gateways[g].state \in {"pending", "connected", "failed"}
    BY <1>1, GatesAre DEF GateInv, GateTypes, GateRecord
  <2>2. Gw!Breaks(g, gateways[g].state) /\ subscribed' = subscribed
    BY <1>5, HermGates DEF Herm!HermesBreaks
  <2> QED
    BY <1>1, <2>1, <2>2, BreaksIs, HermTaskKept
<1> QED
  BY <1>2, <1>3, <1>4, <1>5

LEMMA HermFrames ==
  ASSUME CallInv, HermInv, NEW g \in DOMAIN gateways, Herm!SessionInfo(g) \/ Herm!HermesFrame(g)
  PROVE  CallInv' /\ HermInv' /\ ContractStep
<1>1. UNCHANGED <<gateways, gateway, call, contact, prompts>>
  BY DEF Herm!SessionInfo, Herm!HermesFrame
<1>2. UNCHANGED <<gateways, gateway, call, channel, line, greeted, submits, posted>>
  BY <1>1
<1>3. GateTypes' /\ Channels' /\ GateQueues'
  BY <1>2 DEF HermInv, GateInv, GateTypes, Channels, GateQueues, Queued
<1>4. Prompts'
  BY <1>2 DEF HermInv, GateInv, Prompts, Pending, Queued, OnWire, Taken
<1>5. HermTold'
  BY <1>2 DEF HermInv, HermTold
<1>6. CASE Herm!SessionInfo(g)
  <2>1. PICK s \in Session : subscribed' = subscribed \cup {s} /\ scope' = scope \cup {s}
    BY <1>6 DEF Herm!SessionInfo
  <2>2. drawn' = drawn
    BY <1>6 DEF Herm!SessionInfo
  <2>3. ContractStep
    BY <1>2, <2>1, <2>2 DEF ContractStep, Contract!Next, Contract!Ask
  <2>4. CallInv'
    BY <1>2, <2>1 DEF CallInv
  <2>5. HermAsked'
    BY <1>2, <2>1 DEF HermInv, HermAsked
  <2> QED
    BY <1>3, <1>4, <1>5, <2>3, <2>4, <2>5 DEF HermInv, GateInv
<1>7. CASE Herm!HermesFrame(g)
  <2>1. subscribed' = subscribed
    BY <1>7 DEF Herm!HermesFrame
  <2>2. PICK label : (label = None \/ label \in subscribed) /\ Draws(gateways[g].events, label)
    BY <1>7, HermCalls DEF Herm!HermesFrame, Herm!BelongsToOpenSession
  <2>3. label \in scope \cup {None}
    BY <2>2 DEF HermInv, HermAsked
  <2>4. ContractStep
    BY <1>1, <2>2, <2>3, DrawsIs
  <2>5. scope' = scope
    BY <2>2 DEF Draws
  <2>6. CallInv'
    BY <1>2, <2>5 DEF CallInv
  <2>7. HermAsked'
    BY <1>2, <2>1, <2>5 DEF HermInv, HermAsked
  <2> QED
    BY <1>3, <1>4, <1>5, <2>4, <2>6, <2>7 DEF HermInv, GateInv
<1> QED
  BY <1>6, <1>7

LEMMA HermStep ==
  ASSUME CallInv, HermInv, Herm!HermesNext
  PROVE  CallInv' /\ HermInv' /\ ContractStep
<1>1. CASE \/ Herm!HermesConnect \/ Herm!HermesDisconnect \/ Herm!HermesClearSessionScope
           \/ Herm!HermesCallBegins \/ Herm!HermesCallStep
  BY <1>1, HermConnections, HermBegins, HermAsks, HermReturns DEF Herm!HermesCallStep
<1>2. CASE Herm!RequestTimesOut /\ subscribed' = subscribed
  <2>1. /\ CallInv' /\ GateInv' /\ ContractStep
        /\ SameCall /\ UNCHANGED <<gateways, gateway, contact, view, prompts>>
    BY <1>2, HermGates, RequestTimesOutIs DEF HermInv
  <2> QED
    BY <1>2, <2>1 DEF HermInv, HermTold, HermAsked, SameCall
<1>3. CASE \E g \in DOMAIN gateways :
             \/ Herm!HermesTaskStep(g) \/ Herm!SessionInfo(g) \/ Herm!HermesFrame(g)
             \/ Herm!HermesBreaks(g)
  <2>1. PICK g \in DOMAIN gateways :
             \/ Herm!HermesTaskStep(g) \/ Herm!SessionInfo(g) \/ Herm!HermesFrame(g)
             \/ Herm!HermesBreaks(g)
    BY <1>3
  <2> QED
    BY <2>1, HermDials, HermTasks, HermFrames DEF Herm!HermesTaskStep
<1> QED
  BY <1>1, <1>2, <1>3 DEF Herm!HermesNext

-----------------------------------------------------------------------------
(* The theorem.                                                             *)

AdapterInv ==
  /\ CallInv
  /\ kind \in {"openclaw", "hermes", "opencode", "xuexiaomi"} \cup Local
  /\ kind = "openclaw" => ClawInv
  /\ kind = "hermes" => HermInv
  /\ kind = "xuexiaomi" => XxmInv
  /\ kind = "opencode" => CodeInv
  /\ kind \in Local => CliInv

LEMMA AdapterInit ==
  ASSUME Init
  PROVE  AdapterInv /\ Contract!Init
<1>1. call.op = "none" /\ call.session = None /\ call.prompt = 0 /\ call.step = "idle"
      /\ call.reply = "none" /\ DOMAIN call = {"op", "session", "prompt", "step", "reply"}
  BY DEF Init, CallsInit, NoCall, NewCall
<1>2. CallInv
  BY <1>1 DEF Init, CallsInit, CallInv
<1>3. XxmInv
  BY <1>1 DEF Init, Xxm!XxmInit, XxmInv
<1>4. CodeInv
  <2>1. streams = <<>> /\ shared = Code!Cleared
    BY DEF Init, Code!CodeInit
  <2>2. "active" \in DOMAIN shared /\ shared.active = None
    BY <2>1 DEF Code!Cleared
  <2> QED
    BY <1>1, <2>1, <2>2 DEF CodeInv
<1>5. CliInv
  <2>1. output = <<>> /\ inHand.what = "none" /\ live = None /\ opened = None
    BY DEF Init, Line!CliInit, Line!Nothing
  <2> QED
    BY <1>1, <2>1 DEF CliInv, Unsaid, NotSaid, Opening
<1>6. /\ gateways = <<>> /\ gateway = 0 /\ subscribed = {}
      /\ channel = 0 /\ line = "closed" /\ greeted = FALSE
  BY DEF Init, CallsInit, Herm!HermesInit, Herm!GatewayInit
<1>7. GateInv
  <2>1. gateways \in Seq(GateRecord) /\ Len(gateways) = 0 /\ DOMAIN gateways = {}
    BY <1>6
  <2>2. GateTypes /\ Channels
    BY <1>6, <2>1 DEF GateTypes, Channels
  <2>3. GateQueues /\ Prompts
    BY <1>1, <1>6, <2>1 DEF GateQueues, Prompts
  <2> QED
    BY <2>2, <2>3 DEF GateInv
<1>8. ClawInv /\ HermInv
  BY <1>1, <1>6, <1>7
  DEF ClawInv, ClawTold, ClawFilters, ClawOpens, Gw!Reachable, HermInv, HermTold, HermAsked
<1>9. kind \in {"openclaw", "hermes", "opencode", "xuexiaomi"} \cup Local
  BY BackendAssumption DEF Init
<1> QED
  BY <1>2, <1>3, <1>4, <1>5, <1>8, <1>9 DEF AdapterInv, Contract!Init, Init, CallsInit

LEMMA CliKeepsKind ==
  ASSUME Line!CliNext
  PROVE  kind' = kind
BY DEF Line!CliNext, Line!CliConnect, Line!CliDisconnect, Line!CliDisconnects,
       Line!CliClearSessionScope, Line!CliCallBegins, Line!Opens, Line!CliCallStep, Line!CliProbed,
       Line!Names, Line!OldProcessIsOver, Line!Spawns, Line!Sends, Line!SpawnFails, Line!StopRuns,
       Line!ReaderTakes, Line!ReaderHandles, Line!ReaderEnds, Line!ProcessExits, Line!ProcessWrites

LEMMA AdapterStutters ==
  ASSUME AdapterInv, UNCHANGED vars
  PROVE  AdapterInv' /\ ContractStep
<1>1. UNCHANGED <<call, channel, line, greeted, scope, drawn, posted, submits, kind>>
      /\ UNCHANGED <<streams, shared, active, live, output, inHand, opened>>
      /\ UNCHANGED <<gateways, gateway, subscribed>>
  BY DEF vars, xxmVars, lineVars
<1>2. CallInv' /\ (XxmInv => XxmInv') /\ (CodeInv => CodeInv') /\ (CliInv => CliInv') /\ ContractStep
  BY <1>1 DEF AdapterInv, CallInv, XxmInv, CodeInv, CliInv, Unsaid, NotSaid, Opening, Taken,
              ContractStep, Contract!vars
<1>3. GateInv => GateInv'
  <2>1. GateTypes /\ Channels => GateTypes' /\ Channels'
    BY <1>1 DEF GateTypes, Channels
  <2>2. GateQueues /\ Prompts => GateQueues' /\ Prompts'
    BY <1>1 DEF GateQueues, Prompts, Pending, Queued, OnWire, Taken
  <2> QED
    BY <2>1, <2>2 DEF GateInv
<1>4. (ClawInv => ClawInv') /\ (HermInv => HermInv')
  BY <1>1, <1>3
  DEF ClawInv, ClawTold, ClawFilters, ClawOpens, Gw!Reachable, HermInv, HermTold, HermAsked
<1> QED
  BY <1>1, <1>2, <1>4 DEF AdapterInv

LEMMA AdapterStep ==
  ASSUME AdapterInv, [Next]_vars
  PROVE  AdapterInv' /\ ContractStep
<1>1. CASE kind = "openclaw" /\ Claw!OpenClawNext /\ kind' = kind
  BY <1>1, ClawStep DEF AdapterInv, Local
<1>2. CASE kind = "hermes" /\ Herm!HermesNext /\ kind' = kind
  BY <1>2, HermStep DEF AdapterInv, Local
<1>3. CASE kind = "opencode" /\ Code!OpenCodeNext /\ kind' = kind
  BY <1>3, CodeStep DEF AdapterInv, Local
<1>4. CASE kind = "xuexiaomi" /\ Xxm!XueXiaoMiNext /\ kind' = kind
  BY <1>4, XxmStep DEF AdapterInv, Local
<1>5. CASE kind \in Local /\ Line!CliNext
  BY <1>5, CliStep, CliKeepsKind DEF AdapterInv, Local
<1>6. CASE UNCHANGED vars
  BY <1>6, AdapterStutters
<1> QED
  BY <1>1, <1>2, <1>3, <1>4, <1>5, <1>6 DEF Next

(* Every adapter keeps what a frontend relies on (agent/mod.rs): Connected  *)
(* is told once per channel, what is drawn was asked for and not left, and  *)
(* no prompt reaches the agent twice, for any sessions, bounds and length   *)
(* of a reply, whatever is lost, refused or answered late.                  *)
THEOREM AdaptersKeepContract == Spec => KeepsContract
<1>1. Init => AdapterInv /\ Contract!Init
  BY AdapterInit
<1>2. AdapterInv /\ [Next]_vars => AdapterInv' /\ [Contract!Next]_(Contract!vars)
  BY AdapterStep DEF ContractStep
<1> QED
  BY <1>1, <1>2, PTL DEF Spec, KeepsContract, Contract!Spec
=============================================================================
