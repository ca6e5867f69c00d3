------------------------------ MODULE Backend ------------------------------
(***************************************************************************)
(* The Backend facade (agent/mod.rs): one of the adapters, chosen when it  *)
(* is made, behind one set of calls.  Each is a module of its own; whoever *)
(* holds a Backend relies on AgentStream, whichever it is.                 *)
(***************************************************************************)
EXTENDS AgentCalls

CONSTANTS
  Bounds,       \* bound at the start, for each kind checked
  ReplyLength,  \* as in OpenCode
  Snapshot      \* as in XueXiaoMi

Local == {"codex", "claude", "pi"}

ASSUME BackendAssumption ==
  /\ ReplyLength \in Nat /\ Snapshot \subseteq Session
  /\ DOMAIN Bounds \subseteq {"openclaw", "hermes", "opencode", "xuexiaomi"} \cup Local
  /\ \A k \in DOMAIN Bounds : Bounds[k] \in [{"call", "submit", "frame", "fault"} -> Nat]

VARIABLES
  kind,                                                   \* Backend's variant
  gateways, gateway, subscribed,                          \* OpenClaw and Hermes
  streams, configured, shared, turn, bubble, missed, questions, asked, answers,  \* OpenCode
  active, readOnly, continued, loaded, copies, turns, running,             \* XueXiaoMi
  reader, live, process, inner, stops, output, inHand, argument, misnamed, opened, heard,   \* Cli
  events                                                  \* XueXiaoMi and Cli

Claw == INSTANCE OpenClaw
Herm == INSTANCE Hermes
Code == INSTANCE OpenCode
Xxm  == INSTANCE XueXiaoMi
Line == INSTANCE Cli WITH agent <- kind

clawVars == <<gateways, gateway>>
codeVars == <<streams, configured, shared, turn, bubble, missed, questions, asked, answers>>
xxmVars  == <<active, readOnly, continued, loaded, copies, turns, running>>
lineVars == <<reader, live, process, inner, stops, output, inHand, argument, misnamed, opened, heard>>

vars == <<callVars, kind, clawVars, subscribed, codeVars, xxmVars, lineVars, events>>

TypeOK ==
  /\ kind \in DOMAIN Bounds
  /\ CallsTypeOK /\ Herm!HermesTypeOK /\ Code!CodeTypeOK /\ Xxm!XxmTypeOK /\ Line!CliTypeOK

Init ==
  /\ CallsInit /\ Herm!HermesInit /\ Code!CodeInit /\ Xxm!XxmInit /\ Line!CliInit
  /\ kind \in DOMAIN Bounds
  /\ bound = Bounds[kind]

Next ==
  \/ /\ kind = "openclaw" /\ Claw!OpenClawNext
     /\ UNCHANGED <<kind, subscribed, codeVars, xxmVars, lineVars, events>>
  \/ /\ kind = "hermes" /\ Herm!HermesNext
     /\ UNCHANGED <<kind, codeVars, xxmVars, lineVars, events>>
  \/ /\ kind = "opencode" /\ Code!OpenCodeNext
     /\ UNCHANGED <<kind, clawVars, subscribed, xxmVars, lineVars, events>>
  \/ /\ kind = "xuexiaomi" /\ Xxm!XueXiaoMiNext
     /\ UNCHANGED <<kind, clawVars, subscribed, codeVars, lineVars>>
  \/ /\ kind \in Local /\ Line!CliNext
     /\ UNCHANGED <<clawVars, subscribed, codeVars, xxmVars>>

Spec == Init /\ [][Next]_vars

-----------------------------------------------------------------------------
(* Every adapter keeps what a frontend relies on: AgentStream.              *)
Contract == INSTANCE AgentStream

KeepsContract == Contract!Spec

(* The properties of single adapters, each stated in its module.            *)
AnswerGoesToAsker == Code!AnswerGoesToAsker
ReplyShownOnce == Code!ReplyShownOnce
NothingDrawnTwice == Code!NothingDrawnTwice
OneCopyPerSession == Xxm!OneCopyPerSession
StopReachesTheTurn == [][kind = "xuexiaomi" => Xxm!StopReachesTheTurn]_vars
DeadProcessIsTold == Line!DeadProcessIsTold
PromptReachesItsSession == [][(kind \in Local) => Line!PromptReachesItsSession]_vars
OneSessionPerStream == Line!OneSessionPerStream
ConnectSucceeds == [][(kind \in Local) => Line!ConnectSucceeds]_vars
=============================================================================
