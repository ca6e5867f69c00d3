------------------------------ MODULE MCDesktop ------------------------------
(***************************************************************************)
(* Small instances of the desktop client core: the session it starts on,   *)
(* and how often the user and the outside world may do each thing.  What   *)
(* the client's own tasks do is never bounded.                             *)
(***************************************************************************)
EXTENDS DesktopRouting, TLC

CONSTANTS k1, k2, s1, s2, s3, s4

MCOwner == [s \in Session |-> IF s = s4 THEN k2 ELSE k1]

(* A budget names what may happen; everything else does not. *)
Scenario(launch, classes) ==
  [launch |-> launch, budget |-> classes @@ [c \in Class |-> 0]]

-----------------------------------------------------------------------------
(* Instances on which the properties hold. *)

(* Two prompts, the queue between them, and leaving the conversation; or the stream drops *)
(* while a session is opened and a prompt sent, or a question asked and dismissed. *)
PromptsScenarios ==
  {Scenario(None, [text |-> 2, queue |-> 1, open |-> 1]),
   Scenario(s1, [text |-> 1, open |-> 1, drop |-> 1]),
   Scenario(s1, [open |-> 1, drop |-> 1, question |-> 1, dismiss |-> 1])}

(* From one backend to another with replies and questions in flight; or the *)
(* managed server restarts under the connection; or a question is answered. *)
SwitchingScenarios ==
  {Scenario(None, [connect |-> 1, switch |-> 1, frame |-> 1]),
   Scenario(s1, [connect |-> 1, switch |-> 1, new |-> 1, frame |-> 1, question |-> 1]),
   Scenario(s1, [connect |-> 1, workspace |-> 1, open |-> 1]),
   Scenario(s1, [connect |-> 1, text |-> 1, question |-> 1])}

(* A drop, a refused stream, a failed step and an announced session; or a prompt and its *)
(* turn while the user stops it, a step fails or the backend is switched off. *)
EndingsScenarios ==
  {Scenario(None, [connect |-> 1, drop |-> 1, fail |-> 1, reject |-> 1, info |-> 1]),
   Scenario(None, [text |-> 1, stop |-> 1, fail |-> 1, disconnect |-> 1]),
   Scenario(s1, [text |-> 1, stop |-> 1, fail |-> 1, disconnect |-> 1])}

-----------------------------------------------------------------------------
(* Instances on which one does not. *)

QueuedElsewhereScenarios == {Scenario(None, [text |-> 2, open |-> 1, frame |-> 1])}
StuckConnectingScenarios == {Scenario(s1, [connect |-> 1, drop |-> 1])}
=============================================================================
