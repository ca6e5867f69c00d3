----------------------------- MODULE MCBackend -----------------------------
(***************************************************************************)
(* Every adapter, one at a time, with two sessions.                        *)
(***************************************************************************)
EXTENDS Backend, TLC

CONSTANTS s1, s2

Times(calls, prompts_, frames, faults) ==
  [call |-> calls, submit |-> prompts_, frame |-> frames, fault |-> faults]

MCBounds ==
  [openclaw  |-> Times(3, 1, 1, 1),
   hermes    |-> Times(3, 1, 2, 1),
   opencode  |-> Times(3, 1, 4, 1),
   xuexiaomi |-> Times(4, 2, 1, 1),
   claude    |-> Times(3, 1, 1, 1),
   pi        |-> Times(3, 1, 1, 1),
   codex     |-> Times(3, 1, 1, 1)]

(* For what one agent alone does. *)
CodexBounds == "codex" :> MCBounds["codex"]
=============================================================================
