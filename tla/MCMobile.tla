------------------------------ MODULE MCMobile ------------------------------
(***************************************************************************)
(* Small instances of the phone's bridge.                                  *)
(***************************************************************************)
EXTENDS MobileClient, TLC

CONSTANTS k1, k2, s1, s2, s3, s4, s5

MCOwner == [s \in Session |-> IF s = s4 THEN k2 ELSE k1]

Only(classes) == classes @@ [c \in Class |-> 0]

In(saved) == [kind |-> k1, enabled |-> k1, saved |-> saved]

SavedS1 == [backend |-> k1, id |-> s1]

Scenario(online, saved, classes) ==
  [settings |-> In(saved), online |-> online, budget |-> Only(classes)]

(* Conversations are opened, left and written to; the connection is started, *)
(* lost, refused and closed; a turn runs while it is lost.                   *)
MCScenarios ==
  {Scenario(TRUE, None, [open |-> 2, text |-> 1, new |-> 1]),
   Scenario(TRUE, None, [open |-> 2, text |-> 1, fail |-> 1]),
   Scenario(TRUE, None, [open |-> 1, text |-> 1, new |-> 1, fail |-> 1]),
   Scenario(TRUE, None, [text |-> 2, open |-> 1, refresh |-> 1, interrupt |-> 1]),
   Scenario(TRUE, None, [text |-> 2, open |-> 1, interrupt |-> 1, fail |-> 1]),
   Scenario(TRUE, None, [text |-> 2, new |-> 1, fail |-> 1]),
   Scenario(FALSE, None, [ensure |-> 1, drop |-> 1, fail |-> 1, disconnect |-> 1]),
   Scenario(FALSE, SavedS1, [ensure |-> 1, drop |-> 1, info |-> 1, fail |-> 1]),
   Scenario(FALSE, SavedS1, [connect |-> 1, drop |-> 1]),
   Scenario(TRUE, None, [text |-> 1, drop |-> 1, fail |-> 1, info |-> 1])}

(* The session on screen is resumed while the user opens another one. *)
ResumingScenario == {Scenario(FALSE, None, [open |-> 2, text |-> 1])}

(* The user disconnects while the connection is made. *)
ClosingScenario == {Scenario(FALSE, None, [disconnect |-> 1])}
=============================================================================
