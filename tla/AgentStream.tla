----------------------------- MODULE AgentStream -----------------------------
(***************************************************************************)
(* What every frontend relies on when it holds a Backend (agent/mod.rs),   *)
(* whichever protocol is behind it:                                        *)
(*                                                                         *)
(*   - connect() starts a new channel, and only that one matters from then *)
(*     on; it is told Connected at most once;                              *)
(*   - a turn's frame is drawn only when it belongs to a session the       *)
(*     frontend has asked for and not left since (or carries no label);    *)
(*   - a prompt reaches the agent at most once, whatever is retried.       *)
(***************************************************************************)
EXTENDS Naturals, Sequences

CONSTANTS Session, None

VARIABLES
  channel,  \* the number of the newest channel, 0 before the first connect
  line,     \* what that channel was told: silent, up or lost, or that it is closed
  greeted,  \* it was told Connected
  scope,    \* the sessions whose frames may be drawn now
  drawn,    \* those drawn since the frontend last moved
  posted    \* the prompts the agent took, in their order

vars == <<channel, line, greeted, scope, drawn, posted>>

Init ==
  /\ channel = 0 /\ line = "closed" /\ greeted = FALSE
  /\ scope = {} /\ drawn = {} /\ posted = <<>>

(* connect() and disconnect(): what went before is over. *)
Open ==
  /\ channel' = channel + 1
  /\ line' = "silent" /\ greeted' = FALSE /\ scope' = {} /\ drawn' = {}
  /\ UNCHANGED posted

Close ==
  /\ line' = "closed" /\ scope' = {} /\ drawn' = {}
  /\ UNCHANGED <<channel, greeted, posted>>

Greet ==
  /\ ~greeted /\ line # "closed"
  /\ line' = "up" /\ greeted' = TRUE
  /\ UNCHANGED <<channel, scope, drawn, posted>>

Lose ==
  /\ line # "closed"
  /\ line' = "lost"
  /\ UNCHANGED <<channel, greeted, scope, drawn, posted>>

(* A call about session s begins, or the agent says that it is on s. *)
Ask(s) ==
  /\ scope' = scope \cup {s}
  /\ UNCHANGED <<channel, line, greeted, drawn, posted>>

(* s was resumed or created: nothing but s from here on. *)
Settle(s) ==
  /\ scope' = {s} /\ drawn' = {}
  /\ UNCHANGED <<channel, line, greeted, posted>>

(* The frontend moved to a blank chat. *)
Leave ==
  /\ scope' \subseteq scope /\ drawn' = {}
  /\ UNCHANGED <<channel, line, greeted, posted>>

Draw(s) ==
  /\ line # "closed"
  /\ s \in scope \cup {None}
  /\ drawn' = drawn \cup {s}
  /\ UNCHANGED <<channel, line, greeted, scope, posted>>

Post(p) ==
  /\ \A i \in DOMAIN posted : posted[i] # p
  /\ posted' = Append(posted, p)
  /\ UNCHANGED <<channel, line, greeted, scope, drawn>>

Next ==
  \/ Open \/ Close \/ Greet \/ Lose \/ Leave
  \/ \E s \in Session : Ask(s) \/ Settle(s)
  \/ \E s \in Session \cup {None} : Draw(s)
  \/ \E i \in DOMAIN posted' : Post(posted'[i])

Spec == Init /\ [][Next]_vars
=============================================================================
