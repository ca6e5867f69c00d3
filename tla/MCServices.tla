----------------------------- MODULE MCServices -----------------------------
(***************************************************************************)
(* The parts that share no state with one another, in one run: the chat a  *)
(* frontend folds, how the phone's screen follows it, the local server     *)
(* manager, the cache on disk and the settings.  Each behaviour is one     *)
(* part's, the others stay as they began.                                  *)
(***************************************************************************)
EXTENDS Conversation, PhoneFeed, LocalServer, SessionCache, Settings, TLC

CONSTANTS
  Parts,        \* which of the parts this run is of
  a1, a2, v1, u1, none, blank, c1, f1, home, d1, t1, t2

VARIABLE part

MCSources == <<"transcript", "agent">>

(* What may happen to a server: it dies, is stopped, refuses to start, the  *)
(* workspace changes twice, the app ends, the user goes to the other backend *)
(* and back.                                                                *)
Plan(k, budget) == [kind |-> k, budget |-> budget @@ [c \in Chance |-> 0]]
MCPlans == {
  Plan("mimo", "die" :> 1 @@ "stop" :> 1),
  Plan("mimo", "workspace" :> 1 @@ "stop" :> 1),
  Plan("mimo", "die" :> 1 @@ "workspace" :> 1 @@ "refuse" :> 1),
  Plan("mimo", "workspace" :> 2),
  Plan("mimo", "workspace" :> 1 @@ "quit" :> 1),
  Plan("hermes", "die" :> 1 @@ "workspace" :> 1 @@ "quit" :> 1),
  Plan("hermes", "switch" :> 2 @@ "die" :> 1)}

MCFeed == "send" :> 2 @@ "delta" :> 3 @@ "call" :> 1 @@ "new" :> 1 @@ "fail" :> 1

(* A part that is not looked at begins in one of its states.                *)
Init ==
  /\ part \in Parts
  /\ ConversationInit /\ FeedInit /\ ServerInit /\ CacheInit /\ SettingsInit
  /\ part # "server" => kind = "mimo" /\ chances["quit"] = 1
  /\ part # "cache" => frontend = "mobile"
  /\ part # "settings" =>
       file.active = a1 /\ file.auto /\ last = [b \in Agent |-> [address |-> blank, token |-> none]]

Next ==
  /\ UNCHANGED part
  /\ \/ part = "conversation" /\ ConversationNext /\ UNCHANGED <<feedVars, serverVars, cacheVars, settingsVars>>
     \/ part = "feed" /\ FeedNext /\ UNCHANGED <<convVars, serverVars, cacheVars, settingsVars>>
     \/ part = "server" /\ ServerNext /\ UNCHANGED <<convVars, feedVars, cacheVars, settingsVars>>
     \/ part = "cache" /\ CacheNext /\ UNCHANGED <<convVars, feedVars, serverVars, settingsVars>>
     \/ part = "settings" /\ SettingsNext /\ UNCHANGED <<convVars, feedVars, serverVars, cacheVars>>

vars == <<part, convVars, feedVars, serverVars, cacheVars, settingsVars>>
others == <<part, convVars, feedVars, cacheVars, settingsVars>>

(* Only the server's part has something that must happen.                   *)
Fairness ==
  /\ \A t \in Task : WF_vars(part = "server" /\ TaskSteps(t) /\ UNCHANGED others)
  /\ \A p \in Process : WF_vars(part = "server" /\ ProcessSteps(p) /\ UNCHANGED others)
  /\ WF_vars(part = "server" /\ (\E t \in Task : ConnectEnsures(t)) /\ UNCHANGED others)

Spec == Init /\ [][Next]_vars /\ Fairness

TypeOK == ConversationTypeOK /\ FeedTypeOK /\ ServerTypeOK /\ CacheTypeOK /\ SettingsTypeOK

(* Whatever dies, is stopped, refuses to start or is found running, the     *)
(* client is online with its server again: ServerIsUp says with what one    *)
(* exception.                                                               *)
ServerComesUp == (part = "server" /\ ~online) ~> ServerIsUp
=============================================================================
