----------------------------- MODULE LocalServer -----------------------------
(***************************************************************************)
(* LocalServerManager (core/src/local_server.rs), as the desktop uses it   *)
(* (connect.rs, commands.rs): it looks for a server on the backend's port, *)
(* starts one when there is none, and starts it again in another directory *)
(* when the workspace changes.  Its calls run as tasks on several threads, *)
(* and each of its fields has a lock of its own: a step is what a call does *)
(* under one of them.                                                      *)
(*                                                                         *)
(* Each server has a port of its own, on which a process that was killed   *)
(* may answer for a while (restart_in's comment).  Other backends,         *)
(* passwords and workspaces that do not exist are left out.                *)
(***************************************************************************)
EXTENDS Integers, FiniteSets

CONSTANTS
  Dir,          \* workspaces
  AppDir,       \* where a server is started that takes no workspace
  Process,      \* bound: places for processes, of whoever started them
  Task,         \* bound: calls of the manager at a time
  ServerPlans   \* bounds: [kind, budget], one chosen at the start

Server == {"hermes", "mimo"}
Chance == {"die", "workspace", "switch", "stop", "quit", "refuse"}

ASSUME ServerAssumption ==
  /\ AppDir \notin Dir /\ 0 \notin Process
  /\ ServerPlans \subseteq [kind : Server, budget : [Chance -> Nat]]

VARIABLES
  child, server, startedIn,  \* LocalServerManager
  procs,       \* the processes of the machine
  calls,       \* ensure_running, restart_in and stop, under way
  kind, workspace,           \* Settings
  online,      \* the stream to the server is up
  chances      \* what may still happen

serverVars == <<child, server, startedIn, procs, calls, kind, workspace, online, chances>>
managerVars == <<child, server, startedIn>>
userVars == <<kind, workspace>>

Gone == [of |-> "none", dir |-> AppDir, at |-> "gone"]
Idle == [do |-> "none", of |-> "none", dir |-> AppDir, at |-> "idle", ours |-> FALSE, alone |-> FALSE]

ServerTypeOK ==
  /\ child \in Process \cup {0} /\ server \in Server \cup {"none"}
  /\ child # 0 => procs[child].at # "gone"
  /\ startedIn \in Dir \cup {AppDir}
  /\ procs \in [Process -> [of : Server \cup {"none"}, dir : Dir \cup {AppDir},
                            at : {"gone", "starting", "serving", "dying", "exited"}]]
  /\ calls \in [Task -> [do : {"none", "ensure", "restart", "stop", "quit"},
                         of : Server \cup {"none"}, dir : Dir \cup {AppDir},
                         ours : BOOLEAN, alone : BOOLEAN,
                         at : {"idle", "stop", "take", "kill", "drop", "forget", "quiet", "ask",
                               "check", "spawn", "names", "places", "poll", "reap"}]]
  /\ kind \in Server /\ workspace \in Dir \cup {AppDir}
  /\ online \in BOOLEAN /\ chances \in [Chance -> Nat]

ServerInit ==
  /\ child = 0 /\ server = "none" /\ startedIn = AppDir
  /\ procs = [p \in Process |-> Gone]
  /\ calls = [t \in Task |-> Idle]
  /\ workspace = AppDir /\ online = FALSE
  /\ \E plan \in ServerPlans : kind = plan.kind /\ chances = plan.budget

May(c) == chances[c] > 0 /\ chances' = [chances EXCEPT ![c] = @ - 1]

-----------------------------------------------------------------------------
(* The machine.                                                             *)

Serving(of) == {p \in Process : procs[p].of = of /\ procs[p].at = "serving"}
Dying(of) == {p \in Process : procs[p].of = of /\ procs[p].at = "dying"}
Living(of) == {p \in Process : procs[p].of = of /\ procs[p].at \in {"starting", "serving", "dying"}}

IsReachable(of) == Serving(of) \cup Dying(of) # {}

(* A process is gone; whoever holds its handle can still ask for its status. *)
Exited(p) == IF p = child THEN [procs[p] EXCEPT !.at = "exited"] ELSE Gone

Serves(p) ==
  /\ procs[p].at = "starting"
  /\ procs' = [procs EXCEPT ![p] =
                 IF IsReachable(procs[p].of) THEN Exited(p) ELSE [@ EXCEPT !.at = "serving"]]
  /\ UNCHANGED <<managerVars, calls, userVars, online, chances>>

Ends(p) ==
  /\ procs[p].at = "dying"
  /\ procs' = [procs EXCEPT ![p] = Exited(p)]
  /\ UNCHANGED <<managerVars, calls, userVars, online, chances>>

Dies(p) ==
  /\ procs[p].at \in {"starting", "serving"} /\ May("die")
  /\ procs' = [procs EXCEPT ![p] = Exited(p)]
  /\ online' = (online /\ p \notin Serving(kind))
  /\ UNCHANGED <<managerVars, calls, userVars>>

-----------------------------------------------------------------------------
(* The manager.                                                             *)

IsManaging == child # 0

(* The lock of child, which take_exited_child keeps longest.                *)
ChildFree == \A t \in Task : calls[t].at # "reap"

(* A handle is let go of.  Nobody hears any more of how its process ended.  *)
LetGo == [p \in Process |-> IF p = child /\ procs[p].at = "exited" THEN Gone ELSE procs[p]]

Goes(t, at) == calls' = [calls EXCEPT ![t].at = at]

(* A call that begins: no restart under way is alone any more. *)
Begins(t, call) ==
  /\ calls[t] = Idle
  /\ calls' = [u \in Task |-> IF u = t THEN call ELSE [calls[u] EXCEPT !.alone = FALSE]]

(* The app ends; its servers do not.                                        *)
AppEnds ==
  /\ child' = 0 /\ server' = "none" /\ startedIn' = AppDir /\ online' = FALSE
  /\ procs' = [p \in Process |-> IF procs[p].at = "exited" THEN Gone ELSE procs[p]]
  /\ calls' = [t \in Task |-> Idle]

(* stop.  What it lets go of may be a child stored since it killed one.     *)
StopTakes(t) ==
  /\ calls[t].at = "take"
  /\ server' = "none" /\ Goes(t, "kill")
  /\ UNCHANGED <<child, startedIn, procs, userVars, online, chances>>

Killed(p) == [procs[p] EXCEPT !.at = IF @ = "serving" THEN "dying" ELSE "exited"]

StopKills(t) ==
  /\ calls[t].at = "kill" /\ ChildFree
  /\ procs' = [p \in Process |-> IF p = child /\ procs[p].at \in {"starting", "serving"}
                                 THEN Killed(p) ELSE procs[p]]
  /\ online' = (online /\ child \notin Serving(kind))
  /\ Goes(t, "drop")
  /\ UNCHANGED <<managerVars, userVars, chances>>

StopDrops(t) ==
  /\ calls[t].at = "drop" /\ ChildFree
  /\ child' = 0 /\ procs' = LetGo
  /\ Goes(t, "forget")
  /\ UNCHANGED <<server, startedIn, userVars, online, chances>>

StopForgets(t) ==
  /\ calls[t].at = "forget"
  /\ \/ /\ calls[t].do = "restart" /\ Goes(t, IF calls[t].ours THEN "quiet" ELSE "ask")
        /\ startedIn' = AppDir /\ UNCHANGED <<child, server, procs, online>>
     \/ /\ calls[t].do = "stop" /\ calls' = [calls EXCEPT ![t] = Idle]
        /\ startedIn' = AppDir /\ UNCHANGED <<child, server, procs, online>>
     \/ calls[t].do = "quit" /\ AppEnds
  /\ UNCHANGED <<userVars, chances>>

(* restart_in's first statement; then it stops the server.                  *)
RestartLooks(t) ==
  /\ calls[t].at = "stop" /\ ChildFree
  /\ calls' = [calls EXCEPT ![t].ours = IsManaging, ![t].at = "take"]
  /\ UNCHANGED <<managerVars, procs, userVars, online, chances>>

(* Mutant: the restart does not wait for the port to fall silent. *)
AnswersAnyway(of) == TRUE

(* Ten seconds are longer than a killed process takes to go. *)
QuietOver(of) == IsReachable(of) => Dying(of) = {}

RestartWaits(t) ==
  /\ calls[t].at = "quiet" /\ QuietOver(calls[t].of)
  /\ Goes(t, "ask")
  /\ UNCHANGED <<managerVars, procs, userVars, online, chances>>

(* The call ends: a connect that found its server opens the stream, and any *)
(* other end leads to a connect.                                            *)
Returns(t, ok) ==
  /\ calls' = [calls EXCEPT ![t] = Idle]
  /\ online' = IF calls[t].do = "restart" \/ (calls[t].of = kind /\ ~ok) THEN FALSE
               ELSE IF calls[t].of = kind THEN Serving(kind) # {}
               ELSE online

Reached(t) ==
  /\ calls[t].at \in {"ask", "poll"} /\ IsReachable(calls[t].of)
  /\ Returns(t, TRUE)
  /\ UNCHANGED <<managerVars, procs, userVars, chances>>

NotReached(t) ==
  /\ calls[t].at = "ask" /\ ~IsReachable(calls[t].of)
  /\ Goes(t, "check")
  /\ UNCHANGED <<managerVars, procs, userVars, online, chances>>

StartChecks(t) ==
  /\ calls[t].at = "check" /\ ChildFree
  /\ Goes(t, IF IsManaging THEN "poll" ELSE "spawn")
  /\ UNCHANGED <<managerVars, procs, userVars, online, chances>>

(* uses_workspace: mimo serves the project of the directory it starts in.   *)
StartsIn(call) == IF call.of = "mimo" THEN call.dir ELSE AppDir

(* The handle of a process another start made meanwhile is dropped, not killed. *)
StartSpawns(t) == \E p \in Process :
  /\ calls[t].at = "spawn" /\ ChildFree /\ procs[p].at = "gone"
  /\ procs' = [LetGo EXCEPT ![p] = [of |-> calls[t].of, dir |-> StartsIn(calls[t]), at |-> "starting"]]
  /\ child' = p
  /\ Goes(t, "names")
  /\ UNCHANGED <<server, startedIn, userVars, online, chances>>

StartNames(t) ==
  /\ calls[t].at = "names"
  /\ server' = calls[t].of /\ Goes(t, "places")
  /\ UNCHANGED <<child, startedIn, procs, userVars, online, chances>>

StartPlaces(t) ==
  /\ calls[t].at = "places"
  /\ startedIn' = StartsIn(calls[t]) /\ Goes(t, "poll")
  /\ UNCHANGED <<child, server, procs, userVars, online, chances>>

SpawnFails(t) ==
  /\ calls[t].at = "spawn" /\ May("refuse")
  /\ Goes(t, "poll")
  /\ UNCHANGED <<managerVars, procs, userVars, online>>

ChildExited == child # 0 /\ procs[child].at = "exited"

(* Mutant: the handle of a process that exited is kept. *)
KeepsExitedChild == ChildExited /\ UNCHANGED <<child, server, procs>>

(* Mutant: the process is reaped and its handle kept. *)
ReapsAlone ==
  /\ ChildExited
  /\ procs' = [procs EXCEPT ![child] = Gone]
  /\ UNCHANGED <<child, server>>

(* take_exited_child: the next start may try again.  It has the lock of     *)
(* child while it takes the others.                                         *)
TakeExitedChild == ChildExited /\ child' = 0 /\ server' = "none" /\ procs' = LetGo

PollSeesExit(t) ==
  /\ calls[t].at = "poll" /\ ~IsReachable(calls[t].of) /\ ChildFree
  /\ TakeExitedChild
  /\ Goes(t, "reap")
  /\ UNCHANGED <<startedIn, userVars, online, chances>>

PollReaps(t) ==
  /\ calls[t].at = "reap"
  /\ startedIn' = AppDir /\ Returns(t, FALSE)
  /\ UNCHANGED <<child, server, procs, userVars, chances>>

PollGivesUp(t) ==
  /\ calls[t].at = "poll" /\ ~IsReachable(calls[t].of) /\ ChildFree /\ ~ChildExited
  /\ Returns(t, FALSE)
  /\ UNCHANGED <<managerVars, procs, userVars, chances>>

-----------------------------------------------------------------------------
(* The desktop.                                                             *)

(* connect, by the user or the retry loop: one at a time for a backend.     *)
ConnectEnsures(t) ==
  /\ ~online /\ \A u \in Task : calls[u].of # kind
  /\ Begins(t, [Idle EXCEPT !.do = "ensure", !.of = kind, !.dir = workspace, !.at = "ask"])
  /\ UNCHANGED <<managerVars, procs, userVars, online, chances>>

(* A command is over before the next one begins, also one that stops the    *)
(* server.                                                                  *)
CommandOver == \A u \in Task : calls[u].do \notin {"stop", "quit"}

(* A workspace is chosen, and applied to a server this app started; not     *)
(* while a reply is being written.                                          *)
ApplyWorkspace(t) == \E dir \in Dir, sending \in BOOLEAN :
  LET busy == \E u \in Task : calls[u] # Idle
  IN /\ CommandOver /\ ChildFree
     /\ May("workspace") /\ workspace' = dir
     /\ sending => online
     /\ IF IsManaging /\ startedIn # dir /\ ~sending
          THEN Begins(t, [Idle EXCEPT !.do = "restart", !.of = kind, !.dir = dir, !.at = "stop",
                                      !.alone = ~busy /\ Living(kind) \subseteq {child}])
          ELSE UNCHANGED calls
     /\ UNCHANGED <<managerVars, procs, kind, online>>

SwitchBackend == \E k \in Server \ {kind} :
  /\ CommandOver /\ May("switch") /\ kind' = k /\ online' = FALSE
  /\ UNCHANGED <<managerVars, procs, calls, workspace>>

Stops(t, what) ==
  /\ calls[t] = Idle
  /\ calls' = [calls EXCEPT ![t] = [Idle EXCEPT !.do = what, !.at = "take"]]
  /\ UNCHANGED <<managerVars, procs, online>>

StopManagedServer(t) == CommandOver /\ May("stop") /\ Stops(t, "stop") /\ UNCHANGED userVars

(* The app ends and is started again.  If it is asked to end, it stops the  *)
(* server that is its own, going by the kind; a crash stops nothing.        *)
Quit(t) ==
  /\ CommandOver /\ May("quit")
  /\ IF server = "mimo" THEN Stops(t, "quit") ELSE AppEnds
  /\ UNCHANGED userVars

Crash == May("quit") /\ AppEnds /\ UNCHANGED userVars

TaskSteps(t) ==
  \/ StopTakes(t) \/ StopKills(t) \/ StopDrops(t) \/ StopForgets(t)
  \/ RestartLooks(t) \/ RestartWaits(t) \/ Reached(t) \/ NotReached(t)
  \/ StartChecks(t) \/ StartSpawns(t) \/ StartNames(t) \/ StartPlaces(t)
  \/ PollSeesExit(t) \/ PollReaps(t) \/ PollGivesUp(t)

ProcessSteps(p) == Serves(p) \/ Ends(p)

ServerNext ==
  \/ \E t \in Task : \/ TaskSteps(t) \/ SpawnFails(t) \/ ConnectEnsures(t) \/ ApplyWorkspace(t)
                     \/ StopManagedServer(t) \/ Quit(t)
  \/ \E p \in Process : ProcessSteps(p) \/ Dies(p)
  \/ SwitchBackend \/ Crash

(* Tasks run, processes start and end, and schedule_retry connects again.   *)
ServerFairness ==
  /\ \A t \in Task : WF_serverVars(TaskSteps(t))
  /\ \A p \in Process : WF_serverVars(ProcessSteps(p))
  /\ WF_serverVars(\E t \in Task : ConnectEnsures(t))

-----------------------------------------------------------------------------
(* What ensure_running and the retries are to bring about.  start refuses   *)
(* while it manages the other backend's server: the README says for how long. *)
ServerIsUp == online \/ (child # 0 /\ procs[child].of # kind)

(* A restart nothing else ran beside, of a server that was this app's only  *)
(* one, ends on a server in the directory it was asked for (restart_in: "is *)
(* how a restart ends up changing nothing").                                *)
RestartMoves ==
  [][\A t \in Task :
       (Reached(t) /\ calls[t].do = "restart" /\ calls[t].ours /\ calls[t].alone) =>
         \A p \in Serving(calls[t].of) \cup Dying(calls[t].of) : procs[p].dir = StartsIn(calls[t])]_serverVars
=============================================================================
