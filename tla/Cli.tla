-------------------------------- MODULE Cli --------------------------------
(***************************************************************************)
(* The adapter of the local command line agents (agent/cli.rs) and the     *)
(* subprocess it talks to (jsonl_process.rs).  Claude Code and Pi run one  *)
(* process per session on screen: opening another stops it and starts the  *)
(* next, while a reader task that outlives them all handles what they      *)
(* wrote, and a task per process reports its exit.                         *)
(*                                                                         *)
(* Abstractions.  The 600 ms a stopped process is given may end at any     *)
(* time.  Codex gets no further than its connect: that part.               *)
(***************************************************************************)
EXTENDS AgentCalls

VARIABLES
  agent,    \* LocalCliBackend::kind: codex, claude or pi
  events,   \* the channel in CliCore::events, 0 for none
  reader,   \* the channel whose connect made reader_task and output_tx, 0 for none
  live,     \* InteractionState::live_session_id
  process,  \* every subprocess started so far
  inner,    \* TransportInner: the process the transport holds, 0 for none
  stops,    \* how many spawned disconnect() stops are still to run
  output,   \* what the processes wrote for this reader
  inHand,   \* the output a reader is handling
  argument, \* the session the arguments of the next process name
  misnamed, \* the id of the session being created had been overwritten when it was read back
  opened,   \* the session the last create or resume returned
  heard     \* whose lines were shown since the frontend last moved

cliVars == <<agent, events, reader, live, process, inner, stops, output, inHand,
            argument, misnamed, opened, heard>>

Nothing == [from |-> 0, what |-> "none"]

CliTypeOK ==
  /\ events \in Nat /\ reader \in Nat
  /\ {live, argument, opened} \subseteq Session \cup {None}
  /\ process \in Seq([session : Session, reader : Nat, alive : BOOLEAN, signalled : BOOLEAN])
  /\ inner \in 0 .. Len(process) /\ stops \in Nat
  /\ output \in Seq([from : Nat, what : {"line", "system", "question", "exit"}])
  /\ inHand = Nothing \/ inHand.from \in DOMAIN process
  /\ misnamed \in BOOLEAN /\ heard \subseteq Session

CliInit ==
  /\ events = 0 /\ reader = 0
  /\ live = None /\ process = <<>> /\ inner = 0 /\ stops = 0
  /\ output = <<>> /\ inHand = Nothing /\ argument = None /\ misnamed = FALSE
  /\ opened = None /\ heard = {}

-----------------------------------------------------------------------------
(* The transport. *)

Running == inner # 0 /\ process[inner].alive

(* stop(): the process is let go, and told to end. *)
LetGo ==
  /\ inner' = 0
  /\ process' = [p \in DOMAIN process |->
                   IF p = inner THEN [process[p] EXCEPT !.signalled = TRUE] ELSE process[p]]

(* disconnect(): the stop is left to a task of its own. *)
CliDisconnects ==
  /\ events' = 0 /\ reader' = 0 /\ live' = None /\ output' = <<>> /\ heard' = {}
  /\ stops' = stops + 1
  /\ UNCHANGED <<agent, process, inner, inHand, argument, misnamed, opened>>

StopRuns ==
  /\ stops > 0
  /\ stops' = stops - 1
  /\ LetGo
  /\ UNCHANGED <<agent, events, reader, live, output, inHand, argument, misnamed,
                 opened, heard, callVars>>

ProcessExits(p) ==
  /\ process[p].alive
  /\ IF process[p].signalled THEN UNCHANGED bound ELSE Spend("fault")
  /\ process' = [process EXCEPT ![p].alive = FALSE]
  /\ output' = IF process[p].reader = reader
               THEN Append(output, [from |-> p, what |-> "exit"]) ELSE output
  /\ UNCHANGED <<agent, events, reader, live, inner, stops, inHand, argument, misnamed,
                 opened, heard, call, contact, view, prompts>>

(* What is in the pipe of a process that ended is still read. *)
ProcessWrites(p) ==
  /\ process[p].reader = reader /\ reader # 0 /\ Spend("frame")
  /\ \E what \in {"line"} \cup (IF agent = "pi" THEN {"question"} ELSE {"system"}) :
       output' = Append(output, [from |-> p, what |-> what])
  /\ UNCHANGED <<agent, events, reader, live, process, inner, stops, inHand, argument,
                 misnamed, opened, heard, call, contact, view, prompts>>

-----------------------------------------------------------------------------
(* The calls. *)

CliConnect == BeginConnect("probing") /\ CliDisconnects

CliDisconnect == CallDisconnect /\ CliDisconnects

(* The executable is found, or not.  Codex starts its app-server before     *)
(* there is a reader to hear it, and that start is refused.                 *)
CliProbed ==
  /\ At("probing")
  /\ call' = NoCall
  /\ \/ Spend("fault") /\ UNCHANGED <<events, reader, contact>>
     \/ agent = "codex" /\ events' = channel /\ UNCHANGED <<reader, contact, bound>>
     \/ agent # "codex" /\ events' = channel /\ reader' = channel /\ Greets(channel) /\ UNCHANGED bound
  /\ UNCHANGED <<agent, live, process, inner, stops, output, inHand, argument, misnamed,
                 opened, heard, view, prompts>>

(* clear_session_scope does nothing. *)
CliClearSessionScope ==
  /\ Idle /\ Spend("call")
  /\ drawn' = {} /\ heard' = {} /\ opened' = None
  /\ UNCHANGED <<agent, events, reader, live, process, inner, stops, output, inHand,
                 argument, misnamed, call, contact, scope, prompts>>

(* A call that opens a session; the id of a new one is made up here and     *)
(* becomes the live one.  Codex, not connected, is refused.                 *)
Opens(op, s) ==
  /\ Begin(op, s, IF agent = "codex" THEN "failing" ELSE "naming")
  /\ live' = IF op = "create" /\ agent # "codex" THEN s ELSE live
  /\ UNCHANGED <<agent, events, reader, process, inner, stops, output, inHand, argument,
                 misnamed, opened, heard>>

(* submit_prompt looks at no session, interrupt and an answer neither.      *)
CliCallBegins ==
  \/ \E s \in Session : Opens("create", s) \/ Opens("resume", s)
  \/ /\ UNCHANGED cliVars
     /\ \/ \E op \in {"interrupt", "respond"} : Begin(op, None, "sending")
        \/ \E s \in Session : BeginSubmit(s, "sending")

(* --resume or --session-id: the session the next process is started with.  *)
StartsWithLive(op, s) == live

StartsWithOld(op, s) == IF op = "resume" /\ live # None THEN live ELSE s

StartsWith(op, s) == IF op = "resume" THEN s ELSE live

(* start_interactive_process reads the live id back, in a lock region of    *)
(* its own: Claude's reader may have written another there.  The process on *)
(* screen is told to end; without a reader it is not touched.               *)
Names ==
  /\ At("naming")
  /\ Goto(IF reader = 0 THEN "failing" ELSE "stopping")
  /\ argument' = StartsWith(call.op, call.session)
  /\ IF reader = 0 THEN UNCHANGED <<process, inner, misnamed>>
     ELSE LetGo /\ misnamed' = (call.op = "create" /\ live # call.session)
  /\ UNCHANGED <<agent, events, reader, live, stops, output, inHand, opened, heard>>

(* The old process has ended or has had its time. *)
OldProcessIsOver ==
  /\ At("stopping")
  /\ Goto("spawning")
  /\ UNCHANGED cliVars

Spawns ==
  /\ At("spawning")
  /\ process' = Append(process, [session |-> argument, reader |-> reader,
                                 alive |-> TRUE, signalled |-> FALSE])
  /\ inner' = Len(process')
  /\ live' = (IF call.op = "resume" THEN call.session ELSE live)
  /\ opened' = call.session /\ heard' = {}
  /\ ReturnSession
  /\ UNCHANGED <<agent, events, reader, stops, output, inHand, argument, misnamed>>

SpawnFails ==
  /\ \/ At("spawning") /\ Spend("fault")
     \/ At("failing") /\ UNCHANGED bound
  /\ call' = NoCall
  /\ UNCHANGED <<cliVars, contact, view, prompts>>

(* A line for the agent's stdin.  Claude's interrupt is a signal, and the   *)
(* turn is called complete whatever comes of it.                            *)
Sends ==
  /\ At("sending")
  /\ call' = NoCall
  /\ Takes(IF Running THEN call.prompt ELSE 0)
  /\ IF call.op = "interrupt" /\ agent = "claude" THEN Draws(events, None) ELSE UNCHANGED view
  /\ UNCHANGED <<cliVars, contact, bound>>

-----------------------------------------------------------------------------
(* The reader task. *)

ReaderTakes ==
  /\ inHand = Nothing /\ output # <<>>
  /\ inHand' = Head(output) /\ output' = Tail(output)
  /\ UNCHANGED <<agent, events, reader, live, process, inner, stops, argument, misnamed,
                 opened, heard, callVars>>

(* handle_line: no line says whose it is, but a question of Pi, which is    *)
(* given the session on screen.                                             *)
HandlesLine ==
  /\ inHand.what \in {"line", "system", "question"}
  /\ heard' = IF Newest(events) THEN heard \cup {process[inHand.from].session} ELSE heard
  /\ live' = IF inHand.what = "system" THEN process[inHand.from].session ELSE live
  /\ IF inHand.what = "system" THEN UNCHANGED view
     ELSE Draws(events, IF inHand.what = "question" THEN live ELSE None)
  /\ UNCHANGED <<contact>>

(* An exit is told, unless a process is running again. *)
TellsNewest == inHand.from = inner

TellsExit == ~Running

HandlesExit ==
  /\ inHand.what = "exit"
  /\ IF TellsExit THEN Loses(events) ELSE UNCHANGED contact
  /\ UNCHANGED <<live, heard, view>>

ReaderHandles ==
  /\ HandlesLine \/ HandlesExit
  /\ inHand' = Nothing
  /\ UNCHANGED <<agent, events, reader, process, inner, stops, output, argument,
                 misnamed, opened, call, prompts, bound>>

(* An aborted reader may not get to what it had in hand. *)
ReaderEnds ==
  /\ inHand # Nothing /\ process[inHand.from].reader # reader
  /\ inHand' = Nothing
  /\ UNCHANGED <<agent, events, reader, live, process, inner, stops, output, argument,
                 misnamed, opened, heard, callVars>>

-----------------------------------------------------------------------------
CliCallStep == CliProbed \/ Names \/ OldProcessIsOver \/ Spawns \/ Sends

CliNext ==
  \/ CliConnect \/ CliDisconnect \/ CliClearSessionScope \/ CliCallBegins
  \/ CliCallStep \/ SpawnFails
  \/ StopRuns \/ ReaderTakes \/ ReaderHandles \/ ReaderEnds
  \/ \E p \in DOMAIN process : ProcessExits(p) \/ ProcessWrites(p)

-----------------------------------------------------------------------------
(* A frontend that is told it is connected is not left with a dead agent:  *)
(* when the newest process has ended, its exit is still to be handled or   *)
(* was told, though stopping one process for another is not told           *)
(* (ensure_reader, JsonlProcessTransport::stop).                           *)
DeadProcessIsTold ==
  LET last == Len(process)
      unread == {inHand} \cup {output[i] : i \in DOMAIN output} IN
  process # <<>> /\ reader # 0 /\ process[last].reader = reader
    /\ ~process[last].alive /\ line = "up"
    => [from |-> last, what |-> "exit"] \in unread

(* submit_prompt does not look at its session.  A prompt for the session    *)
(* opened last is written to that session's process all the same, whatever  *)
(* was started, stopped or failed before; unless the id that process was to *)
(* be started with had been overwritten.  A property of steps.              *)
PromptReachesItsSession ==
  posted' # posted /\ call.session = opened /\ ~misnamed => process[inner].session = opened

(* What is shown in a session was written by a process of that session.     *)
OneSessionPerStream == opened \in scope => heard \subseteq {opened}

(* A connect that finds the executable succeeds; a property of steps.       *)
ConnectSucceeds == At("probing") /\ ~At("probing")' /\ bound' = bound => line' = "up"
=============================================================================
