# Van-Goal: a verification project

TLA+ models of the Van-Goal core, the TLC configurations that check them and the theorems
TLAPS proves about them.  Paths are relative to the repository (`src/` is its root here);
`send.rs` alone means `crates/desktop/src/send.rs`, `chat.rs`, `cli.rs` and the like mean the
files of `crates/core/src`, and `client.rs` in anything about the phone is
`crates/mobile/src/client.rs`.

1. [The system](#1-the-system)
2. [The modules](#2-the-modules)
3. [What is checked](#3-what-is-checked)
4. [Promises not kept](#4-promises-not-kept)
5. [What is proved](#5-what-is-proved)
6. [What is not modelled](#6-what-is-not-modelled)
7. [Plan](#7-plan)

## 1. The system

Van-Goal is a chat client for local AI agents.  A Rust core talks to one *backend* at a time
(OpenClaw, Hermes, OpenCode, Xuexiaomi, Claude Code, Codex, MiMoCode, Pi); a Go window
(desktop) or a Flutter app (phone) draws what the core says.

| component | state | operations | talks to |
| --- | --- | --- | --- |
| **Desktop client state** `state.rs`, `client.rs` | one `State` behind one mutex: session on screen (`selected`, `stored_id`, `live_id`, `view_generation`), connection (`connection`, `transport_ready`, `gateway_connecting`, `reconnecting`, `retry_attempt`, `connect_generation`, `connection_epoch`), turn (`is_sending`, `stopping`, `turn_seq`, `clarify`, `queue`), the backend's `Arc<AsyncMutex<Backend>>` | run a command on the window thread, spawn tasks on a tokio runtime, poll | everything below |
| **Connection loop** `connect.rs` | generations and epochs | connect, ensure_stream, schedule_retry, disconnect, switch_backend, enable/disable, apply_workspace | adapters, local server manager, `sessions::open` |
| **Session on screen** `sessions.rs` | the view, the adapter's scope, the list | open, new_chat, clear_scope_if_blank, refresh, archive, remove | adapters, cache |
| **Prompts** `send.rs` | turn and queue | submit, send, deliver, take_back, stop, answer, dismiss_clarify, queue commands | adapters, connection loop |
| **Events** `events.rs` | one channel and one pump task per connection epoch | handle | everything above |
| **Session filter** `agent/session_scope.rs` | the ids an adapter lets through | belongs_to_open_session | adapters |
| **Conversation** `chat.rs` | the messages of one chat, the streams of the reply being told | apply (fold an event), begin and finish a turn, merge_transcript | events, sessions, the phone's bridge |
| **Cache** `cache.rs` (core and desktop) | a JSON file, a debounce timer | schedule, save on a thread, clear | sessions, the phone's bridge |
| **Adapters** `agent/*.rs`, `jsonl_process.rs` | a socket, an event stream or a process; pending requests; the session they are on | connect, disconnect, submit, resume, create, respond, interrupt, list | gateways and CLIs |
| **Local server manager** `local_server.rs` | a managed process | start, ensure_running, restart_in, stop | connection loop |
| **Settings** `settings.rs`, `secret_store.rs` | the active backend, a connection, token and switch per backend, a file | load, save, switch, enable, migrate | commands, connection loop |
| **Phone's bridge** `crates/mobile` | its own view (`OpenSession`), parked transcripts, one pump per generation, atomics `wanted`, `live`, `generation`, a queue of events for the app | connect, disconnect, open, new, send, interrupt, refresh, push | adapters, Flutter |
| **Flutter app** `app/lib/state.dart` | what it was told: the transcript it draws, whether a turn runs | command, poll, draw | the bridge |
| **Desktop window** | widgets | wait, draw | the core's C ABI |

Hard behaviours.  A command or a task is a chain of *regions*: it takes the state's mutex,
reads and writes, lets go, awaits something (a backend's mutex, a request, a timer, 45 seconds
of connecting) and takes it again.  Between two regions anything may run: another task, the
event pump of the current or of a replaced stream, the user.  The desktop defends itself with
three counters (`view_generation`, `connect_generation`, `connection_epoch`) that are read
before and compared after, with the strict session filter, and with the backend's own mutex,
which is held across awaits; the phone has two generations for the same.  Streams drop, refuse
and close late; requests fail before or after they took effect; tasks that were aborted take
another step; a process outlives the adapter that started it; the app ends in the middle of a
save; a reply is told twice, in two ways.

What makes it correct: a prompt reaches the conversation it was sent from or comes back to the
composer; no text is lost or duplicated; only the open session's traffic is drawn; a replaced
stream has no say; the client comes back on its own; a stopped turn ends; a reply reads as the
agent wrote it; a setting is there again when it is needed.  `PROJECT.json` lists each place
where one of these could go wrong (`hazards`) and the properties that watch it.

## 2. The modules

| module | models |
| --- | --- |
| `DesktopState` | `state.rs`, desktop `client.rs`: all variables, the types of tasks and adapters, `Init`, the rules of `state.rs` |
| `DesktopConnect` | `connect.rs`: the connect task (`Connect...`), `ensure_stream` (`Ensure...`), retry timers, closing an adapter, `SwitchBackend`, `DisableBackend`, `ApplyWorkspace` |
| `DesktopSessions` | `sessions.rs`: the open task (`Open...`), `ClearScope`, `OpenSession`, `NewChat`, `ListFails` |
| `DesktopSend` | `send.rs`: a delivery (`Deliver...`), `Submit` and what the window thread does after it, stop, answers, the queue |
| `DesktopEvents` | `events.rs`, `session_scope.rs`: what an adapter's stream reports (`Stream...`), the pump (`Handle...`, `Pump...`) |
| `DesktopClient` | the desktop put together: `Next`, `Spec`, `FairSpec`, `TypeOK` and its properties |
| `DesktopRouting` | the invariant behind `PromptReachesItsView` and `QueueFollowsView` |
| `AgentStream` | **abstract**: what a frontend relies on whichever adapter it holds |
| `AgentCalls` | the caller's side of `agent/mod.rs`: one call at a time, and what it sees of the adapter |
| `AgentGateway` | what `openclaw.rs` and `hermes.rs` share: a socket task, a command queue, pending requests |
| `OpenClaw`, `Hermes` | `openclaw.rs` (handshake, legacy retries, filter), `hermes.rs` (subscribed ids, `session.info`) |
| `OpenCode` | `opencode.rs`: HTTP calls, the SSE task and its reconnect, the increments and whole parts of a reply and what the chat makes of them, permissions |
| `XueXiaoMi` | `xuexiaomi.rs`: a task per turn, snapshots and the copies they are continued in, the abort |
| `Cli` | `cli.rs`, `jsonl_process.rs`: a process per session, its reader, its exit report |
| `Backend` | `agent/mod.rs`: one adapter of the five; **implements `AgentStream`** (`KeepsContract`) |
| `MobileState`, `MobileTasks`, `MobileClient` | the phone's `client.rs`: `OpenSession` and parking; pumps, opens, catch-ups and sends; commands, agents, properties |
| `PhoneFeed` | the phone's `client.rs` and `app/lib/state.dart`: who pushes what about the transcript into the queue, its coalescing and its cap, and what the app makes of it |
| `StreamMerge` | `chat.rs`: `merge_stream_chunk`, for the two modules that have a stream |
| `Conversation` | `chat.rs`: streams, bubbles, turns and `merge_transcript`, against a backend that tells a reply in every way |
| `LocalServer` | `local_server.rs`, one step per lock of the manager's fields, with the desktop's calls of it, and the processes |
| `SessionCache` | `cache.rs`: writers, the sibling file and its rename, the app's end |
| `Settings` | `settings.rs` and the commands on it, saves that are cut off, launches |
| `MCDesktop`, `MCBackend`, `MCMobile`, `MCServices` | small instances |
| `DesktopTypeProofs`, `DesktopRoutingProofs`, `DesktopTextProofs`, `BackendProofs`, `AdapterProofs`, `MobileProofs`, `TranscriptProofs`, `ServiceProofs` | theorems (section 5) |

How state and actions correspond to the code:

- **A region is a step.**  Everything between taking and dropping a mutex is one action; the
  next region of the same function is another one, and the record of the task (`connects`,
  `opens`, `delivers`, `sends`, `pumps`, `calls`, ...) carries what the function kept in its
  locals: the view it captured, the adapter it cloned, the session it aimed at.  `pc`, `step` or
  `at` is its position.
- **The window thread**, and Dart's platform thread, run one command at a time, so a command of
  several regions parks in `window.pc` or `ui` until it is done and no other command starts.  Tasks
  and pumps interleave with it freely.
- **In the desktop's model an adapter** is a record in `backends`.  Its `guard` is the
  `AsyncMutex`: `free`, `held`, or the position inside `ensure_stream` of whoever holds it.  Which
  waiter gets a free lock is a free choice; tokio's is first come, first served, so every order the
  code has is in the model.  A switch of backend appends an adapter; tasks that cloned the old
  `Arc` keep its index.  A stream reports to the channel (epoch) it was opened for for as long as
  the adapter holds it; `pumps` holds one queue per channel.
- **In the adapters' models the caller** is `AgentCalls`: every operation takes `&mut self` behind
  one mutex, so one `call` is in progress, and the adapter's own tasks run beside it.  What the
  caller asked for and may see (`channel`, `line`, `scope`, `drawn`, `posted`) is what
  `AgentStream` speaks about; `Backend` instantiates it with the same names, so the refinement
  mapping is the identity on these six and hides everything else.
- **Sockets, event streams, processes and reader tasks are remembered after they are closed**,
  because the code only aborts or signals them: a late step is a step of the model.
- **Failures** are choices: a request fails for free when its stream is gone and at the cost of a
  `fail` or `fault` otherwise.  A submit may be accepted with its acknowledgement lost, on the desktop
  and on the phone: the agent has the prompt and it is given back to the composer too.
- **The agent of OpenCode** tells a report of its reply to whoever listens, as what it grew by since
  the last one or as the whole part; what nobody heard is not told again, only a whole part repeats it.
  `missed` notes that the chat took a piece whose beginning it does not have.
- **The queue of events** has three tellers in `PhoneFeed`: Dart's commands, the pump and the task of a
  delivery.  Each changes the conversation, then takes its snapshot, then pushes it: `telling` is what
  it has still to push, and a snapshot in it is taken when its turn comes.
- **The services** and the queue share no state, so `MCServices` runs one of them per
  behaviour, chosen among `Parts`.

Abstractions.  A session's live id, stored id and key are one value, so the translation between them is
not checked.  In the desktop's model the transcript is `sending` and the set of sessions whose frames
were folded into it (`origins`), in the phone's the set of prompts in it; what a transcript is made of
is `Conversation`'s subject.  Texts are numbered; in `Conversation` a text is a sequence of parts, each
longer than the four characters `overlap_with_suffix` asks for.  A reply of OpenCode is the numbers 1,
2, ... in order, a text in the queue of events its length.  A snapshot of the cache is its number.
Host, port and TLS are one address.  Two retry timers with the same generation and attempt are one.  The
phone's parked transcripts are evicted by the smallest key, and since ids are opaque any key may be that
one. `typed`, `settled`, `delivered`, `created` and `opened` (desktop), `taken` and `restored` (phone),
`pushed` and `missed` (queue of events), `answered`, `mixed` and `late` (conversation), `last` and
`kept` (settings), `asked`, `answers` and `missed` (OpenCode), `opened`, `heard` and `misnamed` (CLI)
are history, read by properties.

## 3. What is checked

What a run bounds is how often the *outside* acts: a user's commands, a drop, a refused stream, a
failed request, a frame, a question, an announcement, a death.  What the program's own tasks do
is never bounded, so every interleaving of the tasks those events start is explored.  A run is a
set of scenarios, each a start and a budget per class of event, named in the MC module and chosen
in `Init`.

| run | bounds | shows |
| --- | --- | --- |
| `prompts` | `PromptsScenarios`: two texts, a queue command and an open from a blank chat; a text, an open and a drop; an open, a drop, a question and its dismissal; two sessions | `PromptReachesItsView`, `NothingTypedIsLost`, `NoTextTwice`, `QueueFollowsView`, `AttachedIsHeard`, `QuestionMeansStream`, `LockInv`, `TypeOK` |
| `switching` | `SwitchingScenarios`: connect, switch, new chat, frame, question with a conversation open at the start, or connect, switch, frame with none; a workspace and an open; a text and a question; two kinds, two sessions | `RepliesOfThisBackend`, `NoStrangers`, `OldAdaptersClosed`, `NotMarkedDown` |
| `endings` | `EndingsScenarios`: connect, drop, failure, refusal, announcement; a text, a stop, a failure and a disconnect, blank or opened at start | `ComesBack`, `StopEnds`, `DeliveriesEnd` (liveness) |
| `backends` | `MCBounds`: per adapter three or four calls, one or two prompts, one or two frames (of OpenCode four), one fault; a reply of three; two sessions, one of them a snapshot | `KeepsContract` (refinement), `AnswerGoesToAsker`, `ReplyShownOnce`, `OneCopyPerSession`, `StopReachesTheTurn`, `DeadProcessIsTold`, `PromptReachesItsSession`, `TypeOK` |
| `mobile` | `MCScenarios`: opens, a text, a new chat and a failure; two texts with an open and an interrupt, a refresh or a failure, or with a new chat; drops, failures and a disconnect while connecting, with and without a saved session; a turn whose stream drops; four sessions, two of them listed, room for one parked transcript | `TranscriptsAreTheirOwn`, `RestoredIsGone`, `PromptStaysInItsConversation`, `TranscriptSurvives`, `PhoneComesBack`, `SpinnerStops` (the last two liveness), `TypeOK` |
| `services` | two turns of two parts over two streams with one call and one file; three processes, two calls at a time and `MCPlans` (a stop with a death or a workspace; a death, a workspace and a refused start or a quit; two workspaces; a workspace and a quit; two switches and a death); three saves and one end of the app; four commands and launches on two backends; two prompts, three deltas, a call, a new chat and a failed delivery over a queue of four | `ReplyReadsInOrder`, `ReplyKeptTogether`, `AppDrawsTheCore`, `KeptByMerge`, `ServerComesUp` (liveness), `RestartMoves`, `ArchiveIsCurrent`, `SettingsComeBack`, `OnlyActiveIsOn`, `TypeOK` |

Why these bounds.  A hazard of this code is two or three regions of different tasks in an order
nobody wrote a test for: one event starts each task, and one more disturbs it.  Each scenario
allows one event of every class its question is about (two texts where the queue is), which is
enough for every pair of task and disturbance, and for the tasks that the disturbance itself starts
(a drop starts a retry, a retry a connect, a connect an open).  Two sessions tell "the right one"
from "another one"; a fresh one is needed per blank chat that is sent from.  Two parts of a
reply and two streams are the least in which an increment, a snapshot, a replay and an overlap
differ, and two turns the least in which one turn's bubbles can be mistaken for the next one's;
three processes are a server, the one that replaces it and one a second call starts; four frames of
OpenCode are the id of a reply, two reports of it and one more on the stream that replaces the first; four
commands are a connection that is set, left, chosen again and found after a launch.  The queue of
events holds 512 in the code; four are the least that holds what is said at once (a failed delivery's
three events and a delta that was on its way), and the run fills it.  No symmetry
is used: sessions and backends play different roles.

Deadlock.  The desktop's runs check it: `Idle` is enabled only in quiescent states, so a task
that waits for ever for a lock is reported.  The other runs end where their budgets do, so they
say `CHECK_DEADLOCK FALSE`; that nothing is waited for for ever is what their liveness properties
are for.

A run leaves out the classes under which its property is known to fail (section 4): they are
different questions and have runs or entries of their own.

Fairness.

- Desktop (`FairSpec`): weak fairness of each kind of task, since tokio polls every ready task, the
  window thread finishes the command it is in and a timer elapses; and of `StreamConnects`, since a
  socket being opened is answered (by Connected or, if the budget allows it, by a failure).
  `ComesBack` has a premise, `TimersOutlastRegions`: a retry sleeps for a second or more
  (connect.rs:244), so it does not elapse between the return of an adapter's `connect` and the
  region that records it, a few instructions later; without the premise a healthy stream can be
  torn down at that very moment each time.
- Phone (`FairSpec`): weak fairness of the pumps, opens, catch-ups, sends and late tasks of the same
  runtime, and of the second half of Dart's `connect`, which its thread finishes.  A turn need not
  end and a stream need not drop.
- Local server (`Fairness` of `MCServices`): every call in progress proceeds and every process that
  was started or killed gets to serve or to exit; and a client that is not online connects again,
  which is the retry loop of connect.rs.

The user, failures, frames, drops and deaths are under no obligation.  The adapters' and the other
services' runs have safety properties only and state no fairness.

Where the code does not do what it says, a run shows it and `PROJECT.json` has a finding:

| run | property | what happens |
| --- | --- | --- |
| `queued_elsewhere` | `PromptGoesWhereTyped` | `after_turn` takes a prompt out of the queue; the user opens another session; `send` sends it there (connect.rs:361 says this does not happen) |
| `stuck_connecting` | `ComesBack` | a resume's result sets `transport_ready` while a retry starts; no stream is opened and the client says Connecting for ever |
| `codex_never_connects` | `ConnectSucceeds` | the Codex process is started before the reader it needs; every connect fails (cli.rs:159, README.md:89) |
| `mobile_other_session` | `PromptStaysInItsConversation` | after a reconnect the pump gives the conversation on screen the live id of the one that was (client.rs:752); the next prompt goes there |
| `mobile_closed` | `ClosedStaysClosed` | a connect that answers after `disconnect` leaves the phone connected with nobody reading (client.rs:743) |
| `reply_twice` | `NoPartShownTwice` | a reply with a call after text stands on screen twice when it is completed (chat.rs:405) |

## 4. Promises not kept

Found while the models were written, on the instance named, or read off the code beside a model.
They have no run of their own: the properties of section 3 are stated, or their scenarios chosen,
so that they say what the code does keep.  The properties named here are defined in the module but
in no run.

Desktop:

| property | instance | the code and what is said of it |
| --- | --- | --- |
| `OnScreenPromptNotStale` | text, connect | a finished connect reopens the session on screen with `open`, which advances the view, so a prompt waiting for that connection comes back with "the conversation changed" (connect.rs:147; state.rs:64-66) |
| `OnlyOwnFrames` | connect, new, frame | `new_chat` blanks the view first and clears the adapter's scope later: a frame of the session just left lands in the blank chat (sessions.rs:242; sessions.rs:245-247) |
| `PromptReachesItsView` | text, connect, open, info with `AnnouncesSessions` | a late `session.info` makes the session just left live again, and the next prompt goes to it (events.rs:74; docs/sessions.md:92) |
| `OneTurnAtATime` | text 2, frame | `submit` and `after_turn` both see no turn and both start one (send.rs:66; send.rs:35) |
| `LiveMeansStream` | connect, drop | a resume answered before a drop is applied after it (sessions.rs:211; events.rs:112) |
| `OldAdaptersClosed` | text, switch | a delivery that cloned the old adapter opens a stream on it after the switch closed it (send.rs:114) |
| `OnlyOwnQuestions` | connect, new, question with `FansOutQuestions` | with no live session a question of any session is shown (events.rs:89; events.rs:88) |
| `ViewOfThisBackend` | connect, switch, two kinds | a connect read the session to reopen before the switch and opens it after (connect.rs:147; state.rs:96-97) |
| `RepliesOfThisBackend` | text, switch, question with `FansOutQuestions` | that delivery's stream on the old adapter may be the newest channel: a question of the other backend is shown (send.rs:114; state.rs:91-95) |
| `NotMarkedDown` | text, switch, fail | that delivery reads the epoch after the new backend's stream opened its channel, and its own failed connect marks the new connection down (connect.rs:183) |
| `QuestionMeansStream` | connect, workspace, question | a restart of the managed server leaves the question on screen with no stream until the connect in the next region (connect.rs:423-440) |
| `StopEnds` | text 2, stop, question | an answer starts a turn and leaves `stopping` set: that turn can neither be stopped nor ends (send.rs:365; send.rs:331-332) |
| `AttachedIsHeard` | text, drop, fail | a prompt resumed before a drop attaches after it |
| `NothingTypedIsLost` | text, question | the question goes away between `submit` and `answer`, and the text is neither sent nor put back (send.rs:356; send.rs:10-12) |
| `NothingTypedIsLost` | text, question, fail | the request that carries an answer fails: only the turn on screen is ended, nobody has the text (send.rs:377-382) |
| `ReadyMeansStream` | connect, disconnect | `ensure_stream` reads the epoch after opening its channel; a disconnect in between leaves the transport "ready" with no stream (connect.rs:183) |
| `OffMeansOff` | text, disconnect | a waiting prompt connects a backend that was switched off meanwhile (send.rs:216; send.rs:206-207) |
| `ComesBack` | connect, workspace | a restart of the server between `ensure_stream`'s channel and the epoch it reads; or a second Connect pressed as the first finishes: connecting for ever |

Adapters: `OneSessionPerStream` (in `Cli`): the new session's live id is set before the old process'
last lines are read, so they are drawn in the new one (cli.rs:182).  The handshake task of OpenClaw
is not aborted with its gateway.  The task of an aborted Xuexiaomi turn removes a newer turn's
handle.  OpenCode forgets who asked a permission before the answer is accepted, so a second try goes to
the session on screen (opencode.rs:274).  A turn whose stream was lost has ended for the chat, and the
new stream, whose `text_by_part_id` is empty, tells the whole part in a bubble of its own: the reply is
then on screen twice, once as far as it had come (opencode.rs:572; `ReplyShownOnce` is about one bubble).
And in one bubble, after an increment that nobody heard: the next one is taken, and then the whole part
neither begins with what the bubble has nor ends with it, so `merge_stream_chunk` appends all of it,
where "A chunk that already covers (or is covered by) the buffer is merged instead of concatenated"
(chat.rs:45-46).  `NothingDrawnTwice` in `OpenCode` is false in `backends` for that reason.

Local agents: `create_session` sets the new session's id under one lock and `start_interactive_process`
reads it back under another (cli.rs:233, 496).  A system line of the process before, handled in
between, puts the old id there (cli.rs:799), and the new process is started under it: what is typed in
the new session goes to an agent that says it is the old one.  `PromptReachesItsSession` has the
exception `misnamed` for it, and TLC finds the property false without.

Phone:

- two prompts typed into one blank chat (send, interrupt, send, before the first has its session) make a
  session each, because `send` reads the ids when a prompt is typed (client.rs:954): the first prompt is
  drawn, and cached, in the second's session.  `TranscriptsAreTheirOwn` fails with a scenario of one
  `text`, one `again` and one `interrupt`; `again` is such a second prompt, of which the runs have none.
  It contradicts "Only a chat with no session on screen at all needs one created" (client.rs:234), and
  was found when `OwnTranscripts` could not be proved without `AttachesOver` (section 5);
- a prompt whose submit was accepted and only the acknowledgement lost is given back to the composer
  (client.rs:1018-1021) and is in its transcript again with the next history: `RestoredIsGone` is of
  the prompts no agent has;
- choosing another backend while connected does not connect to it: `connect` sees `live`
  (client.rs:670);
- `catch_up_history` and `open_on` merge a history asked for before a prompt was typed, which drops
  it from the screen; if its send then fails, `restore_prompt` does not find it and says nothing
  (client.rs:322, 383);
- a conversation that was parked in a turn stays in one when the turn ended while it was away, and a
  disconnect in a turn leaves it running;
- a pump that was overtaken returns without ending the turn it was told of;
- text that follows a call is a new message, but is told as text that streamed further (chat.rs:383-393;
  client.rs:1235-1238, state.dart:617-619): the app has no such message and draws nothing until the next
  call or the end of the turn (`TextAfterCallIsDrawn` in `PhoneFeed`: send, call, delta);
- a snapshot is taken under one lock and queued under another (client.rs:1239-1253): one taken before New
  Chat may be queued after New Chat's own, and the old transcript stays on the blank screen
  (`NewestSnapshotStays` in `PhoneFeed`: send, call, new); `AppDrawsTheCore` leaves that order out;
- after 512 events nobody polled, what falls out of the queue may be a prompt given back; any "error"
  makes the app think the turn is over (state.dart:555);
- the saved session may be opened over a New Chat pressed meanwhile, two opens in quick succession
  may run in the other order, and a prompt's `remember_session` may follow New Chat's forget;
- parked transcripts are evicted by the smallest key where the code calls it the oldest
  (client.rs:184).

Services:

- a backend that tells a text after the end of its turn opens a bubble that nobody ends and that takes
  the next turn's text; `merge_transcript` loses calls of a turn whose calls came between texts
  (both outside `Orderly` and `mixed`);
- `start` refuses while it manages the other backend's server: a switch between local servers needs the
  first one stopped by hand (README.md:95 says nothing need run first; local_server.rs:147 calls it
  deliberate), which is the exception in `ServerIsUp`;
- `stop` takes `server`, `child` and `started_in` under a lock each, and `start` stores them so
  (local_server.rs:384-396, 245-247).  A stop between the stores leaves `server` and `started_in` on record with
  no child; a child stored after the stop killed the one before is let go of without being killed;
- two starts at once both find nothing managed, and the handle of the first process is dropped: an
  orphan; a restart beside another call may end in the old directory; Hermes, whose `started_in` is
  None, is restarted for a workspace it does not use; a server left by a crash is a stranger;
- the desktop's writer threads share one temporary file, so the cache may be a mix of two snapshots
  or the older one, and the save at shutdown may not be written: `ArchiveIsCurrent` speaks of the phone;
- a token discovered from Hermes replaces one typed meanwhile (connect.rs:114-118), and a `set` whose
  port is refused has taken the host (commands.rs:295).

## 5. What is proved

For every set of sessions, kinds, backends, addresses and tokens and every budget, not only the
instances above:

- **`TypeCorrect`**: `Spec => []TypeOK` (`DesktopTypeProofs`).  One lemma per action, one step per
  part of the type invariant it changes; the lemmas before them say what the shared operators
  (`Open`, `Send`, `AfterTurn`, `Emit`, `Held`, ...) do to their types.  The one part that is not
  about types alone: a delivery at resume, attach or submit has a session.
- **`AdaptersAreExclusive`**: `Spec => []LockInv` (`DesktopRoutingProofs`).  The lock is a field that
  tasks pass through `ensure_stream`, and an index into `backends` that survives a switch; that
  only one open or delivery is past `ensure_stream` on an adapter is not written anywhere.  The proof
  has a lemma for each way a step treats locks (keeps, takes, goes on, releases) and one per task.
- **`PromptRouting`**: `~AnnouncesSessions` implies `Spec => []PromptReachesItsView`, and
  **`QueueIsOfThisView`**: `Spec => []QueueFollowsView`, of any gateway (`DesktopRoutingProofs`).
  Neither property is inductive.  `RoutingInv` is, given `TypeOK` (what it says of `live` in 2, of a
  delivery at submit in 4, and 3 itself, it says of gateways that announce no sessions):
  1. `LockInv`;
  2. `OneSession`: `selected` and `stored` agree and `live` is one of them or none;
  3. `NothingAnnounced`: no channel holds a session.info (one would break 2, see section 4);
  4. `AimInv`: a delivery whose view is still on screen uses the current adapter, and the session
     on screen is its own, or both are blank; a delivery at submit has its own session, whatever the
     view is by then.

  The argument turns on one step.  `DeliverAttaches` of a new session changes `stored` under the
  feet of every other delivery of the same view; one that is about to create a session of its own
  would then be aimed wrong.  There is none: it would hold the current adapter's lock, and by 1 it
  would be the same delivery.  Every other step either leaves the view's session alone or advances
  `view_generation`, after which the invariant asks nothing of older deliveries that have not
  reached submit.

  A queued prompt is of the session on screen because every step that changes `stored` empties the
  queue, except the attach of a delivery: by 4 that one gives a blank chat the session made for it,
  which is in `created`, and what is queued there has no session of its own yet.  An announcement
  moves `live` alone, on which this does not depend.
- **`StrangersStayOut`**: `~AnnouncesSessions` implies `Spec => []NoStrangers` (`DesktopRoutingProofs`).
  `KnownInv` says where an id of a session may come from: an adapter's filter is empty or names a
  session that was opened or created, so do the frames on their way, and so do the tasks whose answer
  will set a filter.  What was once known stays known (`StepGrows`).  An announcement names any session
  the gateway likes, hence the assumption.
- **`RepliesCorrect`**: `~AnnouncesSessions /\ ~FansOutQuestions` implies
  `Spec => []RepliesOfThisBackend`, and **`RepliesAreOurs`**: of replies alone the first half is enough
  (`DesktopRoutingProofs`).  A switch does not wait for the tasks of the conversation it leaves, and one of
  them can make the adapter that was left the one that is listened to (send.rs:114).  So "what is heard
  comes from the adapter in use" is false.  `OursInv` says what holds instead:
  1. `EpochsLead`: no stream reports to a channel that is yet to come, so a step that opens a channel
     makes every older one stale;
  2. `OldOnesMuted`: an adapter that is heard is the one in use, or its filter lets nothing through: it
     comes to be heard by dialling, which empties the filter;
  3. `ScopersOurs`: whoever is about to set a filter has the adapter in use or one that is not heard, and
     keeps its lock, so the adapter cannot dial meanwhile.  For a delivery that is `AimInv` at the region
     that aims it, and after a switch that its adapter's channel is stale by 1;
  4. `ChannelOurs`, `ScreenOurs`: what waits in the channel listened to, and what is drawn.

  `StepMovesAdapters` says what a step other than a switch may do to an adapter, `PumpsGo` to a channel
  and `ScreenGoes` to the screen.  A question that is fanned out passes no filter, and an announcement
  widens one: hence the assumptions, and section 4 has the counterexample for the first.
- **`TextsAreNotDoubled`**: `Spec => []NoTextTwice`; **`OnlyAnswersAreLost`**: `Spec => [][AnswerIsLate
  \/ AnswerFails \/ TextsKept]_vars`; **`NothingIsLost`**: if no scenario has a question, `Spec =>
  []NothingTypedIsLost` (`DesktopTextProofs`).  The numbers of texts are in seven places (queue, window,
  pumps, stops, deliveries, answers, and at rest).  `TextInv`: a place holds a number once, no two
  places share one, every number was given out, and whoever has nothing to send has no text. Every
  action is shown to do one of four things to the numbers (`TextStep`): leave them, move some from one
  place to another, add the next one, or drop one, and the last is an answer: its question has gone
  (`AnswerIsLate`) or its request fails (`AnswerFails`).  So these are the only ways a text is lost, and
  where nobody asks there is neither.  `TakenInv` adds the prompts a backend took: it took each once,
  and the text is at rest or with a delivery that only takes it back.  So a prompt whose acknowledgement
  was lost is with the backend and in the composer, and only the user can send it again.  With questions
  `NothingTypedIsLost` is false (section 4), which is why the second theorem is stated for every use and
  the third is not.
- **`SettingsCorrect`** and **`OneBackendOn`**: `SettingsSpec => []SettingsComeBack` and
  `SettingsSpec => []OnlyActiveIsOn` (`ServiceProofs`; `SettingsTypeCorrect` is the type
  invariant).  Neither says what is on disk, from which the next launch takes everything, so
  `SettingsInv` adds: the file, once loaded, gives each backend what was kept for it, and a save that
  is on its way reads as what is in memory.  The argument is about two representations of one thing:
  the active backend's connection is in flat fields, the others' in records, the token on disk only in
  the records.  A lemma per operator (`SyncActiveIs`, `PersistedIs`, `ApplyScopedIs`, ...) says what it
  does to `ConnectionOf`, and `SavedIsReadBack` puts them together: what was saved reads as what was
  in memory.
- **`ArchiveCorrect`**: `CacheSpec => []ArchiveIsCurrent` (`ServiceProofs`).  `CacheInv` says what the
  phone's writer thread has in its hands: there is one writer, it writes beside the file that is read,
  and file, writer, queue and memory hold snapshots in the order they were saved in.
- **`RestartCorrect`**: `ServerInit /\ [][ServerNext]_serverVars => RestartMoves` (`ServiceProofs`,
  with **`ServerTypeCorrect`** for the types).  `ServerInv` says what a restart that runs alone has
  achieved at each of its steps: it has let go of the child, every process of the server is dying once
  the port is to fall silent, there is none when it asks and none when it starts one, and then only its
  own.  A stop of the user's may run beside it, lock by lock: such steps only make processes fewer
  (`Wanes`), and it lets go of no child but one it has killed (`NoneLetGo`), which the restart then
  need not kill itself.
- **`AdaptersKeepContract`**: `Spec => KeepsContract` (`BackendProofs`), a refinement: all adapters
  implement `AgentStream`.  `Backend` and `AgentStream` share their variables, so every step has to be
  one of the contract's own or leave them alone, and three of those can go wrong: `Greet` asks for a
  channel that was not told yet, `Draw` for a session in `scope`, `Post` for a prompt not taken before.
  `CallInv` is what the adapters share (a call's session is in scope, a prompt taken was submitted); each
  adds what its filter and its tasks need:
  1. `XxmInv`: `active` was asked for; a turn to continue or post is not taken;
  2. `CodeInv`: a channel has one SSE task, and one that is opening has told nothing;
  3. `CliInv`: only Pi's lines get a session, its `live`, which a create sets before its process is there
     and a resume after; in between it is in scope because the call's own is;
  4. `GateInv`, for OpenClaw and Hermes, says where each request is among the command queues and wires of
     all gateways so far.  `Channels`: the newest channel is of one gateway, which the adapter holds
     while that runs and is listened to.  `GateQueues`: the request of the call is the only one in any
     queue, and last in that of the gateway held, until it is the newest on its wire.  `Prompts`: a
     prompt is on one wire at most, and not taken while it waits there.  `ClawInv` adds that the
     handshake is over once it is told and that a frame's session was asked for, whether the call that
     opens it has set the filter or queued it before its request; `HermInv` that Hermes tells as the
     socket opens and that `subscribed` is within `scope`.

  A lemma per step of the contract (`GreetsIs`, `DrawsIs`, `TakesIs`, `ReturnSessionIs`, ...) says what
  an adapter must show for it; a lemma per adapter (`XxmCalls`, `CodeCalls`, `LineCalls`, ...) says that
  its calls are the facade's.

- **`AdaptersTypeCorrect`**: `Spec => []TypeOK` for `Backend` (`AdapterProofs`).  It rests on the two
  results around it: what the frontend sees has its types because each step is one of the contract's
  (`CallMoves`), the gateways' from `GateInv` (a queued request is the call's, those on a wire were
  submitted), the other adapters' mostly from `OwnInv` below.  `TypeInv` adds that no prompt taken is
  numbered 0 and that `running` names turns there are, and `WrittenInv` that what was written, and what
  the reader holds, is of a process there is.

- What single adapters promise besides, `Spec => []P` for the whole of `Backend` (`AdapterProofs`):
  **`AnswersReachTheAsker`** and **`RepliesAreShownOnce`** (OpenCode), **`SessionsHaveOneCopy`** and the
  action property **`StopsReachTheTurn`** (Xuexiaomi), **`DeathsAreTold`** and the action property
  **`PromptsReachTheirSession`** (local agents).  `OwnInv` has a part for each kind of adapter, and the
  variables of the other kinds stay as they began:
  1. `CodeOwnInv`: a question on screen has its asker noted (`AskerInv`); what was last seen of a reply,
     and last told of it, is no more than was said (`ToldInv`); and what the chat has is a beginning of
     it, or something was missed (`ChatInv`).  A piece that begins where the chat ends, or before, makes
     the longer beginning, whichever case of `merge_stream_chunk` it takes: `MergeCompletes`;
  2. `XxmOwnInv`: every turn's target is what its session is continued in now, and no turn is in a
     snapshot itself; a prompt that continues one has found it not continued;
  3. `LineOwnInv`: the transport holds the newest process or none, that of the session opened last unless
     that was `misnamed`; a process is read by the reader it was started with; the exit of the newest is
     in the pipe, in the reader's hand, or told (`TransportInv`).  Between the two locks of a create
     (`NamedInv`) whatever is read back is a session, since what was written is of a process there is
     (`WrittenInv`).

- The phone's bridge (`MobileProofs`).  **`MobileTypeCorrect`**: `Spec => []TypeOK`.  Then three properties
  under one hypothesis, `Spec /\ [][IdentityStays]_vars`: **`OwnTranscripts`**
  (`[]TranscriptsAreTheirOwn`), **`RestoredPrompts`** (`[]RestoredIsGone`, of prompts no
  agent has) and **`SwitchingKeeps`**
  (`TranscriptSurvives`).  `IdentityStays`: until the next `switch_to` a conversation that has a session
  keeps it, and its live id and stored id are of one session.  A bridge that renames the conversation on
  screen breaks all three at once, and this one can (run `mobile_other_session`), so the hypothesis
  cannot be dropped.  **`OnlyThreeRename`**,
  `Spec => [][LiveIsStored => IdentityStays \/ ResumesOver \/ AnnouncesOver \/ AttachesOver]_vars`, says
  where it can fail: in the three regions that write an id without comparing it with the one on screen
  (client.rs:752, 1280, 1012), and only when the ids differ.  TLC finds it true of every step in all
  scenarios of `mobile`, and false in that of `mobile_other_session`.

  The argument.  `At(p, b, y)`: prompt p is in the transcript that backend b's session y, or the blank
  chat, has on screen, parked or in the cache.  A step either only moves p (`Moves`: wherever it is
  afterwards it was before, or it was in the blank chat that is named now), or shows what was fetched
  for a session in that session's transcript (`Quiet` is both).  `RouteInv`, which is inductive given
  the hypothesis, adds to the three properties:
  1. `Fetched`: what a task has fetched for a session is the session's;
  2. `Numbers`: a prompt is on its way, with an agent, or given back, and of one task;
  3. `ParkedIsSaved`: what is parked is in the cache too, so an eviction loses nothing;
  4. `OnItsWay`: a prompt whose task has not attached is nowhere but in the conversation on screen if
     that is still the one it was typed in, in at most one place otherwise, and from submit on in its
     own session's transcript.  So `restore_prompt` takes out the only copy there is.
  **`PromptsGoWhereAimed`** needs no hypothesis: of every behaviour of the bridge, a prompt is handed to an
  agent once, whatever its call answers, and in the session its task was aimed at when it was typed: the
  live id if there was one, else the stored one, else a session that was not listed.  `AimInv`: what a
  task aims at is what it was given, or a session made for it.  Whether that is the session the user saw is
  another question: it is as long as the two ids on screen are of one session, and `OnlyThreeRename` names
  the steps after which they are not.  `PromptStaysInItsConversation`, which asks it, is model-checked.

- **`PhoneDrawsTheCore`**: `FeedInit /\ [][FeedNext]_feedVars => []AppDrawsTheCore`, and
  **`FeedTypeCorrect`** for the types (`TranscriptProofs`).  The property speaks of moments when the
  queue is empty and no thread has anything left to say; `FeedInv` says what holds on the way there:
  1. `EntriesInv`: every entry has an id of its own, what streams is a reply, and a turn without calls
     has one that streams;
  2. `TellersInv`, `TextInv`, `ChangesInv`: what the app's thread, the pump and a failed delivery may
     still push and of which change; text that waits is what its entry has, and a transcript of the
     newest change is the core's;
  3. `ToldInv`: the newest change was pushed or some thread is about to, and while a turn runs not only
     a delivery that fails;
  4. `TurnInv`: in a turn without calls, with nothing missed, the app shows what the core has once it
     takes what is queued, or does after the pump's text.  So the text of a reply may be coalesced into
     the queued event before it, whatever transcript comes ahead of both;
  5. `IdleInv`: between turns the transcript that settles everything is on screen or in the queue, what
     follows it changes nothing, and no more than three events can follow.  So a cap of four or more
     never takes it out: this is where `FeedAssumption` is needed.

  What the queue makes of the screen and `finish_turn` of the messages are folds.  The library's
  induction theorems cannot be instantiated here, so the proof has its own: a set of numbers that is not
  empty has a least one (`NatLessThanWellFounded`), so no position is the first at which the fold and
  what is claimed of it differ.  From that `DrawnFrom` goes event by event, and `Finished` keeps ids
  apart, closes what streams, and says the same of two transcripts that do.
- **`RepliesReadInOrder`** and **`RepliesKeptTogether`**: `ConversationSpec => []ReplyReadsInOrder` and
  `ConversationSpec => []ReplyKeptTogether`, with **`ConversationTypeCorrect`** (`TranscriptProofs`).
  Both speak of texts on screen, and a text comes from streams that are merged, so neither is inductive.
  `ConvInv` adds:
  1. `RepliesInv`: both properties, in the form that survives a change of one bubble, and that prompt and
     turn are numbered alike: the message list has exactly one prompt per turn, with its text;
  2. `StreamsInv`: until a turn is told late, what a stream holds is exactly the first part of the reply
     as far as it was told.  `MergeGoesOn` is the heart of it: the next chunk, with as much before it as
     the backend likes, merges into the next longer start, whichever of the three cases of
     `merge_stream_chunk` it takes;
  3. `OpenInv`: a bubble streams only in the turn in flight, or in one that is no longer `Orderly`;
  4. `LastInv`: in flight the last message streams, and unless the turn is `mixed` every bubble before it
     has calls and no text.  So text goes to the one bubble that may have some, and a call never opens a
     second one after text.

  The proof has a lemma per event (`ApplyDeltaStep`, `AppendToolCallStep`, ...).  Most of them change one
  bubble, which is `PutToldSo`, or close the turn, `FinishStep`.  For `merge_transcript`, `Recorded`
  says what the backend's history is, a fold over turns, and `SettledTo` what is settled after each of its
  messages; messages with files alone that come between have no text (`FilesToldSo`).
- **`TranscriptKeepsDrawn`**: `ConversationSpec => KeptByMerge` (`TranscriptProofs`).  `ConvInv` says too
  little of what is behind a reply, so `KeepInv` adds:
  1. `EndsInv`: the end of a turn in flight was not told, and a turn whose end was not told is not answered;
  2. `Bare` and `TextsLate`: prompts have neither calls nor files, and from the first turn told late on no
     text on screen, nor in a stream, is of an earlier turn.  So the reply of a turn before them is
     never found in one of theirs, which would take the cursor past what lies between;
  3. `ReplyWhole`: of every answered turn, and of one told to its end, that is `Orderly` and not `mixed`,
     the whole reply is in one message or in none, and behind it come only files.

  `merge_transcript` is then an induction over the history's messages with `MergeInv`: every turn before
  the message's has what was drawn in it; while that turn was not told late the cursor stands in it
  (`StandsIn`), what was merged of it is what was drawn before the cursor, and after its reply only files
  are left (`OnlyFilesFrom`).  What the cursor passes over it adds to what it found, and files at the end
  are added by the last part of the function.  `MergeInv` was checked over every state of two turns
  before it was proved.
- **`ServicesTypeCorrect`**: `Spec => []TypeOK` of the composition `MCServices` (`ServiceProofs`, with
  **`CacheTypeCorrect`**).  `PartsBehave`: a behaviour of the whole is one of each part's own, so
  whatever is proved of a part holds in the composition too.

The assumptions on the constants are `ConstantsAssumption` and `MobileAssumption` (types, and that no
session is none or a number), `CallsAssumption` (no session is none), `BackendAssumption` (the bounds
are numbers), `FeedAssumption` (the same, and the queue holds four events; it holds 512 in the code),
`CacheAssumption` and `SettingsAssumption` (a default address is not a typed one, no token is not a
token), which TLC evaluates.  Some theorems have a hypothesis besides, each named above:
`~AnnouncesSessions` (a Hermes gateway that sends no session.info; the other adapters never do),
`~FansOutQuestions` (any adapter but OpenClaw), that nobody asks, and `[][IdentityStays]_vars`.  Every
property a theorem states is checked by a run as well: the desktop's by `prompts` and `switching`, the
adapters' by `backends`, the phone's by `mobile`, those of the conversation, the feed,
the cache, the server and the settings by `services`.

Only model-checked, and why:

- `AttachedIsHeard`, `QuestionMeansStream`, `OldAdaptersClosed` and `NotMarkedDown` hold in the
  scenarios of their runs and fail in those of section 4.  There is no theorem of every use to state.
- Liveness under fairness (`ComesBack`, `StopEnds`, `DeliveriesEnd`, `PhoneComesBack`,
  `SpinnerStops`, `ServerComesUp`) and `ENABLED` are outside what the prover supports.
- `PromptStaysInItsConversation` is false of the bridge at large (run `mobile_other_session`); what is true of
  every behaviour is `PromptsGoWhereAimed`.

## 6. What is not modelled

- **Session list** (the desktop's rows, archive and delete, `merge_fetched_sessions`): rows to draw.
  Removing the session on screen is `NewChat`.  Two list requests may overlap (sessions.rs:102) and
  the older be drawn last; the next "sessions changed" repairs it.
- **Conversation**: ids, times, the files of prompts; what is told to redraw is `PhoneFeed`'s.
- **Phone**: attachments and their upload, the model choice, answering a question, the session list,
  Markdown; of the Flutter app the sessions, files, models and widgets.
- **Adapters**: HTTP lists and histories (they keep no state), OpenClaw's device keys, Xuexiaomi's
  model options and files, the CLIs' own session files, and Codex behind the connect it fails at.
- **Cache**: the debounce and the pruning of what is saved.
- **Settings**: preferences, window, workspace, a file that cannot be parsed.
- Parsing and JSON payloads, Markdown, Hermes' config files, logging, the Go window,
  platform shells and packaging: text, layout or I/O with no state worth checking.

`PROJECT.json` lists every component with its status.

## 7. Plan

Done: the desktop client core, the five adapters behind `AgentStream`, the phone's bridge and its queue
of events, the four services, and the theorems of section 5.  What would add most from here:

1. The desktop's `StreamConnects`, `StreamDrops` and `StreamFrame` replaced by `AgentStream`, so that
   what is checked of the client rests on what is checked of the adapters.
2. The session list, with its request in flight, archive and delete.
3. Codex behind its connect, should it be given a reader first.
