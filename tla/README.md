# TLA+ models of whisper-studio

whisper-studio is a local chat application: a FastAPI server (`server/`) with one event
loop and many worker threads, a React window (`src/`), and a macOS shell. A chat turn calls a
model in rounds, runs tools between the rounds, starts agents and shell commands that outlive
it, and can be stopped, paused at an approval card, steered by a message sent mid-turn and
woken by what finishes later. This directory models the parts of it where the order of events
decides whether something is lost, answered twice or left running, checks the models with TLC
and proves some of the results with TLAPS for every size of the system.

Paths below are relative to the repository. `server/chat/routes.py:1274` is a line of it.

## 1. Inventory

| Component | State | Operations | Talks to | What is hard, and what makes it correct |
|---|---|---|---|---|
| Mid-turn inbox, `server/chat/engine/midturn_inbox.py` | queue and closed flag per session | push, drain, close_if_empty, close_and_take, reopen, clear, close_and_announce | pushed to by the route, both wake modules; read by the running turn | the last look against a late push. Accepted text is read, or handed on, or the user is told |
| Busy slot, `server/chat/stream_slot.py` | owner token and heartbeat per session | claim, beat, drop, release, is_live | route, wakes | a turn that outlives its claim. One turn at work; the slot never outlives its turn |
| Agent wakes, `server/agents/wake.py` | task, answering, late per session | maybe_wake, yield_to_chat_turn, deliver_unread, the end of a wake | inbox, slot, route | a wake and a turn want the same reports. Each report is answered once; no wake beside a turn |
| Command results, `server/tasks/wake.py`, `backgroundWake.ts` | rows; a map in the window | report_finished (on a thread), request_wake, tryWake | slot, inbox, window, route | the thread's look at the slot is stale when it pushes |
| Chat route and round loop, `server/chat/routes.py`, `server/chat/engine/runner.py` | one turn: stage, round, prompt, pause | POST /api/chat in four kinds, rounds, pause, Stop, /reset | all of the above | every exit must take the last look; setup may fail |
| Shell hand-off, `server/tasks/handoff.py` | foreground commands, stop marks, a lock | run, hand off, Stop of a turn | shell tasks, registry | the budget ends while Stop collects its targets. Stop sees each command as exactly one thing |
| Shell tasks, `server/tasks/shell.py`, `server/process_utils.py` | live handles, stop marks, waiter threads | start, adopt, wait, cap, stop | registry, command results | natural exit, stop, cap race; a group outlives its leader |
| Task registry, `server/tasks/registry.py` | rows in sqlite | create, attach, finish, resume, reconcile, adopt, prune | all task kinds | a restart between any two steps. First verdict wins; no stranded row |
| Detached agents, `server/tasks/agents.py` | running coroutines, a semaphore of two | start, resume, cancel | registry, agent wakes | a resume reuses the id of a run that may be ending. Each run that began leaves one verdict and one report |
| Agent runtime, teams, messaging, `server/agents/`, `server/agent_tools/` | journals, mailboxes, the agent registry, teams | run, message, cancel, salvage | detached agents, chat route, task registry | a cancel lands at any await of a run; a message is sent while its reader ends. A row says running only with a run behind it; a message has a reader |
| On-device serving, `server/local/serving.py` | busy turns, claims, stopping count, pending release | ensure_serving, serve_turn, stop_if_idle, release_resident | two engines | one model resident, never stopped under an answer |
| Models manager, `server/models_manager/` | jobs | download, test, cancel | serving | cancel against completion |
| Cron, `server/cron_scheduler.py`, `cron_run.py`, `cron_history.py`, `cron_routes.py` | jobs file, triggers, running runs, leases | create, toggle, update, delete, fire, run now, stop, catch up | sessions, APScheduler | file, trigger and lease are written one after the other, partly on threads. An instant runs once; the triggers follow the file; a lease tells the truth |
| Workflows, `server/workflows/` | runs, journal, harness process | start, stop, resume | agents, registry, command results | replay of a journal |
| Tool batch, approvals, permissions, `server/tool_executor.py`, `server/approval/` | batch, pending cards, denial counters | run a batch, gate, pause, resume | round loop | partial batches, a card answered twice |
| Compaction, loop guard, budgets, goals gate, `server/chat/`, `server/costs/`, `server/goals/` | the message list, counters | compact, finalize, judge | round loop | bounds on retries |
| Index, memory, documents, search, git, workspace | files, vector store | mostly one call at a time | tools | file conflicts, undo |
| CI watch, preview servers, terminals, MCP | child processes, connections | poll, start, stop | external services | processes that outlive the server |
| Recording and transcription, `server/websocket.py`, `src/services/recordingController.ts` | audio buffers, takes | start, stop, switch | ASR engines | late answers for an earlier take |
| Window stores and views, `src/` | state per session | dispatch, evict | the API | presentation |
| macOS shell, `macapp/` | windows, capture | native glue | the server | platform code |

The first ten rows, the on-device serving and cron are modelled here (`PROJECT.json` says which of them in full); the
others are in the plan below or left out with a reason in `PROJECT.json`.

## 2. Modules

    MidturnInbox ── StreamSlot ──┬── AgentWake ──┐
                                 └── TaskWake  ──┴── ChatTurns ── MCChatTurns
                                                        │  └───── ChatTurns_proofs
                                                     Delivery (abstract)
    ShellTasks ── MCShellTasks
        └──────── ShellTasks_proofs
    LocalServing ── MCLocalServing
        └────────── LocalServing_proofs
    AgentRuns ── MCAgentRuns
        └─────── AgentRuns_proofs ── AgentQueue_proofs
    CronRuns ── CronRuns_proofs

**MidturnInbox, StreamSlot, AgentWake, TaskWake** each translate one source file. Their
operators are the functions of that file over the state the file keeps for one session; each
function that runs under a lock, or between two awaits, is one step. They extend each other as
the files import each other.

**ChatTurns** composes them with the chat route, the round loop and the window for one session.
A turn has a stage (`pc`), and an action is a stretch of code between two awaits. The
correspondence is by name where there is one (`ServeSend`, `ServeWake`, ... are the branches at
the top of `chat_endpoint`; `LastLook` is the end of an answered round up to the close of the
inbox; `Unwind` is the `finally` block of `staged_stream` for a stream that was closed early).
Items (messages, reports, results) are tracked by identity; `fate` is a history variable that
records what became of each, and no guard reads it except to produce an item once. Turn and wake
identities are given out again, so the length of a behaviour is not bounded.

Four constants switch on what clients and users may do beyond the ordinary: `Parking` (stop
reading without a disconnect, then come back), `Leaves` (the runner's own disconnect poll sees
the client gone), `Resets` (/reset) and `TwoWindows` (a card is answered while another request
of the same session is on its way). They are constants because some properties are true of the
code only without them, and the README and the theorems say which.

**Delivery** is what the session promises, without its five queues: an item waits from its
arrival until it is settled, and is settled once. `ChatTurns` implements it under the mapping
`waiting <- Waiting`, `settled <- Settled` (property `DeliversOnce`).

**ShellTasks** is the life of shell commands: `run_with_handoff`, `start_shell_task`, the waiter
thread of a row, Stop of a turn, stop of a row, and a server that dies and reconciles its
registry. A process group is "leader" (the shell runs), "left" (it exited and work of its group
runs on) or "gone". `_fg_lock` is a variable because a hand-off holds it over several steps
(the row, the pid, the event, the waiter); `_lock` of `shell.py` protects single steps. `claim`
is a history variable: how the last Stop got hold of each command, by its foreground group, by the
live handle of its row, or only by the row's pid.

**LocalServing** is `serving.py` over its two engines. A call of `ensure_serving` or
`begin_resident_call` is a thread with a place (`pc`): the lock-free path (`FastPath`, `Mark`,
`Reread`), the download, the wait loop, the queue for `_transition_lock` (the variable `lock`), and
the transition itself up to the return. What runs under `_busy_lock` is one step. A call has a job:
a turn, the judge, a load of the model picker, or a one-shot answer without a mark, each for a key
and a context size or none. A stop (`release_resident`, the delete of a model, the cancel of a
load, the thread `end_turn` starts) is an identity in `Stopper`. The size last requested is state
of its own: the engines read it, `_would_displace` does not.

**AgentRuns** is the life of the agents of one session. A run is a coroutine with a place (`pc`)
between two awaits of `run_agent`: "made" (a task that has not had its first step), "queued" (for
the semaphore), "ahead" (its checks), "fork" (its worktree), "setup", "ready", "work" (all rounds),
"harvest" and "tidy" (its worktree again), "closing" (`_run_detached` after the run), "over" (its
callbacks) and "gone". The four ways to start one differ in what is around it: a detached or
resumed run has `_run_detached`, a stream has its endpoint, a member of a team has the turn that
waits (`TeamReads` comes after all of them are over, or after the first that was cancelled: that ends
the gather, and a turn cancelled at its await of the gather or of the run goes on only when that has
ended, so its waits of 5 s find it done). `hit` is a `CancelledError` that will be thrown at the
next await, so a cancel can meet every place. `alone` and the numbers of the runs are history: no step reads them.

**CronRuns** is the job file with everything that follows it. A job has a schedule, `Wall` or the
number of the one instant it is for, and `clock` counts the instants that have come. A firing goes
through "stamp" (`_mark` on a thread), "stamped", "spawned", "begin" (the file is read, still the
same step of the loop, but threads may come between) and "body". The changes of the panel run on the
loop, `cron_delete` and the delete of a session on threads; `op` holds what each of the three has
still to do after the file: the triggers, then the history. `behind` is history: for each job,
whether its trigger was last set by the change that last wrote it in the file.

### Abstractions a reader should know

- Order within the inbox, texts, prompts, cost and labels are left out. `forced` in `BeginRound`
  stands for the deadline and the cost budget; `NextRound` for retries, compaction, output
  limits, provider pauses and a round dropped for a message; `GateBlocks` for the completion
  gate and the claim guard.
- A stored row is in the history of every later request of the window. A mid-turn request
  carries no history.
- Only agent runs enter `Completions` (the code also lists workflows), and the limit of entries
  per turn is left out.
- The heartbeat is fresh or stale. A turn that beats is never stale; only a parked client lets
  the heartbeat age (`with_heartbeat` pulses while the turn works).
- A process that gets SIGTERM may end at any later time or never; only `kill_process_group`, which
  escalates, ends with the whole group gone. A leader that has exited and is not waited for yet
  counts as gone. Database writes succeed. A pid is not reused while a row holds it.
- Each command is run once. `Mine` is the set a Stop of the turn matches (no owner, started at or
  after the turn).
- A model server dies on its own only while it warms up, stopping one is a single step that ends
  with the process gone, and its address is its key, size and readiness. Each load has a cancel of
  its own; the code keeps one flag per model, which a later load of the same model clears.
- The rounds of an agent run and of a scheduled run are one place. A broadcast is as many messages;
  budget extensions, the caps on agents and nested spawns only refuse or repeat what is there.
- A due time of a job is a number. A time that no trigger takes is missed, and the catch-up at boot
  replays the last one or not, which stands for the grace window. An interval job is a wall clock
  job that is never late. `Backwards` stands for the schedules that are accepted and of which no
  trigger can be built; adding a trigger fails for no other reason.
- The registry entry of a scheduled run and its lease are one step (`start_run`): the loop does not
  wait between them (`server/cron_run.py:106-126`), what a thread does to the history in between it
  can do before, and a crash in between leaves what a crash before leaves.
- `orphaned` is not state of its own: it changes what the panel shows. History rows keep their job.
- The server restarts as a new process; another live server process is not modelled.

## 3. Runs

| Run | Bounds | Shows |
|---|---|---|
| `turns_results` | 2 messages, 1 report, 1 result, 2 turns, 2 wakes, 2 rounds, `Leaves` | `TypeOK`, `OnePlace`, `SoleTurn`, `WakeAlone`, `ClosedByEnding`, `OwnerDrains`, and the refinement `DeliversOnce` |
| `turns_adverse` | 2 messages, 1 report, 2 turns, 1 wake, 1 round, `Parking`, `Resets`, `TwoWindows` | `LateBehindWake`, `SlotHeldByTurn`, `OwnerFrees`, `NeverAgain` |
| `turns_live` | 1 message, 2 reports, 2 turns, 2 wakes, 1 round, no symmetry | `InboxHasReader`, `Settles`, `SlotFreed` |
| `shell_stops` | 2 commands, no restart | `TypeOK`, `OneHolder`, `ClaimedStaysInline`, `StopReaches`, `NoStaleMarks`, `StoppedWakesNobody`, `RunsUntilGroupGone` |
| `shell_restarts` | 1 command, 2 restarts | `RowHasWatcher`, `OneEnding`, `OneVerdict`, `RowCloses`, `ToolReturns` |
| `local_serving` | 2 calls, 1 stop, 1 model per engine, 2 sizes, 6 jobs | `TypeOK`, `OneResident`, `BusyIsMarks`, `StopAlone`, `OnlyUnsizedCuts`, `LoadedIsReady` |
| `agent_runs` | 2 agents, 1 team, 2 runs, 1 restart, 1 message, a semaphore of 1 | `TypeOK`, `RowHasRun`, `MailHasReader`, `VerdictKept` |
| `cron_runs` | 1 job, 2 instants, 2 runs, 2 restarts, 2 changes | `TypeOK`, `OncePerInstant`, `LeaseTruthful`, `TriggersFollow` |
| `turns_late_push` | one item of each kind | counterexample, section 5 |
| `serving_cut` | as `local_serving` | counterexample, section 5 |
| `agent_two_runs` | 1 agent, 3 runs, 2 messages | counterexample, section 5 |
| `cron_session_back` | 1 job, 1 instant, 1 run | counterexample, section 5 |

Why the bounds are enough. Two turn identities give one turn that ends and one that starts beside
it, which is the most the slot can confuse; with `Parking` and `TwoWindows` both are at work.
Two messages give two fresh turns, so that one can find what the one before it left. Two wake identities give a cancelled wake that unwinds after its successor has started. Two
rounds give a last round and one before it, so the last look can both continue and close. Two
reports are needed for one to land while the other is answered (`late`). One item of each kind
exercises each branch of the hand-on; two of a kind share the same code path. The adverse run has
one wake: a cancelled wake unwinds there before the next begins, and the overlap is left to
`turns_results` and `turns_live`. Two commands
exercise Stop over a set and the lock between hand-offs; restarts concern each row by itself, so
one command with two restarts covers an adoption that is lost again.

For the serving, one call streams or lands while the other claims, starts, aborts or raises, and
the stop meets both; an identity is used again, so a call finds what earlier ones left. The jobs
cover both engines, both sizes and no size, with and without a mark.

For the agents, two runs are a run and its resume, two members of a team, or two that share the one
slot of the semaphore; one message either is read or resumes. For cron, two instants and two runs
let a catch-up meet the firing it replays, and a restart fall before and after the stamp; two
changes can undo each other. With a second job the triggers and leases of the two do not touch:
the proofs of section 6 hold for any number.

`Identities` and `Commands` are symmetry sets: messages and the identities of turns, wakes, calls, agents
and commands are interchangeable (`Mine` is all commands where symmetry is used). The
liveness runs use none.

Deadlock checking is off: a session where nothing is sent, every command is over and no job is due may stop.

Fairness. The event loop runs every ready task and the operating system runs every thread, so
each turn, wake, waiter thread, tool thread and stop is weakly fair as a whole (`TurnStep(t)`,
not each branch: the model may answer for ever, but `round` is bounded by the cap). The window's
wake is weakly fair. Nothing obliges the user to write, stop, reset or answer a card, a parked
client to come back, a call to get `_transition_lock`, or a process to exit: `ToolReturns` and `RowCloses` follow from the budget
and the cap alone.

## 4. Properties

- `OnePlace`: what is sent and not dealt with is in exactly one of seven structures, counting
  requests in flight and threads. Two would be a second answer; none would be a loss.
- `SoleTurn`, `OwnerDrains`, `OwnerFrees`, `SlotHeldByTurn`, `SlotFreed`: the busy slot.
- `WakeAlone`, `LateBehindWake`: wakes and turns share the reports of a session.
- `ClosedByEnding`, `InboxHasReader`, `Settles`, `NeverAgain`: nothing accepted is left, and
  nothing settled returns.
- `OneHolder`, `ClaimedStaysInline`, `StopReaches`, `NoStaleMarks`: Stop against the hand-off. A Stop
  that has a group or a handle ends what it stops; one that has only a pid asks, and is in neither
  promise, nor in `RunsUntilGroupGone`.
- `StoppedWakesNobody`, `RunsUntilGroupGone`, `OneVerdict`, `OneEnding`: the end of a row.
- `RowHasWatcher`, `RowCloses`, `ToolReturns`: restarts and progress.
- `OneResident`, `BusyIsMarks`, `StopAlone`, `LoadedIsReady`, `OnlyUnsizedCuts`: the model servers.
  `OnlyUnsizedCuts` is what is left of `AnswerKeepsServer` (section 5): no stop, switch, load,
  cancel or turn that names its size ever takes a server that has answered from a live turn.

- `RowHasRun`, `VerdictKept`: whatever ends a run, its row closes with the verdict that its report
  gives, and a row that says running has a run; each member of a team keeps its own verdict.
  `MailHasReader`: what is mailed has a run before or in its rounds, with three exceptions it names
  (section 5).
- `OncePerInstant`, `LeaseTruthful`, `TriggersFollow`: scheduled jobs. `TriggersFollow` goes both
  ways, for deleted and orphaned jobs too, and leaves out only the jobs whose scheduler steps came
  in another order than their file changes.

Operators under a comment that begins with "Slip:" are the wrong code each property is tested
against: `PROJECT.json` ("mutants") names, for every property of a passing run, the definition
that is replaced by a slip and the run then fails.

## 5. Disagreements found

- `turns_late_push`. `report_finished` (`server/tasks/wake.py:206`) reads `is_live` and pushes on
  the waiter thread. If the turn ends and frees its slot in between, `release` reopens the inbox,
  and the push is accepted by a session without a turn. The comment at
  `server/chat/engine/midturn_inbox.py:38-41` says a push after the close is refused. The result
  keeps its row, but the chat is not woken.
- `serving_cut`. `_would_displace` (`server/local/serving.py:136`) takes a missing context size for
  "any", while the engine takes it for the size last requested
  (`server/local/llama_server.py:316`). An agent turn that queues behind a cold load, with the
  slider moved meanwhile, restarts the server under the first answer; `serving.py:246-248` says
  such a transition waits.
- `agent_two_runs`. `execute_send_message` (`server/agent_tools/spawn.py:588`) resumes every agent
  that is not "running", and the status of a resumed agent becomes "running" only when its run is
  past the semaphore and its checks. A second message before that starts a second run over the same
  record.
- `cron_session_back`. The card of a run is addressed before the delete of its session and appended
  after it; `append_message` (`server/infrastructure/sessions.py:371`) then inserts the row anew,
  against the docstrings at `sessions.py:572` and `:362`.

Others that a reader of the models will meet, without a run of their own:

- `server/agents/wake.py:137-138` says the wake yields "once the turn is sure to run"; the route
  calls it at `server/chat/routes.py:1437`, before the rest of the setup and before a local model is
  loaded, either of which can still end the turn.
- After a restart only the pid of the leader of a command is looked at
  (`server/tasks/registry.py:402`, `:421`), so the row of a command whose leader is gone closes while
  its group runs, against the comment at `server/tasks/shell.py:174-176`. `RunsUntilGroupGone` is
  checked without restarts.
- Between `attach_pid` and `adopt_running_process` a row that runs has a pid and no handle. A Stop of
  the row then sends one SIGTERM and closes the row at once (`server/tasks/shell.py:275-286`), so a
  process that takes its time, or ignores the signal, runs on under a closed row, against the same
  comment; and if its waiter closes the row first, it reports back to the chat.
- `open()` of the output file (`server/tasks/shell.py:104`) is outside the `try` that fails the row.
  If it raises, the row says running until the next restart, against the docstring of
  `start_shell_task` (`:67-69`). `RowHasWatcher`, `RowCloses` and `ToolReturns` name the case
  (`unopened`).
- A release of the resident model refused because of a claim is retried once, at once
  (`server/local/serving.py:95`), and then only by an `end_turn` that a load or a one-shot call never
  makes; `serving.py:82-85` promises otherwise.
- An agent run of a chat turn whose on-device model cannot be served (`server/agents/runtime.py:825-834`),
  or that is cancelled in the fork of its worktree, leaves its row running until the next restart
  (`LeftOpen`); so does a detached run cancelled before its first step, and a stream closed at its
  first frame (`NeverBegan`). The comment in `_persist_agent_result` says the journal has closed it.
- The done callback of a run (`server/tasks/agents.py:84`, `:268`) takes the agent off `_running`
  even when a resumed run is there by then, which a Stop no longer finds; and the end of the first
  run closes the row of the second.
- `send_message` mails to an agent that is listed as running, and a run that settles its worktree
  after its rounds still is: the message is answered as sent and deleted with the mailbox
  (`server/agents/runtime.py:538`). So is one to an agent cut at the fork of its worktree.
- A resumed run that is cancelled in the queue reports the text of the run before it.
- Two changes of a job that overlap, one on the loop and one on a thread, can reach the scheduler in
  the other order: a toggle or an update that meets the delete of its session leaves an enabled job
  without a trigger or a disabled one with one, and one that meets `cron_delete` leaves a trigger for
  a job that is gone (its fires end at the stamp). It lasts until the next change or restart, against
  "atomically reschedule" (`server/cron_scheduler.py:881`).
- `_norm_day_of_week` looks at each token by itself, so a range like "sat-mon" is accepted; building
  its trigger raises, which `_add_job_to_scheduler` only logs (`server/cron_scheduler.py:505-506`).
  The job is stored as enabled and never fires, which `server/cron_schedule.py:106-110` says comes up
  when it is created. An update to such a schedule takes the old trigger away first.
- `_create_job` does not ask whether its session is still there: a job created after the cascade of
  its delete stays enabled.
- A stamp still on its thread when an update gives the job a new instant marks the new schedule as
  fired, and one that comes after a toggle still runs: `_mark` looks at neither.
- An "at" job that comes due while a run asked for by hand is under way is marked fired, and its run
  is skipped as a duplicate. The comment at `cron_scheduler.py:75-76` rests this on `max_instances`,
  which counts `_run`, over as soon as it has spawned the run.
- `cron_delete` on its thread between the read of the file and `start_run` leaves a history row of a
  deleted job, which the comment at `cron_scheduler.py:919` says cannot stay.
- The catch-up at boot also replays a fire that came while the job was switched off.

Other known limits: the windows around `_track` and around the spawn of a background command, a
/reset under a running turn (the old turn goes on draining the inbox), a card answered in a second
window, and a turn whose re-read (`server/local/serving.py:279`) returns a server that another call
is still warming.

## 6. Proofs

TLAPS checks `ChatTurns_proofs`, `ShellTasks_proofs`, `LocalServing_proofs`, `AgentRuns_proofs`,
`AgentQueue_proofs` and `CronRuns_proofs`. Every invariant and every action property that a passing
run checks, and the refinement of `Delivery`, is a theorem, under the hypotheses named below.
The only assumptions are the named ones on the constants (kinds of items are disjoint, the null
values are not identities, the round cap is positive, switches are booleans, the sets that are
counted are finite), which TLC evaluates in the runs.

**ChatTurns_proofs**

- `TypeCorrect`: `TypeOK` is inductive by itself; one step per action (`TypeKept`), with
  `BeginTyped` for the claim that four actions share.
- `SlotNeverOrphaned`, `NoReportWithoutWake`: `Attended`, the conjunction of both, is inductive
  over `TypeOK`, with every switch free: the token comparison in `release` and in the end of a
  wake is all it takes.
- `OnlyOwnerFrees`: an action property; every step that opens the slot is the end of its owner's
  stream or /reset.
- `OneTurnAtATime`, `WakesAlone`, `ClosedOnlyAtEnd`, `OneConsumer`: under
  `Calm == ~Parking /\ ~Resets /\ ~TwoWindows`. None of the four is inductive. `Orderly` is:
  heartbeats stay fresh (`Beating`), every working turn holds the slot (`OwnsWork`), an answered
  card is alone on the network (`CardAlone`, which is why the continuation's claim needs no
  guard), the inbox is closed only by the owner's last look, and no wake runs beside a resolved
  turn. `OwnsWork` gives `SoleTurn` and `OwnerDrains`.
- `SettledForGood`: without any hypothesis, from `Sorted`: the wake that runs is the one the session
  knows (`WakeKnown`), a request carries only what is pending and waits nowhere else (`Carried`), and
  two structures never hold one item (`Apart`). What waits is then pending (`WaitingPending`), and no
  step makes a settled item pending again (`SettledStay`).
- `InOnePlace`, `KeepsPromise`: under `Calm`. `Sorted` says "never in two places", `NotLost` adds
  "never in none"; together they make `Waiting` the set of pending items (`WaitingIsPending`), so that
  a step of the session is a step of `Delivery` or a stutter (`StepDelivers`). `NotLost` needs
  `Orderly`: when a wake gives way to a turn, the inbox that takes its reports must be open.
- `QueuedIsRead`: under `Quiet == Calm /\ ~Leaves /\ Results = {}`, from `Readers`: a turn about to
  give the slot up has closed the inbox empty, or waits at a card (`LastLooks`).
- The hypotheses are needed, not convenient: in runs of small instances each of `Parking`, `Resets`
  and `TwoWindows` alone violates `OnePlace`, `InboxHasReader`, `SoleTurn`, `WakeAlone` and
  `ClosedByEnding`; a turn that returns on its own poll of the client (`Leaves`) violates
  `InboxHasReader`, and so do results that come from a waiter thread (`turns_late_push`). Parked
  continuations, a /reset under a turn and a second window are what section 5 lists as known limits.

**ShellTasks_proofs**

- `TypeCorrect` as above.
- `MarksFresh`, `NeverAdopted`: from the inductive `Marks`, which places the thread of every
  foreground command (`FgPlaced`, `RowlessBefore`), says that a hand-off of one holds `_fg_lock`
  (`LockedHandOff`) and that no marked command is in a hand-off (`HandsUnclaimed`). The lock
  matters exactly there: a Stop can mark a command only when no hand-off is under way.
- `VerdictStands`: an action property over `TypeOK` and `Marks`.
- `NoStrandedRow`: from `Watched`, which adds that a waiter that reports has closed its row. It
  holds over any number of restarts.
- `EndsOnce`, `StopEndsThem`: over any number of restarts. `Groups` follows a process group from its
  spawn to its end, and says that what a Stop has by a group or a handle is gone or has its kill on
  the way (`ClaimKills`). `Told` adds that who closes a row sends its one end event, and that the
  waiter that has closed it and not sent it yet is the only one that still will.
- `HeldOnce`, `StoppedIsSilent`: from `FirstLife`, whose parts hold until the server first dies
  (`crashes = 0`): the row of a command closes only when its group is gone or as "stopped"
  (`ClosedGone`), one that left the foreground without a row is over or being killed (`LeftFg`), and
  what was reported back is what the waiter found (`Reports`).
- `RowOutlivesGroup`: an action property, without restarts, from the same.
- None of them assumes anything of how processes take SIGTERM. What they do not claim is that the
  SIGTERM by a row's pid ends anything (section 5). After a restart a row is adopted by its pid alone,
  so `HeldOnce`, `StoppedIsSilent` and `RowOutlivesGroup` are for one life of the server, as the run
  makes them.

**LocalServing_proofs**

- `TypeCorrect`: with `StopsCounted` (`stopping` is the number of stops past their check), without
  which its decrement could leave the naturals.
- `OnlyOneResident`: from `Placed`. A call at one of its `Claiming` places is in `_claims` and holds
  the lock (`ClaimHeld`), so the engine it has evicted stays empty until its own starts (`Evicted`).
- `MarksCounted`, `StopsAlone`: from `Quiet`. A stop passes its check only when no call is `InPlay`,
  that is, holds a mark or a claim that becomes one; `busy` and `_claims` together say so, and the
  load whose claim the check spares never takes a mark (`OwnerKinds`).
- `LoadedServes`, `CutsUnsized`: from `IInv`, which adds `Ready`: a server that has not answered is
  being warmed up by the holder of the lock, and a claim granted beside a mark suits what is resident
  (`ClaimSuits`). Of a call that named its size, a suitable server is reused, so only one that did
  not can restart it: the case of `serving_cut`.

**AgentRuns_proofs**

- `RowsHaveRuns`, `MailHasReaders`, `VerdictsKept`: all from one inductive `IInv`, which holds for
  any number of runs of an agent beside each other, the case of `agent_two_runs` included.
  - `Staged` says of each place of a run what is known there of its journal, verdict and report;
    `Numbered` that runs take the next number.
  - `Marked`: two runs of an agent that ever lived beside each other both know it (`alone`), so the
    row of a run that is `alone` and the last of its agent follows that run only (`Followed`, for
    runs under `_run_detached` and for members of a team) and says running while its journal is open
    (`Shown`). The salvage it has written is still the report on disk when it hands on (`Salvaged`).
  - `Pledged`: a row that says running has a run that will close it or is one of the two that
    leave it (`Pledge`). A stream whose reader is gone makes no pledge; it cannot open a
    journal either, for its cancel is thrown in first (`Staged`).
  - `Readers`: an agent that is listed as running or has mail has a run between its journal and its
    mailbox's end (`Reader`), which is wider than what `MailHasReader` lets read. A cancel at the
    fork of a run without a journal would break it, but for `Isolated`: worktrees are for an agent's
    first run, so then there is no record.
    `Isolated` needs `Single` (an agent runs again only with a record), and that the members of
    a team are as many as its runs (`OneEach`, by cardinality).
- Most steps move one run and touch one agent (`Local`, `LocalKept`); the rest start runs
  (`Brings`), throw cancels or read a team (`Flags`), carry messages, or restart the server.

**AgentQueue_proofs**

- `SemaphoreHolds`, `QueueListsWaiting`: from `Listed` and `WithinSlots`. The queue lists each waiting
  run once and no other. Four steps touch it: a run that begins (`BeginKept`), the first of the queue
  that is let in (`AdmitKept`), a cancelled one that takes itself off, wherever it stands
  (`CancelKept`, over the lemma `WithoutOne` about a sequence without its k-th element), and a restart.
  All others leave it and take no run inside (`Elsewhere`).
- `TypeCorrect`: with `Listed` for the queue and `Counted` for the two counters.
- `OnlyResumesOverlap`: from `Later`. Two runs of an agent that are alive at once are a run and one
  that a message resumed beside it: what `agent_two_runs` shows is the only way.

**CronRuns_proofs**

- `TypeCorrect`: over `Registered`, since a Stop cancels what the registry names.
- `LeasesTruthful`: from the inductive `Runs`: the numbers in use are the first ones (`Numbered`), a
  run has no lease before it begins (`Unbegun`), registry and bodies agree (`Registered`, `Owned`),
  and a server that is down has nothing alive (`DownIsDead`), which is what makes the boot's
  reconciliation of every lease right.
- `ExecutedOnce`: `OncePerInstant` is not inductive, since it says nothing of runs that have yet to
  begin. `Once` is: no run is for an instant to come (`Come`), the stamp of a run covers its instant
  unless an update has reset it (`Stamped`), and no two runs that have begun or still may are for
  one instant (`OneEach`). The catch-up asks for a `last_run` that is there and older than the
  instant, which `Stamped` denies once a run for it has begun.
- `FileFollowed`: from `Followed`. The change that a trigger has to follow (`behind`) is under way and
  still knows what the file says of the job, since any later one would have taken its place
  (`Settles`): an "arm" that the job is stored and wanted or stamped, an "unarm" that nobody wants it,
  a "drop" that it is gone. A stamp, which looks at no change, keeps all three.

Only model-checked: the liveness properties `Settles`, `SlotFreed`, `ToolReturns` and `RowCloses`
(liveness under fairness and ENABLED are outside what the prover handles), and the four properties
that a run shows violated. Of these, `InboxHasReader` and `OneRunWorks` have a theorem that says when
they do hold or what breaks them (`QueuedIsRead`, `OnlyResumesOverlap`), and `CutsUnsized` says which
calls break `AnswerKeepsServer`. No module uses a recursive operator, so nothing else is out of reach
for the way it is written.

## 7. Plan

1. Chat turns: modelled, checked and proved. Next: what of `DeliversOnce` is left when one window
   of two answers a card.
2. Shell tasks: modelled, checked and proved. Next: the parts of `FirstLife` that survive a restart
   when the leader of a command outlives its group.
3. On-device serving: modelled, checked and proved. Next: the models manager's tool check as one
   more caller.
4. Agents: modelled, checked and proved. Next: the composition of a report with `AgentWake`, of
   which both modules now have one end each.
5. Cron: modelled, checked and proved. Next: the `orphaned` mark and the repointing of history.
6. Workflows and their journal; the tool batch with its approvals, in place of the single phase of
   `ChatTurns`.

## 8. Not modelled

`PROJECT.json` lists every component with its status. Left out for good are parts whose state is
data rather than control (the index, memory, documents, search, recording) or somebody else's (MCP,
the views, the macOS shell). Within the modelled parts: the contents of turns and rounds, limits that
only refuse, pruning of old rows, database errors, the order of cards and messages, and the windows
around `_track` (`server/tasks/handoff.py:141`) and around the spawn of a background command, in which
a Stop finds nothing to stop.
