# NOOA: a TLA+ verification project

This directory models the core of NOOA (NVIDIA-labs Object Oriented Agents), a Python
framework in which agents are objects whose methods a language model implements. The
source is `src/src/nooa/`; the companion packages are under `src/packages/` and
`src/util/`. File names below are relative to `src/src/nooa/` unless they say otherwise.

The modules are model-checked with TLC on small instances, and every safety property that
a passing run checks is proved for every value of the constants with TLAPS. `PROJECT.json` lists the components,
the runs, what each definition models (file and lines), the mutants that show that each
property can fail, the hazards, the findings and the theorems.

    tlc -workers 2 -config MCBroker_budget.cfg MCBroker     # one run
    tlapm BrokerProofs.tla                                  # one proof module

## 1. Inventory

NOOA is a set of cooperating parts in one process, plus worker processes and child
processes. Almost everything runs on one asyncio loop, where the unit of atomicity is the
stretch between two awaits; the hard behaviour is at the borders: other threads, other
loops, other processes, cancellation, and storage that survives a crash.

### Parts that carry the core logic

| part | state it keeps | operations | talks to | what is hard | what makes it correct |
|---|---|---|---|---|---|
| process-local admission (`unifiedllm/admission.py`, `cooldown.py`) | per group: slots in use, FIFO of waiters, pacing and cooldown gates | acquire, grant, release, cooldown report, give up | tasks of several loops in several threads, through a lock and `call_soon_threadsafe` | a grant races a deadline or a cancellation; the head of the queue owns the only timer; a loop closes with waiters on it | no slot leaks, at most `max_in_flight` attempts, FIFO, pacing, no lost wakeup, everyone is served |
| multiprocess admission (`unifiedllm/broker_admission.py`) | broker: queue, slots, reservations, committed calls, gate, timer; one handler per connection; children: pool of connections | request, offer, accept, ready, acquired, confirmed, cooldown, release | parent and child processes over TCP | a child dies or gives up anywhere in the handshake; a pooled connection is reused; late answers; shutdown | counters are exact, budget is committed once per call, slots are bounded and come back, FIFO, pacing, no lost wakeup |
| channels (`runtime/channels.py`) | per channel: items, waiters; manager: notify event, registered channels | put, get, drain, remove, clear, flush, `race()` | producers on the loop and on another thread, dispatcher | losers of a race hold items; cancellation after a wakeup; a put between the test and the registration | items are neither lost nor doubled nor reordered; nobody sleeps on an item |
| event log (`runtime/event_manager.py`, `event_backend.py`, `storage/sqlite.py`) | stored events, archived tags, the active view, the tag counter | add, collapse, remove, clear, reopen | summarizers, prompts, other threads and managers, SQLite | collapse is several transactions; tags come from two counters; positions in SQLite have gaps | the view is ordered and complete, tags are stable and not reused, nothing listed is missing |
| sandboxed cells (`runtime/sandbox/executor.py`, `worker.py`) | the lock, the current worker, reader threads, the two directions of a pipe | run_cell, brokered `self.*` calls, restart, aclose, close_sync | CodeAct, worker processes, a reader thread per cell | workers crash, hang and linger; cancelled cells leave a thread behind; teardown has awaits | replies reach their callers, a cell finds the worker at rest, every cell ends, no process is forgotten |
| event callbacks (`event_manager.py`, `middleware.py`, `hooks.py`) | subscribers, middleware, cleanup callbacks, the drain task | subscribe, emit, on_close, aclose | tracing, tools | several owners share a drain, and one is cancelled in it | every cleanup runs to its end before its owner goes on; aclose ends |
| jobs (`runtime/channels.py`) | tasks and the channels they feed | spawn, cancel, remove_channel, shutdown | agents, the dispatcher | cancelled before the first step, twice, while cleaning up; a canceller that is cancelled | a stream ends once and last; after a cancel the job is down |
| summarizers (`agents/summarization.py`) | a fork and its source, a task and its range, a pending text | fork, hold back, apply, close | event log, llm, actor | the source was chosen before the answer arrived; concurrent calls | a summary stands for what its request showed and is neither lost nor overwritten |
| actor (`runtime/actor.py`, `method_wrapper.py`) | generation lock per loop, the in-session flag | call, nested call, archive on a context error | strategies, event log | nested calls of agents on each other; the lock is replaced when the loop changes | callers from outside take turns, nobody deadlocks |
| strategies (`strategies/codeact*.py`, `pure_python.py`) | iteration, error and text budgets, the turn's state | turn, execute, validate, return | actor, sandbox, llm client | four counters, reset at different places; errors that leave through several handlers | the loop ends, and its record is complete |
| llm client (`unifiedllm/unifiedllm.py`, `retry.py`, `controlled.py`) | attempt counters | attempt, back off, give up | admission, providers | two retry budgets, one counter | bounded attempts |
| shell (`tools/_bash_session.py`, `shell_tools.py`, `shell_lifecycle.py`) | a bash process, its pipes, a lock, the jobs to spare | run, run_stream, time out, recover, reset, close | agents | late reports after a time-out; a lock replaced under its holder | an answer belongs to its command, background processes are spared or collected, calls end |
| ACP server (`src/packages/nooa-acp/src/nooa_acp/`) | the turn of a session, the active task, cancel_complete, the bridge's queue | prompt, slash command, cancel, close | client, channels, jobs, agent | cancellation against the end of a turn and the next prompt; a pump that dies under those who flush | turns do not mix, the answer is the last word, nobody waits for ever |
| storage (`storage/manager.py`, `sqlite.py`, `snapshot.py`) | session file, flock, snapshots | open, resume, snapshot | event log | two processes, one session | one writer |
| MCP client (`mcp/`) | connection task, token store | connect, call, reconnect | servers | reconnect under way while a call starts | calls end |

Smaller or data-only parts (decisions, model registry, tracing and exporters, trace
viewer, atif, agentdoc, context rendering, skills, the command line, memory, bench and the
evaluation pipeline) are listed in `PROJECT.json` with the reason they are not modelled.

### How the parts interact

An agent method call enters the actor, which runs a strategy. CodeAct asks the llm client
for a turn (each provider attempt is admitted by `admission.py`, or by the broker when
several processes share a budget), records events in the event log, and runs the returned
cell in the sandbox. The cell calls `self.*` back through the pipe; a reader thread hands
the call to the parent's loop. Input for interactive agents arrives in channels, which the
dispatcher races; background jobs of the agent feed them too. Summarizers collapse ranges of
the event log between turns. In an ACP server the dispatcher runs each prompt as one turn,
and a bridge forwards the agent's events to the client.

## 2. Modules

| module | models | composes |
|---|---|---|
| `PermitPool` | what an admission controller promises: a line and at most so many inside | |
| `Admission` | one `_AdmissionGroup` and its permits | implements `PermitPool` |
| `Broker` | broker, handlers, children, sockets | implements `PermitPool` |
| `Channels` | `Channel`, `QueueManager.race()`, notify | |
| `Jobs` | `spawn`, `JobHandle`, `cancel`, `remove_channel`, `shutdown` | |
| `EventLog` | `EventManager` over either backend | |
| `Summaries` | both summarizers and the archiving of over-long prompts | extends `EventLog` |
| `Drain` | `EventManager.on_close` and `aclose` | |
| `Sandbox` | `SandboxedExecutor`, reader threads, workers, pipe | |
| `CodeAct` | one session of `CodeActStrategy` with `generate()` and `with_retry` | |
| `Generation` | the generation lock and nested calls | |
| `Shell` | `BashSession` and the bash it drives | |
| `Acp` | one live ACP session: turn, dispatcher, event bridge | |
| `Queues` | the lists that tasks, calls and callbacks wait in | extended by most modules |
| `QueueTheorems` | lemmas about lists | extended by the proofs |
| `BrokerProofs` | theorems about the counters, the queue, the pacing and the messages of `Broker`, and its refinement | |
| `AdmissionProofs`, `SandboxProofs`, `ChannelsProofs` | theorems about one module each | |
| `EventLogProofs` | theorems about `EventLog` and `Summaries` | extends both |
| `AgentProofs` | theorems about `Generation`, `Drain`, `CodeAct` and `Jobs` | extends all four |
| `SessionProofs` | theorems about `Acp` and `Shell` | extends both |
| `MCAdmission`, `MCBroker`, `MCSandbox` | small instances of one module | |
| `MCLoop` | `Channels` or `Shell` | sum of parts |
| `MCAgent` | `Channels`, `CodeAct`, `Generation`, `Jobs` or `Drain` | sum of parts |
| `MCSession` | `Summaries` (with `EventLog`) or `Acp` | sum of parts |

A *sum of parts* puts modules that share no state into one instance. The variable `part`
is chosen in `Init` and only that part moves, so a behaviour of the instance is a
behaviour of one part with the others at rest in their initial states, and every property
is about one part. Fairness is stated per part, guarded by `part`. `CallersReturn` is the
conjunction of one property of `Generation` and one of `Drain`.

### PermitPool

`line` and `inside`. A client arrives, leaves the line or comes out, and in the same step
any number of clients leave the front of the line, admitted or turned away. For
`Admission` the line is `waiters` and inside are the tasks that hold a slot, a grant that
has not arrived included; for `Broker` the line is `queue` and inside are the connections
that are offered or leased.

### Admission

`active`, `queued`, `waiters`, `next_admission`, `cooldown_until` are the fields of the
group; `wstate` and `wakeup` the fields of a waiter; `sets` and `deliveries` the callbacks
a loop has been handed and not run. A section under the lock is one action, and other
threads run between two sections. A task is suspended only in `wakeup.wait()`. Time is
relative: gates and timers hold what is left of them, and `Tick` decreases them. A failing
observer is a release without a call. A loop that closes takes its tasks with it;
`CloseLoop` is assumed not to strike a task whose grant is unclaimed.

### Broker

The variables up to `wstate` are `_BrokerState`, touched only by the broker's loop, so a
stretch of a handler between two awaits is one action. `hst[c]` is what the handler of a
connection awaits, `cst[c]` what the child's attempt awaits, `c2s` and `s2c` the bytes on
the way. End of file is a message, delivered after the data before it, unless the
operating system resets the connection (`CloseAll` may lose what was sent). Data for an
end that is gone is dropped. `OfferAvailable` is the loop of `_offer_available` in closed
form: every operation of the state ends in it. The pool of a child is any of its idle
connections (the code takes the newest). The delay a cooldown report carries is chosen
when it is handled. Left out: binding the socket, diagnostic counters, controllers used
from several loops.

### Channels

Consumers are tasks of one loop: they run from one await to the next. Ready tasks run in
any order, which includes asyncio's. A put from another thread is one step for each access
to shared state (append, wake, notify), and the loop may be in the middle of the test and
the registration in `get()` (`running`). `race()` starts its drains, waits for the first,
puts back what losers took and reaps them; it can be cancelled at any await. `origin` and
`fate` are history.

### Jobs

A job is a coroutine or an async generator whose code is free: it yields, fails, ignores a
cancellation, or takes any time to clean up. A channel is the sequence of what the jobs
put on it and announced. The steps of the wrapper that `spawn` creates (deliver, announce,
close the generator) are actions; so is each await of a canceller.

### EventLog

Tags are sequences, `<<5>>` for "5" and `<<2, 40>>` for "2..40". `pos` is the view in
either backend; unlisting renumbers a list and leaves a gap in the table. In SQLite each
transaction is a step of its own: a collapse archives, unlists, finds the index, stores
the summary, moves and places, and the process may die (`Reopen`) or a statement may fail
between any two. `store()`'s retry after an I/O error is one step. `clear()` is used on a
manager nobody else writes to. `ids`, `given` and `dropped` are history.

### Summaries

Turns of concurrent calls, one step from one await to the next. A request is recorded with
the set of (tag, id) pairs it shows (`source`); the fork's source, its text and the claim
it makes when it is applied are compared with what `collapse()` then replaces. While a
handler or a `collapse()` is under way no other step is taken. The log starts with the Task
of the method that was called. A call whose prompt is too
long archives the middle of the view in the same way.

### Drain

Owners, the shared drain task, the cleanup callbacks in the order in which they were
registered. An owner that is cancelled keeps waiting; a loop that shuts down may cancel
the drain itself. A callback that closes again, or a task it started, returns at once
(`AcloseWithin`).

### Sandbox

Coroutines take one step from one await to the next; a reader thread one step for each
shared access (look at `_conn`, poll, check the process, receive, serve); a worker one
step per message. The parent's end of a pipe is open exactly while the worker is
`current`. Terminate and kill mark a worker `doomed`, and `WorkerKilled` takes it away
later. Deadlines are abstracted: a reader that looks may find its deadline passed. The
clock of a cell stands still while one of its calls is served. A broker timeout cancels
the call's coroutine before `run_cell` goes on. `recovery` is chosen in `Init`.
`OneSession` is the way CodeAct uses the executor; without it, several callers share it.
What a cell computes, the codec, the kernel guards and error texts are left out.

### CodeAct

`phase` is where the session is in `_run_generation`; `iteration`, `error_count`,
`api_errors` and `text_only` are its counters, `attempt` that of `with_retry`. The model's
answers, what a cell does, whether a value is valid and the verdict of the loop guard are
chosen freely. `entry` and `unanswered` are the tool calls recorded without a result,
`finals` the AfterTurn events with `is_final`. `max_iterations` is set; its default is `None`
(`config/strategy_config.py:66`), and then nothing bounds the turns.

### Generation

A call has an agent, a caller (none outside a session) and a kind. Outside, a call whose
strategy needs the lock queues at it; inside, it runs inline or in a child task and takes
none. `LoopDies` takes all calls of a loop with it and leaves the lock behind.

### Shell

Calls run on one loop; bash reads its stdin, runs a command, reports on the control pipe
and dies beside them. A time-out interrupts, escalates and reads on to the sentinel, or
replaces the shell. `MaxTrouble` bounds mishaps (deaths, failing starts, cancellations, a
new loop). `disturbed` marks shells in which a call was abandoned. With `Joined`, nobody
calls while others are on a lock that was replaced; without it callers find the new lock
free, which is finding `shell_serial`.

### Acp

`prompt`, `cancel` and `closer` are where the requests are; `holder` is the turn of
`SessionRuntime`; `dispatcher` its three fields; `work` the task of each prompt, `told`
whether it is being cancelled, `heard` the prompts whose text it was given; `card` one
tool call per turn, as the client sees it, which `fail_open_tools` marks "failed" whether
or not the turn is over; `bridge` the queue, the pump and its error;
`marker` the futures that `flush()` waits for. A task may ignore a cancellation, since the
agent's code may, and so may `race()` (below). Left out: creation, loading and replay of
sessions, the registry, start-up updates, request tasks cancelled by the SDK, updates of
jobs.

## 3. Runs

Every property of a passing run has a mutant: a plausible slip in the code, under which
TLC finds the property violated.

| run | instance | shows |
|---|---|---|
| `admission_pool` | 3 tasks on 2 loops, 2 slots, cooldown, 4 acquisitions, loops may close | `SlotAccounting`: slots are conserved; `ImplementsPool`: granted in order and bounded |
| `admission_live` | the same with 1 slot and pacing, 3 acquisitions, fair | `NoLostWakeup`, `PacedAdmissions`, `WaitersServed` |
| `broker_budget` | 2 children, 3 connections, 2 slots, 2 calls, 4 attempts | `Accounting`, `BudgetExact`, `InFlightBounded`, `AnswersMatch`, `ImplementsPool` |
| `broker_live` | 2 slots, pacing and cooldown, one child with a stale token, 3 attempts, fair | `QueueServed`: the timer is armed exactly when needed; `PacedAdmissions`; `QueuedLeaves`: the queue drains; `LeaseReclaimed`: slots of dead children come back |
| `loop_parts` | 2 channels, a dispatcher and a task in `get()`, 2 items; 2 calls on a shell, 2 mishaps, fair | `ItemsConserved`, `GetNotStranded`; `AnswerBelongs`, `ProcessesKept`, `ShellAnswers` |
| `agent_parts` | 1 channel, another thread, 2 items, 1 event, a loop restart; a session of 2 iterations, 2 retries, 2 tools; 2 agents, 3 calls, 1 restart; 2 jobs, 2 cancellers; 3 owners, 2 cleanups; fair | `RaceNotStranded`, `ItemsLeave`; `SessionSound`: bounded requests, complete record; `SessionEnds`; `OneAtATime`; `JobsEndCleanly`; `CloseDrains`; `CallersReturn` |
| `session_parts` | a log of 5 events in memory (one thread), or in SQLite (two writers, crashes), or in memory with 2 turns and both summarizers; 2 prompts, one a slash command, 2 cancellations, closing, 3 incidents | `ViewFaithful`, `StableTags`; `SummaryHonest`, `SummaryKept`; `TurnsKept`, `AnswersComing` |
| `eventlog_order` | 7 events in SQLite, nothing fails | violated: the view is out of order (finding) |
| `sandbox_cells` | 3 concurrent cells, 5 workers, 2 calls, 1 crash, garbage, both recovery modes, closed at any time | `RepliesReachCallers`, `CleanHandover`, `EffectsWhileAwaited` |
| `sandbox_session` | a CodeAct session of 2 cells, cancellation, lingering threads, fair | `NoOrphan`, `ClosedForGood`, `CellsAnswered`, `TornDown` |
| `sandbox_leak` | 1 cell, cancelled, and an `aclose` that is cancelled too, fair | violated: a worker runs on (finding) |
| `shell_serial` | 2 calls on a shell that dies once | violated: two shells at once (finding) |

**Bounds.** Three tasks or connections are what FIFO, a middle waiter that gives up and a
pooled connection next to a foreign one need; two slots are needed for several offers in
one pass and for slots that are returned while others are held, one slot for contention.
A budget of two calls is reached by offers that may still be returned. Pacing and cooldown
of one unit distinguish "before the gate", "at the gate" and "after". Two channels make
losers of a race, and two items of one channel make order observable. Nested, partial and
repeated collapses fit into five events, two collapses of separate ranges into seven; the
other writer of a SQLite log takes its tags until three events are recorded, which lets it
store in the middle of a collapse, between two and after a crash.
Three cells are one that runs, one in the queue and one that finds what they left; five
workers allow each to be replaced. Two iterations and two retries let each counter of a
session be reset, reached and missed. Three calls make a cycle of two agents with a caller
outside. Two cancellers meet at one job; a third owner can close in the gap between the
end of a drain and the first owner's next step. Two calls on a shell and two mishaps allow
a time-out whose recovery fails and a call that arrives meanwhile. Two prompts and two
cancellations let a cancellation meet the next turn. Bounds stop new attempts, puts,
events, cells, forks, calls and mishaps; nothing else is cut.

**Deadlock.** All runs say `CHECK_DEADLOCK FALSE`: with everything used up and closed these
systems really stop, and in a sum of parts a part that is done has nobody to go on. Being
stuck too early is what the liveness properties, `NoLostWakeup`, `QueueServed`,
`RaceNotStranded`, `GetNotStranded` and `AnswersComing` are about.

**Fairness.** Weak fairness of what an event loop runs when it is ready (handlers, tasks,
callbacks, timers), of threads in the middle of a step, of time, and of processes that were
signalled. A provider attempt ends (the client has its own timeout). A reader's deadline has
strong fairness: it is looked at in every round and is certain to have passed in some round.
A session goes on: a request ends (the client has its timeout), and `SessionEnds` is about
sessions whose cells and validations end, as `CallersReturn` is about calls and cleanups
that end when nothing they wait for is missing. On a shell, each call makes progress, its
deadline included, and a bash that was just started answers the start-up sentinel. Otherwise
nothing is assumed of crashes, cancellations, deadlines of callers, closing, new work, the
code in a cell, commands, jobs or methods of the agent. `WaitersServed` excuses closed
loops: a closed loop may take the task that owns the pacing timer with it, and the next
acquire or release repairs that. `Acp` has no liveness property, since an agent's turn and
its jobs may take for ever: `AnswersComing` says instead that whatever a request waits for
is under way.

Symmetry is used only in runs without liveness, between tasks of one loop, connections of
one child, concurrent turns and cancellations.

## 4. Proofs

Every theorem holds for any finite sets of connections, tasks, prompts and so on, and any
limits, under the named assumptions on the constants, which TLC evaluates in the runs. The
inductive invariants were checked with TLC before they were proved. `QueueTheorems` holds
what the proofs need to know of lists: what an append, a read and a removal leave, that a
list without repetitions is as long as it has members, that the first k of them are k. It
also says what the items of a list that are in a set come to (`Only`): there is one list of
them, in order, and it has the same first item when that is kept. Such facts are usually
proved by induction; here they follow from the least counterexample (`LeastNumber`).

**Broker** (`BrokerProofs`; `BrokerAssumption`).

* `TypeCorrect`: `Spec => []TypeOK`. One lemma per operation of the state (all go through
  `OfferAvailableType`), one for the sockets, one step per action.
* `AccountingCorrect`: `Spec => [](Accounting /\ CapacityKept)`. Not inductive alone:
  `enqueue` would count a connection twice if it had a waiter, and `confirm` would take
  back a reservation that was never made. `HandlerWaiter` adds what the handler's place
  says about its waiter. `OfferKeepsBooks` does the counting once for every operation.
* `WakeupsKept`: `Spec => []QueueServed`, no lost wakeup. It needs `Accounting` (a
  reservation is never negative) and `OffersExhaust`: after one pass of the loop, something
  other than the gate stands in the way of the next offer.
* `AdmissionsSpaced`: `Spec => PacedAdmissions`. The invariant `Spaced` says that the gate
  and the time since the last confirmation together cover the interval, and that a paced
  broker has at most one reservation, made when the interval had passed.
* `PoolImplemented`: `Spec => ImplementsPool`, the refinement. Every operation of the state
  is an arrival, a departure or a coming out followed by one pass of `_offer_available`;
  everything else leaves the line and the set inside alone.
* `LeasesCorrect`, `AnswersCorrect`: `InFlightBounded` and `AnswersMatch`. They rest on
  `Conversations`, an invariant on each connection: the place of the handler, the place of
  the child and what is on the way in both directions are one of the listed stages. It is
  what makes a pooled connection safe to use again, and it is per connection, so one lemma
  per party suffices.
* `BudgetCorrect`: `BudgetExact`. `BudgetBooks` relates the committed calls to the leases
  and to the children that have been told of theirs.

**Process-local admission** (`AdmissionProofs`; `AdmissionAssumption`).

* `SlotsAccounted`: `SlotAccounting`, by the invariant `Books`, which says for each task
  what its place means for the queue, the grants and the counter. `PumpDone` and `WakeDone`
  say what a section leaves; whichever thread runs next finds the books right.
* `WakeupsKept`: `NoLostWakeup`. It is inductive with `Books`.
* `AdmissionsPaced`: `PacedAdmissions`, as for the broker.
* `PoolImplemented`: the second implementation of `PermitPool`.

**Channels** (`ChannelsProofs`; `ChannelsAssumption`).

* `ItemsAreConserved`: `ItemsConserved`, with another thread and without. `ItemsKept` says of
  each channel that what was put on it and is not gone is in the channel or in the hands of
  its drain task, once, and, if only the dispatcher reads it, in order. One lemma for each
  thing that can happen to a channel (`KeptPut`, `KeptHeld`, `KeptTaken`, `KeptEmptied`,
  `KeptWithout`, `KeptBack`, `KeptWon`) is stated of sequences; `Settles` reduces the ends of
  a race to them. It needs `RaceKept`: outside a race nobody has an item in hand, and a
  drain task that was cancelled takes none any more (`NoLateItem`), which is why `race()` may
  look only at those that finished first.
* `RaceIsNotStranded`: `RaceNotStranded`, with another thread and a restart of its loop. By
  `Announced`, what arrived since a race began is followed by a notify event that is set, on
  its way through the loop, or about to be sent, and the event belongs to the loop of the race.
* `GetIsNotStranded`: `GetNotStranded`, if no other thread puts; otherwise the property is
  false (section 5). By `Served`, whoever sleeps stands in the queue of his channel, and
  when somebody sleeps on a channel at least as many tasks are awake there as it holds
  items. A put and an item given back wake one; a task that takes an item or is cancelled
  leaves an item less or wakes the next.

`ChannelsAssumption` says that there is a channel (an interactive agent registers
`user_messages`, `interactive.py:410`) and that the names of tasks differ from the two marks
for no task and the dispatcher.

**Parts of the agent** (`AgentProofs`; `GenerationAssumption`, `DrainAssumption`,
`SessionAssumption`, `JobsAssumption`).

* `GenerationsTakeTurns`: `OneAtATime`, for any number of agents, calls and loops. The
  invariant relates the line at each lock to the states of the calls in it.
* `ClosingDrains`: `CloseDrains`. The invariant says that what a drain has still to run and
  what it runs is all of what it was given and has not ended.
* `SessionsSound`: `SessionSound`, for any limits. The counters of a session are tied to
  each other and to its place (`SessionTurns`, `SessionTries`), and the record to the entry
  that is open (`SessionRecord`).
* `JobsAreCleanedUp`: `JobsEndCleanly`, for any number of jobs, channels and cancellers. Not
  inductive alone. `Announces` says of each job that the end is announced last when it is
  announced, and only once the job is over. `Followed` says that a handle which still says
  "running" is not stale without somebody who will correct it: only a task that never enters
  its job leaves it so, and such a task was told by a canceller that still waits for it.

**Sandbox** (`SandboxProofs`; `BoundsAssumption`).

* `NoProcessForgotten`: `NoOrphan`. With it goes `Holding`: who holds the lock, and which
  cell or close is about to hand over which worker.
* `ClosingIsFinal`: `ClosedForGood`, if `close_sync` is called while nobody is inside.
* `EffectsAreAwaited`: `EffectsWhileAwaited`, without cancellation of cells.
* `ConversationsSound`, `HandoversClean`: `RepliesReachCallers` and `CleanHandover`,
  without cancellation and lingering threads. The invariant `Conversation` lists the pairs
  of a reader's and a worker's place with what may be in the two directions of the pipe.

The hypotheses are those of the runs. Each excludes a behaviour listed in section 5, under
which the property is false: a cancelled cell leaves a reader thread that takes the next
cell's message, a lingering thread shares the pipe with the op loop, and `close_sync` in
the middle of a cell is followed by a restart. `NoProcessForgotten` has no such hypothesis.

**ACP session** (`SessionProofs`; `AcpAssumption`).

* `AnswersAwaited`: `AnswersComing`, nobody waits for what will not come.
* `TurnsApart`: `TurnsKept`, the turns of a session do not mix. The answer is the last word
  but for one update, which fails the tool call that a failed slash command left open; at
  most one such update is queued, and none but for these prompts.

Both follow from `AcpInv`, which says for the turn, the cancellations, the queue of the
bridge and the text on its way what each awaits from whom. `AcpSpec` is what `SessionSpec`
says of the variables of `Acp`. The names of prompts and cancellations are assumed to
differ, from each other and from the two that mark a free turn and the closer.

**Event log** (`EventLogProofs`; `EventLogAssumption`).

* `TagsStable`: `StableTags`, over both backends, with another writer, crashes and failing
  statements between any two transactions. The invariant `StoreInv` says, for each place in
  a collapse, what it has taken out of the view and not put back (`Collapsing`), and that the
  view in memory is a list: its indices are those from 0 on, each used once.
* `ViewKept`: `ViewFaithful`, in memory and with one writer. `MemoryOrdered` says in which
  gap of the view a collapse will put its summary (`Anchor`, `Gap`): the index is found
  among what is left, and is right because no listed range reaches across the one collapsed.
  `NothingHidden` says that a recorded event is listed, in the range of a summary that is,
  or among what the collapse under way will stand in for.

`ViewKept` assumes that no other thread writes to a log in memory (the code that records
events runs on the agent's loop, and `add` has no await), and that SQLite may fail: then
the property says nothing of completeness there.
Without the first, an event may be listed after one with a later number; without the second,
collapsing one summary again hides its range in SQLite (section 5).

**Summarizers** (`EventLogProofs`; `SummariesAssumption`), for any number of concurrent turns.

* `SummariesUseTheLog`: `SSpec => [][Next]_vars`, where `Next` is that of `EventLog`: a handler
  of a summarizer is a step of the log or leaves it alone. The two proofs above carry over
  with it (`TagsStableUnderSummaries`, `ViewKeptUnderSummaries`).
* `SummariesAreHonest`: `SummaryHonest`. The source of a fork that `BeforeTurn` finds fresh is
  what the view lists between its first and its last event (`FreshSource`), and in a view in
  order (`MemoryOrdered`) that is what overlaps the range of their numbers (`RangeOverlaps`);
  so what `collapse()` takes is the source.
* `SummariesAreKept`: `SummaryKept`. By `ForkInv` exactly one call waits for a fork that runs,
  and none for one that does not, and while the summarizer is open a text that is there is
  the only one that is owed. This is why a second fork cannot start over a finished one.

**Shell session** (`SessionProofs`; `ShellAssumption`), for any number of calls, shells and
mishaps, where nobody calls while others are on a lock that was replaced (`Joined`, as in run
`loop_parts`; without it two calls are past the lock, which is finding `shell_serial`).

* `ShellAnswersBelong`: `AnswerBelongs`.
* `ShellProcessesKept`: `ProcessesKept`.
* `ShellCommandsOneByOne`: `OneCommand`.

All three follow from `ShellInv`. `ShellMoves` first rewrites the actions as moves of one call
with the fields they set, which is what the rest is proved about. `Locking`: the calls under
way stand in line for one lock, and whoever is past it is the first. `Fielded` and `Kept` tie
the fields of the session to the place of that call and to the shells. `Streams` is the core
of the recovery from time-outs: what the session's shell has still to read and to report is
of one writing, that of the call that waits, with its sentinel last; so a call that has seen
its sentinel, or has replaced the shell, leaves nothing for the next one. `Heard` follows
what a call reads until it returns it. `Scripts` says that a command is written once and runs
before it reports, which is needed to know that a job cannot appear after its answer, and
`Noted` that the job of an answered call is among those to be spared.

**Only model-checked.**

* Liveness (`WaitersServed`, `QueuedLeaves`, `LeaseReclaimed`, `ItemsLeave`, `SessionEnds`,
  `CallersReturn`, `ShellAnswers`, `CellsAnswered`, `TornDown`): fairness and `ENABLED` are out
  of the prover's reach.

Every invariant that a passing run checks is stated by a theorem, and so is every action
property and both refinements. What a reader should keep in mind is under which hypotheses:
they are named with each theorem above, are those of the runs, and exclude behaviours
listed in section 5.

## 5. Findings

* `eventlog_order`: `insert_active_tag` (`storage/sqlite.py:506`) takes a list index for a
  position, but positions have gaps after a collapse. Two collapses of separate ranges put
  the second summary in front of events that precede it. In memory the order is kept.
* `sandbox_leak`: `aclose` cancelled at its join (`runtime/sandbox/executor.py:570`) does
  not reach the termination of the worker, and no later `aclose` does anything. CodeAct
  says "Guarantee the sandbox worker is torn down on EVERY exit" (`strategies/codeact.py:886`).
* `shell_serial`: `close()` replaces the lock (`tools/_bash_session.py:827`), and `reset()`
  calls it from a call that holds the old one. While that call starts the new shell, another
  takes the new lock, finds no shell and starts a second one over its fields.

Met while modelling, and kept out of the passing runs by the settings or exceptions named:

* `runtime/channels.py:360`: `get()` tests and then registers, so a put of another thread
  between the two leaves it asleep on an item; only `race()` is woken by the notify event.
  `GetNotStranded` is checked without another thread.
* `runtime/channels.py:990`: a cancellation of the dispatcher while it awaits its losers
  is swallowed with theirs, and `race()` returns an item.
* `runtime/event_manager.py:709,726`: collapsing a range that is one summary again makes
  the summary its own child in memory, and hides the range in SQLite (the tag is the same).
  `ViewFaithful` asks for completeness only where nothing fails.
* `runtime/sandbox/executor.py:334`: the reader of a cancelled cell may take the next
  cell's message; `EffectsWhileAwaited` is checked without cancellation.
* `runtime/sandbox/executor.py:237,576`: `close_sync` during a cell is followed by a
  restart; `ClosedForGood` is checked for `close_sync` on an idle executor.
* `runtime/sandbox/worker.py:457`: the op loop reads the pipe without the lock that the
  brokered calls of lingering threads take.
* `runtime/sandbox/executor.py:244`: a worker that died between two cells is replaced
  without a word about the lost namespace.
* `runtime/channels.py:86`: a job cancelled before its first step gets no `StreamEnd`, and
  neither does one whose generator fails to close; `JobsEndCleanly` excepts them.
  `shutdown` does not await jobs that `remove_channel` cancelled, and `cancel()` swallows the
  cancellation of its own caller with that of the job.
* `tools/_bash_session.py:621`: a call cancelled while its command runs leaves the report on
  the way; the next call takes its exit code, and the old readers keep the streams.
  `AnswerBelongs` excepts shells in which a call was abandoned.
* `tools/shell_tools.py:517` starts a session outside the lock, and any two calls after a
  change of the loop start two shells; a shell that died and was collected leaves its
  background jobs running; a cancellation between spawn and connect leaves a shell.
* `strategies/codeact.py:1145`: errors that leave the loop before `is_final` is set end a
  method without a final AfterTurn, although `src/skills/nooa-middleware-hooks/SKILL.md:67`
  says it "marks method completion"; `codeact.py:1684`: a postcondition that raises an
  unlisted exception leaves the tool call without a result (`SessionSound` excepts it).
  `runtime/events.py:470` promises an LLMCallEnd for every start; a cancelled call has none.
* `runtime/actor.py:608` and `src/skills/nooa-agent-authoring/SKILL.md:171` say that
  generations of an agent never overlap; those called from inside a session do not take the
  lock and may. `OneAtATime` is about callers from outside.
* `runtime/event_manager.py:285`: a callback registered in the gap between the end of a drain
  and its owner's next step is not run by an `aclose` that joins that drain.
* `agents/summarization.py:419`: `MethodSummarizer` does not look whether its range still
  holds what was summarized. An `aclose` with a request in flight may be followed by a fork.
* `src/packages/nooa-acp/src/nooa_acp/server.py:382`: when a turn ignores its cancellation, a
  cancellation that is late sets the `cancel_complete` of the next prompt, which may then be
  answered "cancelled" before its own cancellation has ended its jobs (`AnswerIsLast`
  excepts sessions in which one was ignored). A prompt that arrives while a cancellation
  shuts jobs down is an internal error instead of "busy" (`Collides`). An error of the
  unwinding task leaves `cancel()` before the jobs are shut down. A failed send is reported
  to whoever flushes next, which may be a cancellation (`event_bridge.py:324`).
* `src/packages/nooa-acp/src/nooa_acp/server.py:305-322`: a slash command that raises is
  answered "end_turn" without `fail_open_tools`, unlike a turn that ends on a generation
  limit (334-340). Its tool call stays open on the client until a later limit, a
  cancellation of another turn or the closing sends one update more about it, after the
  answer and with that turn's title (`event_bridge.py:381-401`; `close()` documents such
  calls at 412-416). `AnswerIsLast` excepts this one update (`CardLeft`).
* `storage/sqlite.py`: a failed reconnect marks the storage closed, and `close()` then keeps
  the session's flock until the process ends.

## 6. Plan

Written: the abstract pool and both refinements, a module for every part of the inventory
that holds a state machine of its own, except those in section 7, and proofs of the safety
properties of all of them. Runs of parts that share no state are merged (sum of parts).

Left, in this order:

1. A property for `MethodSummarizer`, when the repository says what a summary must stand for
   if its range has changed meanwhile (section 5).
2. `Shell` without `Joined`: what holds of two calls on two locks, once `close()` keeps its
   lock or waits for those on it.
3. The parts marked `partly` in `PROJECT.json`: creation, loading and replay of ACP sessions;
   subscribers and middleware, when one of them awaits.

## 7. Not modelled

Formatting, prompts, wording, logging, diagnostics and provider translation (data without
a protocol); tracing and its viewer (they observe); the command line; memory, decisions,
model tables and context rendering (queries and conversions). The session lock is one
`flock` call, whose guarantee is the operating system's. The MCP client hands calls to an
SDK that is not in the repository, and its reconnects are there. The evaluation pipeline
and the benchmarks start processes and collect what they print. Of the parts marked
`partly` in `PROJECT.json`, the notes say what is left out.
