# A TLA+ model of Hubcode

Hubcode runs coding agents on a developer's machine. A daemon (`packages/server`) owns the agents,
and clients (`packages/app`, `packages/cli`, `packages/desktop`) prompt, watch and cancel them over
a WebSocket, directly or through a relay (`packages/relay`). Nearly all of the daemon is
asynchronous TypeScript on one event loop: no two pieces of code run at once, but every `await` is a
point where any other request, timer or provider event may run, and most of what can go wrong goes
wrong there. These modules model those interleavings, model-check them on small instances, and
prove the central safety properties for instances of every size.

Paths below are relative to `src/packages/` unless they start with `docs/`.

## Contents

| File | What it is |
|---|---|
| `RunSlot.tla` | what an agent promises of its foreground runs, one place: an abstract specification |
| `AgentRuns.tla` | the runs of one agent id in `AgentManager`: prompt, replace, cancel, close, reload, resume; implements `RunSlot` |
| `AgentRunsProofs.tla` | its inductive invariant, its safety theorems, and the refinement |
| `TimelineSync.tla` | the timeline of one agent in the daemon, and its copy in one client |
| `TimelineSyncProofs.tla` | its inductive invariants and safety theorems |
| `ScheduleService.tla` | the scheduler: overlapping ticks, runs, commands, crashes, files |
| `ScheduleServiceProofs.tla` | its inductive invariants and safety theorems |
| `RecordStore.tla` | what one agent's stored record promises: an abstract specification |
| `AgentStorage.tla` | the record's two files, its chain of writes and the calls on it, which implement `RecordStore` |
| `AgentStorageProofs.tla` | its inductive invariant, and the refinement |
| `Dictation.tla` | a dictation from the microphone to the text: hook, sender, connection, manager, service |
| `DictationProofs.tla` | its inductive invariants and safety theorems |
| `LoopService.tla` | loops of a worker and a verifier, their stop, and the file they are kept in |
| `LoopServiceProofs.tla` | its inductive invariant and safety theorems |
| `ClientSessions.tla` | daemon clients that connect, ask and reconnect, and the sessions of the WebSocket server |
| `ClientSessionsProofs.tla` | its inductive invariants and safety theorems |
| `RelaySockets.tla` | clients that reach the daemon through the relay: sockets, nudges, handshake |
| `RelaySocketsProofs.tla` | its inductive invariant and safety theorems |
| `MC*.tla`, `*.cfg` | instances for TLC |
| `PROJECT.json` | components, runs, mutants, findings, hazards, theorems, and the source lines of each definition |

`tlc -config X.cfg MCModule.tla` runs a configuration, `tlapm M.tla` checks a proof module.
`PROJECT.json` also lists, for every checked property, a mutant: a definition of the model changed
as a plausible bug would change the code, under which TLC finds that property violated. The mutants
stand in the modules next to the definition they change, under a comment that begins "Mutant".

## Inventory

### Agent run lifecycle: `server/src/server/agent/agent-manager.ts`

*State.* `agents` maps an id to a `ManagedAgent` (lifecycle, `activeForegroundTurnId`,
`pendingReplacement`, the waiters of its turn, its provider session);
`pendingForegroundRuns` maps an id to the promise and token of the run that has the agent.

*Operations.* `streamAgent`, `replaceAgentRun`, `cancelAgentRun`, `closeAgent`,
`reloadAgentSession`, `resumeAgentFromPersistence`, `registerSession`, and
`dispatchSessionEvent`/`handleStreamEvent` for what the provider reports.

*Interactions.* Called by sessions (a client's request), the scheduler, loops and tool servers; calls
a provider session (`startTurn`, `interrupt`, `close`) and is called back by its subscription;
broadcasts `agent_state` to every client.

*What is hard.* A run is a generator that suspends in `startTurn` and then in its wait for events; a
cancel suspends in `interrupt` and in up to three waits that share a two-second timer; a replace is
a cancel and then a run; a reload is a cancel and then four awaits. All these refer to objects
captured before their awaits. The turn id is known to the manager only when `startTurn` resolves,
while the provider may report the turn's end earlier, twice, or never.

*Correct when* one run at a time has an agent; whatever is in flight is visible to
`hasInFlightRun`; an old run's cleanup does not touch a newer one; a cancel returns and has cleared
what it was asked to cancel; no run and no consumer is left waiting; clients do not see an agent go
idle in the middle of a replacement.

### Timeline synchronisation: `agent-manager.ts`, `session.ts`, and in the client `session-context.tsx`, `session-stream-reducers.ts`, `session-timeline-seq-gate.ts`

*State.* In the daemon the epoch of a registration and its numbered rows, of which the newest are
kept; in the client a cursor (epoch, first and last row), the rows on the screen, a flag that says
that the history was applied, and the init under way.

*Operations.* Recording and dispatching a row, replaying history, loading, closing, reloading;
`fetchTimeline` with its reset rule; in the client the first fetch, the catch-up after a gap, after a
first fetch and after the app comes back to the foreground, and the gate that classifies each row.

*What is hard.* The socket is ordered but the daemon's handlers are not, so live rows, catch-ups and
first fetches overlap; connections drop; a mobile client is not sent rows of agents it does not
show; a request times out and its answer comes all the same; an agent is closed and resumed (a new
epoch) or reloaded (the same epoch) meanwhile.

*Correct when* what the client shows is always a run of the daemon's rows without hole or
repetition, never goes back, catches up with the last row, and every sync ends.

### Schedules: `server/src/server/schedule/`

*State.* A JSON file per schedule (status, next time, runs); in memory only `runningScheduleIds`.

*Operations.* `tick` every second, whether or not the last tick has ended; `runSchedule`, the runner,
`finishRun`; `create`, `pause`, `resume`, `delete`; `recoverInterruptedRuns` at start.

*What is hard.* A tick acts on a list it read before it awaited other schedules' runs; every update
reads a file and writes it whole later; a write is not atomic and may reject; a crash may come anywhere.

*Correct when* a schedule is executed once at a time, whatever is due is run, what fell due while
the daemon was down is not, and status and next time agree whoever wrote last.

### Agent storage: `server/src/server/agent/agent-storage.ts`

*State.* The records by id, for each id the file it was loaded from or written to (`pathById`) and all
its files (`pathsById`), the chain of its writes (`pendingWrites`), and the ids being deleted.

*Operations.* `applySnapshot`, `upsert` with its move out of the old layout, `beginDelete` and `remove`,
`scanDisk` at start; and their callers: `archiveAgent`, `archiveStoredAgent`, unarchive, update, resume
and the two delete handlers.

*What is hard.* Calls read the cached record, await, and write the whole of it; some wait for the
chain and some do not. A write that fails rejects the chain for all that follow, and a promise nobody handles
ends the process. A move leaves two files for a while, and a crash may come between them.

*Correct when* a restart loads what readers were given; a removal removes every file; no restart
shows a mix of two writes or a record that was removed; every call returns.

### Dictation: `app/src/hooks/use-dictation.ts`, `app/src/dictation/`, `server/src/server/dictation/`

*State.* In the app the phase the user sees, the recording's chunks, the stream they were sent on and how
far; in the manager, for each stream, the next chunk, the segments committed and their texts, and
the end that was announced; in the service a buffer.

*What is hard.* Five parties that await each other: a start may be refused or time out, the connection may
drop and a new stream replay the recording, the page may be hidden, the user may confirm, cancel
and retry, segments are committed on their own, and their texts come late and in any order.

*Correct when* chunks are accepted in order without a gap, the text is in the order of what was said, a
cancelled recording gives none, and whatever happens the user can record again.

### Loops: `server/src/server/loop-service.ts`

*State.* The loop records, the map of running loops with their abort signal and promise, the chain of
writes of the one file.

*Operations.* `runLoop`, `executeLoop` (worker, shell checks, verifier, sleep), `stopLoop`, `persist`,
`initialize`.

*What is hard.* `stopLoop` aborts a runner that may be at any of some twenty awaits; each of its many `persist`
calls may fail; some ends are written and some are not; the daemon may crash anywhere.

*Correct when* a loop that shows as running has its runner, a stop that has returned left nothing running,
and a loop is over once.

### Daemon client and WebSocket sessions: `server/src/client/daemon-client.ts`, `server/src/server/websocket-server.ts`

*State.* In the client the connection state, its transport, three timers, the promise of `connect`, the
waiters and the send queue; in the server the pending connections, the session of each socket, the
sessions by client key, each with its sockets and a grace timer.

*Operations.* `connect`, `ensureConnected`, `attemptConnect`, `scheduleReconnect`, `close`, the transport's
four notices, `sendRequest`, its timeouts; `attachSocket`, the hello with or without a share token,
its timeout, `detachSocket`, `cleanupConnection`.

*What is hard.* The timers of the client race its notices, and a disposed transport may still speak. A client is back on
a new socket before the server hears that the old one is gone; a share token is validated while the
socket may close; the grace timer may fire as its client comes back; the daemon may restart.

*Correct when* no request waits for an answer that cannot come; a session is cleaned up only when no socket
is attached to it, and then it is; a client that lost its connection gets one.

### Relay: `relay/src/cloudflare-adapter.ts`, `relay/src/encrypted-channel.ts`, `server/src/server/relay-transport.ts`

*State.* In the relay the sockets by role and connection id and the frames kept for a client whose data
socket is missing; in the daemon one control socket, its timers, and a data socket for each client;
at the two ends of a data connection the state of an encrypted channel.

*Operations.* `fetchV2`, `webSocketMessage`, `webSocketClose`, `nudgeOrResetControlForConnection`;
`connectControl`, `scheduleReconnect`, `ensureClientDataSocket`; `createClientChannel`, `createDaemonChannel`.

*What is hard.* The relay cannot see that a control socket is half open, so it watches whether the daemon
reacts, nudges it, and in the end closes the socket, while the daemon has its own keepalive. A data
socket is refused, replaced or lost with frames under way; a client leaves while it is being opened.

*Correct when* a client that stays gets a channel or is told to come again, never goes on with one
that has no other end, and the daemon ends up with a control socket that works.

### Not modelled yet

These have state and interleavings worth a module; the plan below says in which order.

| Component | State and operations | What is hard, and what makes it correct |
|---|---|---|
| Permissions and attention (`agent-manager.ts`) | `pendingPermissions`, buffered resolutions, `attention` | A resolution arrives while `respondToPermission` is awaited, or while a cancel denies everything. A request is answered once, and no resolution is lost. |
| Chat (`chat/chat-service.ts`) | rooms and messages in one file, waiters | A write that fails after the message was shown. |
| Process lock (`pid-lock.ts`) | one file created exclusively | Two starters that find the same stale lock. |
| Tasks (`tasks/`) | a task file, an execution order | The order is a pure algorithm. |

These are left out, for the reason given:

| Component | Why |
|---|---|
| Provider adapters | each wraps a vendor's protocol; `AgentRuns` models what the manager relies on and, for Claude, the session's turn bookkeeping |
| Terminals | the content is a terminal emulator's; the request protocol of the worker (a request that times out is carried out all the same; a worker's exit leaves its terminals listed) is small |
| Speech and voice | audio formats and vendors' APIs; the playback confirmation has no timeout |
| Checkout diffs, workspace git state, worktrees, archive | caches of, and command sequences on, git and the file system |
| Provider snapshots, workspace scripts, indexing | probes and supervision of external processes |
| Library, rules, hooks, integrations | writers of other tools' configuration files |
| Tool servers, browser | adapters that call the agent manager or a browser |
| Bootstrap, configuration | wiring; its order is used where it matters (recovery is over before the HTTP server listens, `bootstrap.ts`) |
| App screens, desktop shell, command line, website, highlighter, audio module | presentation, or callers of the daemon |

## AgentRuns

One agent id, any number of callers (request handlers under way), runs and `ManagedAgent` objects.
A run and the turn it starts have one number; an object and its provider session have another.

| Variable | Code |
|---|---|
| `current` | `agents.get(id)`; a suspended caller may hold an object that is no longer registered |
| `agent` | lifecycle, `activeForegroundTurnId`, `pendingReplacement`, `lastError`, whether the session's subscription is on |
| `session` | the provider's own view: active turn, autonomous turn, closed |
| `run` | where the generator of `streamAgent` is, its waiter, its queue, its pending promise |
| `pending` | `pendingForegroundRuns.get(id)` |
| `call` | the callers; `pc` names the await one is suspended in, the other fields what it captured |
| `shown` | the lifecycle in the last `agent_state` |

An action is the code between two awaits: `StartRun` is `streamAgent` up to the await of `startTurn`;
`StartResolves` and `StartRejects` are its two continuations; `GeneratorEnds` is the rest of the
generator with its `finally`; `InterruptReturns`, `WaitOver`, `WaitTimesOut`, `ForceCancel`,
`StaleRunSettles` are the stages of `cancelAgentRun`, alone or inside a replace or a reload;
`ReplaceContinues`, `ReplaceFails`, `Drained` are the second half of a replace; `Prepared`,
`OldClosed`, `Register`, `RegisterEmits`, `RegisterIdle`, `RegisterEnds` are the stages of reload and
resume. `TurnStarted`, `TurnEnds`, `TurnEndsAgain`, `AutonomousStarts`, `AutonomousEnds` are the
provider's events with the manager's whole handling of each.

A rejected `startTurn` of a session that is closed or busy is a microtask, so the provider's events
(tasks) wait for it; this is the guard of `Provider`.

The switches are the liberties of the environment: `StartMayFail`, `EarlyTerminals` (a turn ends before
`startTurn` resolves), `StaleTerminals` (an end is reported again), `Autonomous`. `SerialSends` keeps
a prompt back until the previous one has started, as a single client's composer does.

Left out: permissions, attention, usage and titles, the timeline (see `TimelineSync`), and
`createAgent`, which is `registerSession` without a predecessor.

### Properties and runs

| Run | Instance | Properties |
|---|---|---|
| `agent_runs` | 2 callers, 3 runs, 2 objects, every request, every liberty | `TypeOK`, `TurnHasItsRun`, `CancelClearsTurn`, `ImplementsSlot` |
| `agent_replace` | 3 callers, 3 runs, sends and cancels, a provider that hangs or refuses | `NoIdleWhileReplacing`, `SettledRunEnds`, `CancelReturns`, `HoldIsReleased` |
| `agent_wedge` (violation) | a turn that hangs and a refused replacement | `EndedRunLeavesMap` |

Two callers are what a race of requests takes; a third lets a cancel meet two prompts. Three runs let
an old generator, its replacement and the next one exist together; two objects are the old and the
new one of a reload.

*Fairness*: every generator and every continuation goes on (the event loop runs what is ready, timers
fire, `startTurn` settles). No provider turn is obliged to end, so the liveness properties hold with a
provider that hangs for ever. The two-second timer is the reason `CancelReturns` holds, and the
mutant of that property removes it.

The passing liveness run is restricted to sends and cancels on one object without stale or early
terminals. Beyond two of these limits `NoIdleWhileReplacing` and `SettledRunEnds` do not hold (see
"What the models found"); the others stay off so that the fair state graph stays small.
`LiveRunIsPending`, `NoRunWithoutAgent` and `EntryHasItsOwner` are proved (`LiveRunsArePending`, `NoAgentNoRun`,
`EntriesHaveOwners`) and have no run of their own.

`RunSlot` is the promise. Its `holder` is the entry of `pendingForegroundRuns`, `registered` the object in `agents`,
`started` the runs that were ever started, and `active` those that are in flight: starting or streaming on the registered object, the waiter unresolved.
`StartRun` is `Enter`; a terminal event that reaches the waiter, or a rejected `startTurn`, is `End`; the generator's
`finally` is `Leave` if it still holds the entry and a stutter if not; taking the agent down is `Remove`; everything
else, the waits of a cancel, late events and events of an object that was replaced included, stutters. `Enter` needs a free place, so
"at most one run in flight, and it holds the entry" is a consequence. The abstract run stays in its place between `End` and
`Leave`; that the second always comes is what `EndedRunLeavesMap` asks and `agent_wedge` refutes.

## TimelineSync

One agent in the daemon, one client. Rows are the numbers of the `recordTimeline` calls that made
them, so two rows are equal only if they are one row.

| Variable | Code |
|---|---|
| `life`, `left` | not registered, loading, replaying history (`left` rows to go), loaded |
| `epoch`, `log` | `timelineEpoch`, `timelineRows` of every epoch, trimmed rows included; `FirstKept` is the trim |
| `copied` | what `reloadAgentSession` has copied while it awaits |
| `wire`, `req`, `online` | the ordered socket, the requests and the stage each is in |
| `cursor`, `shown`, `synced`, `init`, `focused` | the client's stores: cursor, tail and head, history applied, the init deferred, the pane |

`Record` is a row with its dispatch; `Hydrate`, `Arrive`, `Register`, `RegisterFails`, `Unload`,
`ReloadCopies`, `ReloadSwaps` are the daemon's loading; `Answer` is `fetchTimeline` with its reset;
`Focus`, `Connect`, `AppResumed` send the client's fetches; `DeliverRow` and `DeliverAnswer` are the
reducers, catch-up included; `Disconnect`, `InitTimesOut` and `DeliverError` are the failures.

Abstractions: the init deferred and the "initializing" flag are one variable; the five-minute guard of
the deferred is left out (the 15-second timeout of the request is there); the swap of a reload is one
step, and a reload does not overlap the replay of history; a mobile client's filter is a
nondeterministic loss; only messages that make messages wait for room on the wire (`HasRoom`).
Remove updates, projected limits, the reducer queue that nothing calls and rendering are left out.

| Run | Instance | Properties |
|---|---|---|
| `timeline` | mobile, 4 rows, 2 epochs, 2 slots, the daemon keeps 2 rows, a first fetch of 1; close, resume, reload | `TypeOK`, `ShownIsLog`, `NeverGoesBack` |
| `timeline_web` | web, 4 rows, 1 epoch, nothing trimmed (trimming is in `timeline` and in the theorem `CaughtUpHolds`) | `CaughtUp`, `OpenSettles` |

Four rows with two kept make a cursor fall before the first kept row; two slots make two answers, or
an answer and a live row, overlap; two epochs make every message of the first one late.

*Fairness*: the daemon's handlers go on, a load ends, and an open socket delivers. Connecting,
focusing and recording are not obliged to happen, and connections may drop for ever.

`CaughtUp` is checked for an agent that stays loaded. It does not hold otherwise, and by the code:
a live row of a new epoch is dropped without a resync (`session-timeline-seq-gate.ts`), and a fetch
answered while history is being replayed shows a part of it (`session.ts`, `ensureAgentLoaded`).
Both are in the list of hazards. `ShownIsLog` and `NeverGoesBack` are checked and proved for
`RecordsInReload = FALSE`; what a row recorded during a reload does is finding 4 below.

## ScheduleService

| Variable | Code |
|---|---|
| `file` | the JSON file of each schedule; absent, torn, or status, next time and runs |
| `running` | `runningScheduleIds` |
| `tick` | each `tick()` under way: where it is, its `now`, what is left of its list, the run it awaits, the value it is writing |
| `user` | each command that is in its put |
| `created`, `now`, `up`, `bootAt` | order of the files, clock, process |
| `executions` | `scheduledFor` of each call of the runner: history, which `MaxExecutions` bounds |
| `leaked`, `failures` | the ids that a rejected start left in `runningScheduleIds`: history, which no action reads; the writes that rejected, bounded by `MaxFailures` |

A put is two steps: the call with the value, and the end of the write. Between them the old content is
read, or, with `ShortReads`, a truncated file that does not parse; a crash may leave it torn. Every put may
reject instead, and leaves the old content or a torn file; while a file is torn, every tick's list rejects until it is deleted
or written again. What a rejection does depends on where the put is: `CompletedPutRejects` and `RunStartRejects` end the tick, and the
latter is outside the `try`, so that the id stays in `runningScheduleIds`; `RunEndRejects` is caught, tried again as a failed
run, and ends the tick through the `finally` if that rejects too (`FinishRejects`); `CommandPutRejects` ends the request;
`BootFails` ends the start with part of the files recovered.
`TickLists` is `now()` and `store.list()`; `TickCompletes`/`CompletedPut` complete a schedule;
`TickRuns`, `RunStarts`, `RunnerReturns`, `FinishReads`/`FinishFails`, `RunEnds` are one execution;
`Boot` is `recoverInterruptedRuns`, before which no request is served.

Abstractions: `list` reads all files at one time; the file removed between `readdir` and `readFile`, and
two writes that mix their bytes, are left out; the put of a schedule deleted meanwhile creates its
file again, as `writeFile` does; a put that rejects has not written all of the new content; the cadences are `everyMs` and the cron `*/n`.

| Run | Instance | Properties |
|---|---|---|
| `schedules` | 2 schedules that expire at 3, 2 ticks, 1 user, 3 commands, 1 crash, 2 rejected writes | `TypeOK`, `OneExecution`, `NoMissedRun` |
| `schedules_due` | 2 schedules, cron, 2 executions of each, 2 commands, 2 rejected writes, no crash | `DueRuns` |

Two ticks are the least that overlap, and a second schedule is what makes one of them late with its
list. One crash is enough for a restart, since a restart starts from the files alone.

*Fairness*: the timer ticks and what a tick or a command awaits comes, except the runner's end: an agent's
run may last for ever. `DueRuns` therefore says that a run that never ends does not hold up other
schedules. With two schedules, two ticks are enough for it: a tick waits only in a run, and a
schedule in a run is not started by another. `DueRuns` excepts a schedule whose own start could not be
written and the time in which a file is torn, since the code leaves both out of service (finding 15): that any other rejection
takes nothing out of service is what it says. Two rejected writes are what it takes to lose both the
success and the failure of one run, after which only the `finally` gives the id back, and two executions let the schedule be run again
then. A schedule at the bound `MaxExecutions` is listed no more and is excepted, too.

## AgentStorage and RecordStore

One agent's record: nothing in the store is shared between agents.

| Variable | Code |
|---|---|
| `file` | the two files the record may have: the project's directory, and the root, where an older layout kept it |
| `cache`, `path`, `indexed`, `deleting` | `cache`, `pathById`, `pathsById`, the ids of `beginDelete` |
| `chain`, `stage`, `rejected` | `pendingWrites` of this id: the writes not settled, how far the first is, whether the chain rejected |
| `queued`, `settled` | tickets: the promise a caller captured is the `queued`-th write |
| `call` | the calls under way, and what each captured before its await |
| `live`, `doomed`, `removed` | the agent manager has the agent; an unhandled rejection; (history) a removal came to its end |

`Snapshot`, `ReadExisting`, `Upsert`, `Returns` are `applySnapshot` and `archiveAgent`; `Update` is
what changes a stored record, which reads the cache at once, whatever the chain holds; `WriteStarts`, `FileWritten`,
`OldFileRemoved`, `WriteFails` are the body of the chained write; `BeginDelete`, `RemoveCalled`,
`RemoveLists`, `Unlink`, `RemoveEnds` are a removal. `Restart` is a crash, or the exit that an
unhandled rejection is, and `scanDisk` after it. `Quiet` says that promise continuations
run before the file system answers.

A record is its title, the call that stamped it and whether it is archived: what the calls read,
change and may lose. `LegacyLast` is the order in which `readdir` lists root and directories, which
nothing fixes and which decides the file that wins at load.

`RecordStore` is the promise: the record a restart would load is replaced by accepted writes one at a
time, in order, whole; what was not yet made may be lost; after a confirmed removal nothing is there.
`ImplementsStore` is the refinement: `stored` is what `scanDisk` would load from the files, `pending` is the chain
without a write whose new file already wins.

| Run | Instance | Properties |
|---|---|---|
| `storage` | 2 callers of every kind, 4 calls, both layouts, a write that fails, 1 crash | `TypeOK`, `CacheIsDurable`, `ImplementsStore`, `CallsReturn` |

Two callers are a race; four calls let a removal meet a snapshot that queued behind a failed
write. *Fairness*: promises run and the file system answers. A failing `unlink` stays off
(`UnlinkMayFail`): it leaves the old file, and a crash may then load the older record.

## Dictation

| Variable | Code |
|---|---|
| `recording`, `processing`, `failed`, `mic`, `partial` | the hook's state and refs |
| `opener`, `finish`, `cancelling` | where `startDictation`, the confirm and the retry, and the cancel are suspended |
| `segs`, `sender` | the sender's segments, its stream, how far it has sent, whether the start was acknowledged |
| `connected`, `up`, `down` | the socket |
| `phase`, `stream` | the manager's streams |
| `stt` | the transcription service as the manager uses it: commands not yet taken, buffer, texts it still owes |
| `take`, `given`, `dropped` | history: recordings, the texts given to the composer, the recordings cancelled |

An audio chunk is loud or silent. The text of a segment is the numbers of the loud chunks it is of, and a text
that is sent or given is the sequence of the texts of its segments, in the order in which they are joined, so that order, loss
and repetition show. Each party's handler is an action: those of the user (`StartDictation`, `Speak`,
`Confirm`, `Cancel`, `Hide`, `Retry`, `Discard`), the continuations of the hook and the sender (`MicStops`, `CancelEnds`,
`FinishContinues`, `FinishFails`, `OpenFails`, `WaitTimesOut`), what arrives, what the manager handles,
and the service (`Serve`, `Transcript`, `SttFails`).

| Run | Instance | Properties |
|---|---|---|
| `dictation` | 1 recording of 2 chunks, 2 streams, a segment for each chunk, retries, 1 lost connection, refusal, failure or timeout | `TypeOK`, `ChunksInOrder`, `TextInOrder`, `NothingAfterCancel`, `ConfirmSettles` |

Two streams are a replay, and two chunks with a segment each make transcripts that can overtake one another. One
fault at a time: a second needs a third stream, which the bound does not give. `Overlap` says whether a recording may
start while the retry of a cancelled one is still under way, which nothing in the hook prevents; it is off in the run, and
`ChunksInOrder` is claimed without it (finding 14). *Fairness*: promises and
timers, and delivery on a connection that is up; neither the service nor the network has to answer.
The final text and the cleanup that follows it after one microtask are one step.

## LoopService

| Variable | Code |
|---|---|
| `rec` | the records: status, iterations, the active iteration, the active agent |
| `run` | where `executeLoop` is, whether it waits for a `persist`, whether its signal is aborted, the result it holds |
| `stop` | where a `stopLoop` is, and whether it had found a runner |
| `running`, `agents` | `running`; the loop's agents in the agent manager |
| `queue`, `snap`, `disk` | the chain of `persist`, what is being written, the file |

`Create`, `Begin` are `runLoop`; `CallWorker` to `Wakes` are the awaits of `executeLoop`, `runWorkerIteration`,
`runVerification`; `Throws` is the catch; `Stop` to `StopReturns` are `stopLoop`; `WriteStarts`,
`WriteEnds`, `WriteFails` are `persist` (whoever waits gets the error; an error that nobody waits for ends the
daemon); `Crash` and `Restart` with `initialize`. A write serializes the records when its turn comes,
not when it was asked for, and so does the model.

| Run | Instance | Properties |
|---|---|---|
| `loops` | 1 loop of 3 iterations, a check, a verifier with 1 extra question, a deadline that may pass at any iteration, 2 failing writes, 2 restarts | `TypeOK`, `RunningHasRunner`, `StopIsDone`, `EndIsFinal`, `StopInterrupts` |

Loops share only the file, and a write carries all records; the theorems are for any number. *Fairness*: writes,
calls of the agent manager and the end of a cancelled turn; a worker's turn, a check or a sleep may
last for ever. `StopInterrupts` is about a stop that found a worker's turn: a verifier that was cancelled
is asked again for its verdict, and a shell command is not interrupted.

`EarlyStop` lets a `stopLoop` come while `runLoop` awaits its first `persist`; it is off in the run and
an assumption of the theorems, since no client knows the id before `runLoop` returns, but a prefix of
an id or a listing would do.

## ClientSessions

| Variable | Code |
|---|---|
| `client` | each `DaemonClient`: `connectionState`, its transport, `reconnectTimeout`, the deadline of an attempt, the error timer, `connectPromise` |
| `req` | the requests: queued, sent (and on which socket), answered, failed; whether the waiter is still there |
| `line` | the sockets: their state and what is under way in each direction |
| `pending`, `checking` | `pendingConnections`; hellos whose share token is being validated |
| `session`, `conn`, `byKey` | `sessions`, the `SessionConnection`s, `externalSessionsByKey` |
| `handling` | requests a session has taken and not answered |

`Connect`, `RetryFires`, `ConnectTimesOut`, `ErrorTimerFires`, `Close`, `OnOpen`, `OnServerInfo`, `OnAnswer`,
`OnError`, `OnClose`, `Asks`, `RequestTimesOut`, `QueueTimesOut` are the client; `Opens`, `OnHello`,
`Validated`, `HelloRefused`, `HelloTimesOut`, `OnRequest`, `Answers`, `OnSocketClose`, `GraceExpires`
the server; `Refused`, `Breaks`, `Restarts` the failures. What is on a socket is a set: the order
matters only for the close, which is read last. An app has two clients of one id while it changes from
a direct connection to the relay, which is why one session may have two sockets.

| Run | Instance | Properties |
|---|---|---|
| `client_sessions` | 2 clients, 1 request, 4 sockets, hellos with and without a share token, 1 loss, refusal, timeout or restart | `TypeOK`, `NoVainWait`, `SessionHeld`, `ComesBack`, `EverythingIsReleased` |

Four sockets are two for each client: the one it had and the one it comes back on. *Fairness*: timers fire,
what was sent is read, an attempt ends. Connecting, asking and closing are up to the user.
`LateVerdict` and `Impatient` are off in the run; the first refutes `EverythingIsReleased`, the second
`NoVainWait` (findings 12 and 11).

## RelaySockets

| Variable | Code |
|---|---|
| `line` | every socket: `near`, the end of the client or the daemon, `far`, the relay's, and the frames under way; `silent` is half open |
| `pending`, `nudge` | `pendingFrames`; which of the two delays of `nudgeOrResetControlForConnection` runs |
| `current`, `retry` | `controlWs`; whether `reconnectTimeout` is set (and at the start) |
| `dataOf`, `channel` | `dataSockets`; the daemon's end of the channel of a data socket |
| `shake` | the client's end |

`TakesData`, `ConnectControl` and `Connects` are `fetchV2` for its three roles; `FromClient`, `FromData`,
`ClientGone`, `DataGone`, `ControlGone` are `webSocketMessage` and `webSocketClose`; `Nudges` is either delay.
`OnSync` (sync and connected), `OnDisconnected`, `OnControlClose`, `ControlStale` (keepalive and ready timeout) are the
control socket's handlers, `OnHello`, `OnData`, `OnDataClose` a data socket's; `HelloAgain`, `Says`, `OnReady`,
`OnClientClose`, `Disconnects` are the client. `Breaks`, `FallsSilent`, `DataRefused` are the failures. The helpers
on `line` are the close handshake of WebSockets and what the runtime of Durable Objects lists; they are marked
external. A client's socket is its connection, as no client of the repository chooses the id, and a client that lost its
connection comes back under a new one (`ForGood`). The assumption on the constants says that the three kinds of sockets
are named apart. The delays of
the nudges have no length: they may come before the daemon had time to react.

| Run | Instance | Properties |
|---|---|---|
| `relay` | 1 client, its 2 data sockets, 2 control sockets, 2 frames kept, 1 failure | `TypeOK`, `ClientServed`, `StrandedLeaves`, `ControlSettles` |

Clients meet only in the control socket, whose messages name each by itself; the second data socket is the one
that comes while the first is closing, the second control socket the one that replaces the first. With
3 control sockets and 2 failures (400 thousand states, five minutes) the properties hold too. *Fairness*: timers fire,
connections are made, what was sent is read. Leaving, talking and failing are not obliged to happen.

`LateRefusals` is off in the run: a data socket that is refused or times out after both nudges is not opened
again, since `ensureClientDataSocket` has no retry and the control socket works, and the client has only
its own 15 seconds (`ClientServed` does not hold with it). Left out: keys and re-keying, several sockets under one id,
`stop()`, version 1.

`CHECK_DEADLOCK FALSE` is right in all the runs: agents, users and clients may do nothing more, the
bounds end the histories, and a torn schedule file keeps the daemon from starting.

## The twelve runs

`agent_runs`, `agent_replace`, `timeline`, `timeline_web`, `schedules`, `schedules_due`, `storage`,
`dictation`, `loops`, `client_sessions`, `relay` pass; `agent_wedge` finds the violation it is for. With two workers each takes from some
seconds to three minutes; the largest are `agent_runs` (1.2 million states), `schedules` (786 thousand),
`dictation` (543 thousand states), `storage` (209 thousand) and `client_sessions` (135 thousand).

## What is proved

The theorems hold for every value of the constants that satisfies the named assumptions of the
modules: any number of callers, runs, objects, rows, epochs, requests, schedules and ticks. The
assumptions only give the constants their types (the relay's also says that names of sockets of different kinds differ).

**AgentRunsProofs.** `IInvHolds`: the inductive invariant is `TypeOK`, `CoreInv` and, for every
caller, `CallOK`. None of the properties is inductive alone. That two runs are never in flight
(`OneRun`) follows from `LiveRunIsPending`, since there is one entry. `LiveRunIsPending` is kept by the
token comparison in `settlePendingForegroundRun` and because a generator ends only when it was woken,
and then waits no more: this is in `AgentsAreSound`, beside which object a run belongs to.
`TurnHasItsRun` ties the registered agent's turn to the run that waits for it. A forced cancel acts on what it captured before its awaits, so `CallOK` says what these
captures still mean: the captured turn was started on the captured object, and, past the
timeouts, is no longer active. From `IInv` follow `TypeCorrect`, `TurnsHaveRuns`, `LiveRunsArePending`,
`OneRun`, `NoAgentNoRun`, `CancelsClearTurns`, and the action property `EntriesHaveOwners`.
`RunsImplementSlot`: every step of the manager maps to one step of `RunSlot` or to a stutter. One lemma per kind of step shows
what becomes of the runs in flight (`DispatchSlot`, `StartRunSlot`, `GeneratorEndsSlot`, ...); the invariant is needed for a
woken generator (its run is over before it leaves), for taking an agent down (no run belongs to no object) and for a registration (no run
belongs to an object before it is made).
`NoIdleShown` proves `NoIdleWhileReplacing` for the environment of `agent_replace` (`QuietEnvironment`) with any number of clients, runs
and objects; outside it the property is false (see "What the models found"). It needs three more invariants: `TurnsAgree`, that the provider's
session has no turn but that of the agent's run and that clients were shown the lifecycle the agent has; `AgentStays`, with the
observation that a refused run keeps the entry, so that nothing starts beside it; and `OneSends`, that one prompt at a time is on its way. An end that could
show idle would then be the end of a turn beside a run that is starting, and a replacement that fails is the only one.

**TimelineSyncProofs.** `TInvHolds` (types, and that no message or cursor names a row beyond those
recorded) holds always. `SoundHolds`, `ShownHolds`, `OrderedHolds` and `NeverGoesBackHolds` assume
`~RecordsInReload`, the case `timeline_reload` refutes. `Sound` strengthens `ShownIsLog` to the
messages: every live row and every answer under way is a run of the log, and stays one because the
log only grows; the lemma `RunsJoin` is the arithmetic of the accept path. `Ordered` strengthens
`NeverGoesBack`: whatever is on the wire is not before what is shown and not beyond the log, in the order of the
wire, which is why a late answer cannot move the cursor back. `CaughtUpHolds` is for an agent that stays loaded
(`~Unloads`) and a client that is not mobile, whatever is trimmed and however short the first fetch is. Its invariant
has three parts: `Rising`, that the last message under way goes up to the daemon's last row and an answer to a catch-up never starts beyond
what is shown; `Matched`, that answers under way and answered requests are the same; and `Asked`, that a client on screen that
lacks rows has a request or a message under way, and an init a request of its direction.

**ScheduleServiceProofs.** `TypeCorrect` (with `TickShape`, what a tick holds in each of its stages).
`OneExecutionHolds`: `OneExecution` is inductive with the types and with `OInv`'s second part, that no id under way is a leaked one,
because the test of `runningScheduleIds` and the insertion have no await between them and every way out of the `try` passes the `finally`.
`LeakedRunsNoMoreHolds` states the defect of finding 15 for every instance: a leaked id is not executed before the next start. `NextMatchesStatusHolds` and
`NoMissedRunHolds` rest on `SInv`: every file, every entry of a tick's list and every value in a put is
`Good` (active exactly if it has a next time, that time after the last boot, completed only when it
should complete), so that a stale value written late is as good as a fresh one. A crash empties the
ticks and the commands, and `Boot` makes the files `Good` for the new boot time (`RecoveredGood`, with
`NextAfterLater` for the iteration of the cadence). `FinishedGood` needs that a completed
schedule cannot be made active by the end of a run: the ended runs only grow (`EndedGrows`).

**AgentStorageProofs.** `StorageTypeOK` holds always. The rest assumes `~UnlinkMayFail`. `StorageInv` is the
inductive invariant: a ticket is settled, on the chain, or rejected; the index lists exactly the
files there are, and `path` is the one that wins; while the first write is `moving`, both files are there and the
new one is its record. `StorageCacheIsDurable` and `StorageFilesAreIndexed` follow.
`StorageImplementsStore` is the refinement, `Spec => Store!Spec`: every step of the chain, of a call and of a crash
maps to one step of `RecordStore` or to a stutter, in either order of `readdir`; the move is why the mapping
has two cases (`Unmade`).

**LoopServiceProofs.** All under `~EarlyStop`. `LoopsInv` says, for each place of `executeLoop`, what holds of
the record, of a stop under way, of the agents and of the map of running loops (`RunFine`, `StopFine`,
`AgentsFine`), that a queued write of a runner is one it waits for, and that every record in memory, in the
write and in the file is `Sound`. From it `LoopsTypeOK`, `RunningLoopsRun`, `StopsAreDone`, `EndsAreFinal`
(`Touches`: a step that changes a record changes one that is not over), and two that have no
run of their own: `SuccessesAreLast` and `AgentsTakeTurns`.

**ClientSessionsProofs.** `SessionsTypeOK` and `SessionIsHeld` hold for all constants; the latter is inductive with
the types and what is known of a socket in `pending` or in `session`, late verdicts included.
`NoRequestWaitsInVain` assumes `~Impatient`: what it needs is that a reconnection timer is never set while a
client is connected, which `connect` on a waiting client would break. Its invariant follows a sent
request from the socket to the session that handles it and back, and says that a client that still
thinks it is connected to a dead socket has the notice of its loss on the way.

**DictationProofs.** `TypesHold` and `GivenInOrder` hold always, for recordings, segments and streams of any number.
`GivenInOrder` (`TextInOrder`) rests on this: a final text of the service is tied to a committed segment of its
stream and is the text of that segment's chunks, whenever it comes; the
manager joins what it holds in the order of the commits; so whatever is on its way down, in the
sender or in the hook is in order, although transcripts overtake one another. `CancelledGivesNothing` (`NothingAfterCancel`) needs
the attempt guard: a continuation of the recording that was cancelled finds another number.
`ChunksStayInOrder` assumes `~Overlap`. Its invariant has three parts: `Wire` (the chunks on the socket are numbered, come after
the start of their stream, and join those the manager holds and those the sender has still to send), `NoGap` (the acknowledged
stream of a live connection misses nothing, or nobody will send on it what comes after a gap), and `Recording` (what the flags of the hook
say of the microphone and of those who end a recording, which `NoGap` needs after a reconnection).

**RelaySocketsProofs.** For any number of clients, data and control sockets, and with every failure. The inductive
invariant `Inv` is `TypeOK`; `Wired`, that every socket is `Sound`: what its two ends and the
frames under way may be together; `Dials`, that the daemon's control socket is open, or there is none and a timer for one; `Held`, that a data socket that
opens or is open is in the map, and that an entry of the map is a socket that has not closed; `Freed`, that frames are kept
only for a client that is listed; and `Answered`, that a client whose handshake is done, or about to be, has
a data socket whose channel has answered, or the news of its end is on the way.
For each action one lemma says which sockets it changes and how (`Touches`, `Hears`), and one lemma for each part says what
change of a socket keeps it. `TypesHold`, `AlwaysDials`, `MapsHold`, `BuffersFreed` are its parts. Two
consequences: `NoneHalfClosed`, an end that is closed has told the other, and `StrandedHear`, a client whose data
socket is gone while it is talking has a close on its way. The latter is the safety half of `StrandedLeaves`: what
remains to the run is that the close is read.

**Only model-checked.** The liveness properties (`CancelReturns`, `HoldIsReleased`, `SettledRunEnds`,
`EndedRunLeavesMap`, `OpenSettles`, `DueRuns`, `CallsReturn`, `ConfirmSettles`, `StopInterrupts`, `ComesBack`,
`EverythingIsReleased`, `ClientServed`, `StrandedLeaves`, `ControlSettles`), since fairness and ENABLED are beyond the prover.
Every invariant, action property and refinement of the runs has a theorem.

Four formulas have a theorem or a stronger neighbour instead of a run: `OneRunAtATime` (`OneRun`),
`NextMatchesStatus` (`NextMatchesStatusHolds`), `FilesAreIndexed` (`StorageFilesAreIndexed`), and `GapCloses`,
of which `CaughtUp` says what remains when all is quiet.

## What the models found

One of these is a run. The others are settings of a run's constants; the formula is in
the module, and the constants that show it are given.

1. (`agent_wedge`) A run whose `startTurn` rejects keeps its entry in `pendingForegroundRuns`
   (`agent-manager.ts:1226-1234` rethrows without settling). Every later prompt is rejected until
   the agent is closed or reloaded.
2. `streamAgent` clears `pendingReplacement` before the new turn exists, so a late end of the old turn
   is taken for an autonomous turn's and shows the agent idle. `NoIdleWhileReplacing`, `AgentRuns`
   with 2 callers, 2 runs, 1 object, requests send and cancel, `StaleTerminals` and `SerialSends`.
3. A run that starts while a reload awaits is settled without being woken, and its consumer waits for
   ever; `closeAgent` does wake it. `SettledRunEnds`, as 2 with 2 objects, requests send and
   reload, no stale terminals.
4. Rows recorded while a reload awaits are thrown away, and their numbers are given to other rows of
   the same epoch. `AppendOnly`, `Timeline.cfg` with `MaxTimelineItems = 0`, `TailLimit = 0`,
   `Mobile = Unloads = FALSE`, `RecordsInReload = TRUE`.
5. An answer that did not bring the history marks it as applied, and the first
   rows never come (`session-context.tsx:977`), while `use-agent-initialization.test.ts:5` says "uses canonical tail
   bootstrap when history has not synced yet". `SyncedFromTheStart`, `TimelineWeb.cfg` with `MaxEpochs = 2`.
6. A tick that works through an old list runs a schedule beyond `maxRuns`. `WithinMaxRuns`,
   `Schedules.cfg` with `MaxRuns = 1`, `Period = 1`, `MaxTime = 3`, two executions and commands, no expiry, no crash.
7. A snapshot that is emitted while `archiveAgent`'s own snapshot is being written read the record before the archive, and
   its write takes `archivedAt` away again (`agent-storage.ts:184-201`), although the comment there
   promises to preserve it. `ArchiveSurvivesSnapshots`, `Storage.cfg` with 3 callers, kinds snapshot and archiveAgent, no
   failures, no crash.
8. A dictation finished right after an automatic commit, before the service has said "committed",
   is finalized with an empty text (`dictation-stream-manager.ts:676`). `NothingLost`, `Dictation.cfg` with
   `MaxEvents = 0`, `Retries = FALSE`.
9. A loop that succeeds or meets its limit is not persisted (`loop-service.ts:499-504`, `539-541`), so that a
   restart shows it as stopped, while section 5 of `docs/DATA_MODEL.md` lists its status among what is stored. `EndIsStored`,
   `Loops.cfg` with no failures or crashes and `Deadline = FALSE`.
10. A loop that is stopped or out of time leaves its last iteration "running" (`loop-service.ts:567`: the
    iteration is looked for after `finishLoop` has cleared its number). `EndEndsIterations`, as 9 with `Deadline = TRUE`.
    And a stop before `runLoop` has returned marks the record, and the loop starts all the same: `EndIsFinal` with
    `EarlyStop = TRUE`.
11. `attemptConnect` has no guard for a client that is connected, so a reconnection timer left by a `connect`
    that came meanwhile would throw a good connection away. `NoVainWait` with `Impatient = TRUE`; no caller in the
    repository does it.
12. A share token validated after its socket has closed attaches the closed socket to a session, whose grace
    timer then never starts (`websocket-server.ts:936-955`). `EverythingIsReleased` with
    `LateVerdict = TRUE`, `Shares = {TRUE}`.

13. A client leaves while the daemon opens its data socket and the control socket is lost: the relay takes a
    data socket whose client is gone, the sync that follows does not prune it, and the daemon keeps it with
    a handshake that never comes. `OrphansClose`, `Relay.cfg`.

14. A retry that outlives the cancel of its recording ends in `handleDictationFailure`, which says that nothing is
    recorded (`use-dictation.ts:218-237`) while a new recording runs. If the connection is then lost, the reconnection does not
    start the stream anew, because it asks that flag (`:147-161`), and later chunks follow a gap. `ChunksInOrder`,
    `Dictation.cfg` with `Overlap = TRUE`, `MaxStarts = 3`, `MaxRecordings = 2`, `MaxEvents = 2`.

15. `runSchedule` adds the id to `runningScheduleIds` (`schedule/service.ts:293`) and awaits a put (`:310`) before the
    `try` whose `finally` takes it out. If the put rejects, the id stays, and every tick skips the schedule (`:236`) until
    the daemon restarts, though nothing runs. `DueAlwaysRuns`, `SchedulesDue.cfg`; `LeakedRunsNoMoreHolds` proves that it stays so.

Read in the code on the way, without a run of its own:

- the type `ManagedAgentIdle` says that an idle agent has no foreground turn
  (`agent-manager.ts:214-217`), but the end of an autonomous turn sets a running foreground turn's
  agent idle;
- of two `replaceAgentRun` that overlap, the loser's `finally` may show idle while the winner starts
  (`agent-manager.ts:1375-1381`);
- `registerSession` checks for a duplicate before an await, and two resumes of one id can both pass;
  it sets `idle` after its awaits whatever happened meanwhile, and subscribes to the session last;
- Claude's session can end a turn before `startTurn` has resolved; the manager then sets the turn
  active after its end, and only a cancel frees it;
- the stores are written in place, while `docs/DATA_MODEL.md:3` promises a temporary file and a rename;
- `maxTimelineItems` is set nowhere in production, while the documents speak of 200 items;
- the daemon ignores a connected message while the old data socket of that id is in its map, which only an id
  that is used again would meet;
- `close()` of the daemon client drops the promise of `connect` without settling it
  (`daemon-client.ts:963-985`), and a request whose waiter timed out stays in the send queue and is
  sent all the same;
- `retryFailedDictation` does not ask the attempt guard (`use-dictation.ts:384-407`), so that a retry may
  hand over a text after the page was hidden; a confirm pressed during a cancel takes the cancel back.

## Hazards beyond the list

`PROJECT.json` lists forty hazards. Further ones: a live row of a new epoch is dropped
without a resync (`session-timeline-seq-gate.ts:23`), an agent whose history is being replayed is handed
out as loaded (`session.ts:1604`), a remove update deletes the cursor and leaves the rows
(`session-context.tsx:799`), writes in place that a crash tears (`schedule/store.ts:56`, `loop-service.ts:879`), a recovery that
marks one interrupted run of several (`schedule/service.ts:258`), two maps of agents being
initialized (`:445`), several client sockets under one id and their re-keying (`cloudflare-adapter.ts:453`,
`encrypted-channel.ts:309`), and the lock that two starters both find stale (`pid-lock.ts:80`). The models
have the new epoch, the replay, the torn writes and the recovery, where no property survives them or a
constant keeps them out of a run; the others wait for their modules.

## Coverage

The repository has some three hundred thousand lines, of which the modules map a small part. Most of the rest is
screens and components of the app, adapters to vendors' protocols, message schemas, and commands run on git
and the file system: code without a protocol of its own, in which a model would only repeat the text.
Of `session.ts`, the largest file of the server, most is a dispatch of requests to the services that are modelled here.
No component is called "modelled", since each has operations outside its module; the
notes in `PROJECT.json` name them.

## What is left

In this order; a module comes with its configuration, its mutants and, where its properties are safety
properties, its proofs.

1. `AgentPermissions`: requests, answers, buffered resolutions, cancels that deny. To prove: a request
   is answered at most once; a resolution leaves the buffer only by being dispatched or with its
   provider's failure.
2. `SecureChannel`: several sockets under one connection id and the re-keying of the channel, beside `RelaySockets`:
   the two ends agree on the key.
3. `ChatStore`, `ProcessLock`; the order of tasks and the search for the next cron time as functions
   against a reference definition.
4. To prove: a replicated log that `TimelineSync` implements, from the invariants above.
