# Formal models of Chibu

Chibu runs a fleet of *pi agents*. A control plane (FastAPI, one process, one
event loop, one SQLite file) starts an *agent server* process per agent; each
agent server holds one `PiAgent` object, serves gRPC, and drives a
`pi --mode rpc` subprocess over its stdin and stdout. This directory holds TLA+
models of that program, TLC configurations that check them on small instances,
and proofs checked by TLAPS. Paths below are relative to the repository
(`src/chibu/...` is written `chibu/...`).

```
client --HTTP--> routers/agents.py --spawn/kill--> agent server (grpc_server/server.py)
                   |        |                          |  gRPC Execute / Reload
                   | session| (SQLite, one writer)     v
                   v        v                       PiAgent (agent/pi_agent.py)
        process/manager.py  registry/agent_registry.py  |  stdin/stdout, SIGTERM/SIGKILL
                                                        v
        honker queues + workers (reload, snapshot)     pi --mode rpc
```

| module | what it is | extends |
|---|---|---|
| `ExecuteStream` | what a client of Execute is promised: an abstract specification | |
| `PiAgent` | one agent server and its pi processes | instance of `ExecuteStream` |
| `SseExecute` | the dashboard's SSE handler and the gRPC client, composed with the agent server | `PiAgent`, instance of `ExecuteStream` |
| `AgentService` | what the operator of a fleet is promised of rows and servers: an abstract specification | |
| `AgentLifecycle` | the control plane's handlers, database and process manager, and the agent servers seen from outside | instance of `AgentService` |
| `Directory` | what a client of the registry is promised: an abstract specification | |
| `Registry` | creating and deleting agents and chiboos, ports, collisions and retries | instance of `Directory` |
| `JobQueue` | what a queue with a bounded number of attempts promises: the actions that the next two share | |
| `EditPromise` | what the author of a skill or an extension is promised: an abstract specification | `JobQueue` |
| `SnapshotCopy` | what a reader of the snapshot file is promised: an abstract specification | `JobQueue` |
| `HotReload` | edits of skills and extensions, the reload queue and its worker, the restart of pi | instance of `EditPromise` |
| `SnapshotFlush` | what handlers announce beside their transactions, the snapshot queue and its worker, the snapshot file and its readers | instance of `SnapshotCopy` |
| `LogTail` | the log file, the watchdogs, the notifications and the log viewers | |
| `MCPiAgent`, `MCSseExecute`, `MCLifecycle`, `MCRegistry`, `MCHotReload`, `MCSnapshot`, `MCLogTail` | instances for TLC: symmetry, and the functions a `.cfg` cannot write | the module they are named after |
| `PiAgent_proofs`, `SseExecute_proofs`, `AgentLifecycle_proofs`, `SerialLifecycle_proofs`, `Registry_proofs`, `HotReload_proofs`, `SnapshotFlush_proofs`, `LogTail_proofs` | theorems and their proofs | the module they are named after and `TLAPS`; `SseExecute_proofs` also `PiAgent_proofs`, `SerialLifecycle_proofs` also `AgentLifecycle_proofs` |

## 1. Inventory

**Pi agent** (`chibu/agent/pi_agent.py`, `grpc_server/servicer.py`, the end of
`grpc_server/server.py`).
State: `_proc`, `_busy`, `_status`; suspended `execute` generators; the pipes to
pi. Operations: `execute` (Execute RPC), `stop`, `start`, `restart` (Reload
RPC), shutdown on SIGTERM. Interacts with pi by lines and signals, with clients
by a stream that may be cancelled at any await or yield.
Hard: the busy flag is tested and set around awaits; `stop()` clears it under
an execution in flight; `_proc` is re-read at every line; restarts overlap;
pi may die, fall silent, stop reading its stdin, ignore SIGTERM or write garbage;
a timed-out execution leaves pi answering into the next one's reads.
Correct when: streams are well formed, the busy flag excludes and is always
released, outputs of two clients do not mix, status is truthful, no pi process
is lost, everything ends. Not all of this holds: section 3 says where it does and
section 11 where it does not.

**Agent lifecycle** (`control_plane/routers/agents.py`, `process/manager.py`,
`registry/agent_registry.py`, `db/engine.py`, `control_plane/app.py`).
State: the agents' rows, sessions and the write lock, `_procs`,
`_orphan_pids`, the ready files, the server processes. Operations: start, stop,
delete, status, crash and `recover_running_agents`.
Hard: handlers decide on rows they read before awaits of up to 30 seconds; one
holds the write lock meanwhile; the process manager forgets processes before
they have died; a crash rolls rows back but leaves processes.
Correct when: rows and processes agree, no server is lost, requests end, the
lock is never stuck.

**Registry** (`registry/agent_registry.py`, `db/models.py`,
`control_plane/routers/chiboos.py`). State: groups, agents, ports, agent events.
Operations: `get_or_create_group`, `create_agent` with its port retries,
`delete_group`. Hard: `_next_port` reads before it inserts; the rollback of a
collision also undoes the new group whose id the next attempt uses; group
deletion checks for agents and then deletes. Correct when: ports and ids are
unique, every agent has a group, a failed create leaves no lock and no row.

**Honker queues and workers** (`honker/_queues.py`, `_workers.py`, `_db.py`,
`_streams.py`; the honker library is external). State: jobs with attempts and
visibility deadlines, one worker task per queue, notifications. Operations:
enqueue, claim, ack, retry with backoff, worker stop, log watchdog. Hard: a
reload may take longer than its 20 second visibility, so that its ack is late and
the job is delivered again; a handler edits the workspace on a status it read
before; enqueueing goes through a connection of its own, may fail behind a handler's
write lock and is swallowed; a claim, ack or retry that raises ends its worker.
Correct when: every skill or extension change reaches pi or dies after its
attempts, and the snapshot reflects the rows.
`HotReload` models the reload queue, `SnapshotFlush` the snapshot queue.

**Log tail and watchdog** (`control_plane/routers/ws.py`,
`honker/_workers.py`). State: offsets into a growing file, subscriptions, the
table of watchdog tasks. Hard: the gap between reading the tail and taking the
offset; two watchdogs of one agent; sizes in bytes used as counts of characters;
a watchdog that ends on a locked database; notifications pruned before they are
taken. Correct when: a viewer sees every line once and in order. Modelled in
`LogTail`.

**SSE execution** (`sse_execute` in `ws.py`, `grpc_server/client.py`). State: one
channel and one RPC for each browser request. Hard: the RPC may end with a final
event, an error, a cancellation or a deadline, and the browser must be told in
every case. Correct when: the browser's stream has one final event, its last.
Modelled in `SseExecute`.

**gRPC client** (`grpc_server/client.py`): `execute`, `connect` and `close` are
part of `SseExecute`; `reload` with its 30 second limit is `ReloadFails` of
`HotReload` and the cancellation `CancelReload` of `PiAgent`.

**Event stream** (`control_plane/routers/events.py`, `honker/_streams.py`):
publishing is part of `SnapshotFlush`; the consumer is not modelled (section 12).

**Files, dashboard, CLI, telemetry, tokens, migrations, generated stubs**: no
control logic of their own; not modelled (section 12).

The hazards of each part are listed in `PROJECT.json` at the lines where they
bite, with the properties that would catch them going wrong.

## 2. Plan

Done, in this order: `ExecuteStream`, `PiAgent` and its proofs (the core: every
prompt goes through it), `AgentLifecycle`, `Registry`, `HotReload`, then
`SseExecute`, `SnapshotFlush` and `LogTail`, each with its proofs,
`SerialLifecycle_proofs` for clients that wait, and the abstract specifications
`AgentService`, `Directory`, `JobQueue`, `EditPromise` and `SnapshotCopy`, which
the detailed modules are proved to implement.

Next:

1. That the server, row and start of `HotReload` and of `SnapshotFlush` are what
   `AgentLifecycle` allows (refinement, for clients that wait).
2. Reuse of a pid by the operating system (`AgentLifecycle` with pids that come
   back).
3. The chiboos' names in the snapshot, which `list_agents` reads by a second
   SELECT (`SnapshotFlush` together with `Registry`).

## 3. `PiAgent`

An agent server runs on one asyncio event loop, so a step of the model is the
code between two suspension points. `pc[r]` names where `PiAgent.execute` for
Execute RPC `r` is suspended, `tk[t]` where `stop`/`restart` for task `t` is: a
Reload RPC, or `Main`, the `serve()` task after SIGTERM.

| state | code |
|---|---|
| `proc`, `busy`, `status` | `self._proc`, `_busy`, `_status` |
| `pc = "sending"`, `peer` | awaiting `drain()` of set_model, compact or new_session, to the process `peer[r]`; or asleep after the last two |
| `"prompting"`, `peer` | awaiting `drain()` of the prompt |
| `"loop"` | at the top of the loop of `_read_events`, about to read from `self._proc` |
| `"wait"`, `peer` | awaiting `readline()` of the process `peer[r]` |
| `"yield"` | suspended at `yield`, the event is with the gRPC runtime |
| `"orphaned"` | the RPC was cancelled at a yield; the generator's `finally` has not run yet |
| `"done"`, `"cancelled"` | ended by itself; ended by cancellation |
| `tk = "stopping"`, `"spawning"` | awaiting `proc.wait()`, `create_subprocess_exec` |
| `victim` | the local `proc` of `stop()` |
| `alive`, `inbox`, `taken`, `cur`, `texts`, `outbox` | pi: processes that run, what was written to their stdin, how far they have read it, the prompt they answer, unread stdout |
| `termed` | processes that `stop()` has sent SIGTERM |
| `rivals` | history: the restarts and the shutdown that were under way when another restart spawned the process |

| action | code |
|---|---|
| `ExecuteReject`, `ExecuteBegin` | the tests of `execute`, the claim of the busy flag and the write of set_model, pi_agent.py:124-137 |
| `ExecuteCommand` | compact or new_session, 139-145: another write and another `drain()`, to the process there is by then |
| `ExecutePrompt`, `ExecuteRead` | the prompt, and the deadline after its `drain()`, 147-152 |
| `ExecuteSendFails`, `ExecuteResume` | a `drain()` that raises; back from a yield, 152-161 |
| `Cancel`, `Finalize` | the client goes away: `CancelledError` at an await, or an abandoned generator finalised later |
| `ReadWait`, `ReadLine`, `ReadEof`, `ReadTimeout`, `ReadNoProc`, `ReadClash` | `_read_events`, 203-256, with `_map_pi_event`, 261-320 |
| `StopBegin`, `StopWait`, `StopKill`, `Spawned`, `SpawnFails` | `stop`, `start`, `restart`, 59-105, and the Reload handler |
| `CancelReload` | the client's 30 second limit (client.py:150-162) |
| `ShutdownExit` | the end of `serve()`, server.py:123-138 |
| `PiTake`, `PiEmit`, `PiEnd`, `PiExit` | pi itself, external: any answers, death at any moment |

Abstractions: text is dropped, a line of pi is one of five kinds (`text`;
`noise`, which becomes no event; `broken`, which raises; `agent_end`; `error`)
with the execution whose prompt it answers; the token check, the session id and
token counts are left out; what pi makes of compact and new_session is left out,
the awaits they bring are not; a timeout may fire at any time of a read, which
covers every relation between the 30 second silence limit and the deadline, and
at no time of a write, for which the code arms no timer; the `except` of the
servicer (servicer.py:60-68) is left out, as `execute` itself turns every
exception into an event before; a read that finds another coroutine waiting on the same
stream fails in the coroutine that arrives second, as `StreamReader` does.

`ExecuteStream` is what a client may rely on: a stream that is idle, open,
closed or cancelled, that carries events and at most one final event, always
the last, and that is never closed without one. `ImplementsStream` is the
refinement: `phase` is a function of `pc`, `sent` of the events yielded.

### Runs

* **agent_serial** (3 executions, no reload, one pi process, at most one line
  before the last; 1,717,473 states): `TypeOK`, `MutualExclusion`,
  `ForeignOutputOnlyFromAbandoned`, `PromptUnderOwnModel`. Three executions are
  what the interesting chain needs: one that is abandoned, one that is served
  the first one's lines and closed by its `agent_end`, and a third that gets
  the second's. Foreign output *does* happen; the property says exactly when:
  its owner ended before it read its own last line. These three hold while
  nothing reloads the agent, since `stop()` clears the busy flag under an
  execution in flight.
* **agent_reload** (2 executions, 2 Reloads and the shutdown, 3 pi processes;
  3,234,962 states): `BusyHasOwner`, `NoLeakedPi`, `NoPiHasACause`,
  `ShutdownLeavesNoPi`, `ImplementsStream`. Reloads may overlap each other, the
  executions and the shutdown, may be cancelled anywhere and may fail to spawn.
  `ThreeRequests` bounds the run to behaviours in which at most three of the four
  requests arrive, in any choice: two Reloads beside an execution, or one beside
  two. Processes *are* lost, missing or left behind here; each of the three
  properties says by what alone. `NoLeakedPi`: spawned beside another restart.
  `NoPiHasACause`: a restart at work, or one that failed or was cancelled.
  `ShutdownLeavesNoPi`: spawned beside the shutdown or another restart, or in the
  hands of a `stop()` that was cancelled before its SIGKILL.
* `ExecutionsEnd` and `TasksEnd` are checked in the composition, by
  **sse_execute** (section 4).

`StatusMatchesProc` and `OneTerminalEvent` are proved and have no run.

Fairness: the event loop runs a coroutine whose await is over, the timers that
the code arms fire, the process a SIGKILL was sent to dies, a client that stops
reading is either cancelled or reads on, and `server.stop(grace=3)` cancels what
is left. Nothing is assumed of pi, neither that it answers nor that it reads its
stdin, nor that requests, reloads or SIGTERM arrive. `Blocked(r)` is what this
leaves open: the `drain()` of `_send` has no timer (pi_agent.py:201), and the
deadline is computed only after the last one (150), so an execution may wait
there for as long as pi lives and does not read. `ExecutionsEnd` says that every
execution ends, or stays in that one wait for ever.

Bounds: `MaxProc` caps the processes spawned and `MaxText` the lines before the
last one; a second line of text behaves as the first. Requests are a finite set,
so a finished instance has nothing more to do: deadlock checking is off in every
run. Executions are interchangeable and symmetric; symmetry is not used in the
liveness run.

## 4. `SseExecute`

A prompt from the dashboard crosses two hops: the browser's request is served by
`sse_execute`, which opens a gRPC channel and relays the events of an Execute RPC
of `PiAgent`. The module extends `PiAgent` with the first hop; `out[r]` of
`PiAgent` is what the server yields, and the same request name `r` stands for the
browser request and its RPC.

| state | code |
|---|---|
| `web` | the handler: not begun, answered 404/409, streaming, ended, or left by the browser |
| `shown` | the "data:" lines sent to the browser: an event, or the final one (`is_done`) |

| action | code |
|---|---|
| `Get` | `get_agent` and its refusals; `connect()` and the call |
| `ServerStep` | any step of `PiAgent`, where an RPC begins only while its handler is streaming |
| `Deliver` | an event arrives and is yielded (gRPC keeps the order and loses none before the call fails) |
| `CallFails` | the `except Exception` of `event_stream`: the error becomes the final event |
| `Break`, `Leave` | `is_done` and `break`, or the browser disconnects; `close()` in either case |

`CallFails` may happen at any time, even after every event of the server was
sent: the channel can break, the server can go, the deadline can pass between the
two. When the handler has left, the RPC at the server is one that may be
cancelled, which is `Cancel` of `PiAgent`, as always; that a cancellation takes
its time there is part of that module.

**sse_execute** (1 browser request, 1 Reload, shutdown, 2 pi processes; 97,650
states): `SseTypeOK`; `BrowserStream`, the refinement to `ExecuteStream` over both
hops, so that the abstract stream is promised twice, to the gRPC client and to
the browser; `StreamsEnd`, `ExecutionsEnd` and `TasksEnd` under `SseLiveSpec`.
One browser is enough for liveness, because another execution only makes the
first one be refused or take over its process, and the safety properties are
proved for any number.

Fairness beyond that of `PiAgent`: an event that is there is delivered, a call
that can produce nothing more fails, a handler that has its final event breaks.
The deadline that the client gives its call is used in one case only, while the
execution is `Blocked`: there nothing in the server ends the stream. In every
other case `StreamsEnd` holds by what the server does, a final event or a
cancellation.

## 5. `AgentLifecycle`

All handlers share one event loop and one database; a handler is cut at its
awaits (`pc[r]`). Its writes are invisible until its session commits, at the
end of the request (`db/engine.py get_session`). SQLite has one writer: the
first write takes `lock`, which `start_agent` holds while the server boots;
another writer waits five seconds and then fails (`Busy`).

| state | code |
|---|---|
| `row` | the committed `agents` row: status and pid (or absent) |
| `rec` | the row object the handler read |
| `procs`, `orphan` | `AgentProcessManager._procs`, `_orphan_pids` |
| `srv`, `owner` | the operating system's processes: booting, port open, serving, dead |
| `sentinel` | ready files on disk |
| `up`, `crashes` | the control plane's life |
| `exposed` | history variable: servers that a crash caught in the hands of a start |

| action | code |
|---|---|
| `Read`, `Refuse` | `registry.get_agent` and the 404/409/idempotent answers |
| `Busy` | "database is locked" |
| `StartMark`, `StartSpawn`, `StartSpawnFails`, `StartReady`, `StartCommit` | `start_agent`, `AgentProcessManager.start`, `_wait_ready` |
| `StopBegin`, `StopExited`, `StopKill`, `MarkStopped` | `stop_agent`, `AgentProcessManager.stop`, `_terminate` |
| `DeleteRow`, `StatusCheck` | `delete_agent`, `agent_status` (which ends in `MarkStopped` when it finds the agent dead) |
| `Crash`, `Recover` | the control plane's death; `lifespan` and `recover_running_agents` |
| `ServerOpens`, `ServerWritesSentinel`, `ServerExits` | `serve()` seen from outside; servers may die at any time |

Abstractions: a handler that writes and commits with no other wait in between
does so in one step, and so do the re-read and the UPDATE of `update_status` in
`MarkStopped` (a row that is deleted between the two makes the UPDATE raise,
which answers 500 and changes nothing; the model answers as if it had been
missing at the re-read); pids are fresh (reuse by the operating system is not
modelled); a server outlives the control plane; creating agents, groups, log
watchdogs, the snapshot and the workspace files are in other modules; a spawn that is
cancelled leaves no process. The status `starting` is written by `StartMark` but
overwritten before it is committed: it can be seen by nobody, although
README.md:236 presents it as a state of an agent; `TypeOK` says so. The result
of the readiness wait does not decide the status, only whether the process lives
when it ends (routers/agents.py:103-106), so `running` does not mean "ping
confirmed" (README.md:237).

`AgentService` is the control plane as its operator sees it, without handlers,
sessions, locks, tables of processes or ready files: a row for each agent, the
servers that run for it, and those that nobody answers for. It allows a spawn only
for an agent whose row is down and that has no server; a row that says `running`
only of the one server there is, or of one that has died since; a deletion only
of an agent without a server; a recovery that may correct several rows at once;
and a crash that costs at most the one server that was being started.
`ImplementsService` maps a row to its status and pid, the servers of an agent to
its live processes that are not `exposed`, and the strays to those that are. It
holds for clients that wait; the two overlapping starts of Findings break it.

### Runs

* **lifecycle_serial** (one agent; 2 starts, 2 stops, a delete; clients wait for
  each command to be answered; two crashes of the control plane between any two
  steps; servers die at will; 230,103 states): `NoServerLost`,
  `IdleRowsHaveNoServer`, `RunningIsKnown`, `RequestsEnd`, `ImplementsService`.
  Two starts and two stops let a second life of the agent meet what the first
  left behind: orphans, stale ready files, dead pids in rows. The properties
  exempt `exposed` servers: a crash during a start does leave a server that
  nothing knows, since the row rolls back to `stopped`. A crash during a stop
  does not: the row still says `running`, and recovery takes the server over.
* **lifecycle_concurrent** (2 starts, 2 stops, a delete and a poll overlapping
  freely, a crash; 2,643,197 states): what still holds without waiting clients:
  `StopMeansDead`, `LockHeldByStart`, `RowsChangeByRule` (and `TypeOK` and
  `RunningPidWasSpawned`, which are proved). Requests of one kind are symmetric.
  What does not hold here is in Findings: a delete may take the row of an agent
  that was started meanwhile, and `stopped` may be written over a newer
  `running`. `RowsChangeByRule` allows both.
* **lifecycle_one_server** (violated): see Findings.

Fairness: handlers that can go on do (`_wait_ready` ends after 30 seconds, the
kill grace after five, the lock wait after five), and a dead control plane is
restarted. Nothing is assumed of servers or clients. Processes and crashes are
capped by `MaxPid` (at least the number of starts, so the cap never bites) and
`MaxCrash`.

One agent is enough for these runs: agents share only the write lock, whose
contention two starts of one agent already show, and the proofs below are for
any number of agents.

## 6. `Registry`

The other half of the control plane's database: which agents and chiboos there
are. `AgentLifecycle` takes an agent's row as given; `Registry` takes its status
as given (stopped) and follows `create_agent` through its collisions. A request
is cut at each database call; `pc[r]` names the call it makes next.

| state | code |
|---|---|
| `groups`, `agents` | the committed rows of `agent_groups` and `agents`; a group id is the request that drew it (`uuid4`) |
| `lock` | SQLite's write lock: taken by a session's first write, returned by commit or rollback |
| `grp`, `gid` | the request's `AgentGroup` object: read (`loaded`), inserted (`new`), out of the session after a rollback (`transient`), or to be read again (`expired`); and the id in it |
| `port`, `attempt` | locals of `create_agent` |

What a session has written and not committed is not a variable: it follows from
`grp` (a new group) and `pc = "commit"` (a new agent, `NewRow`). SELECTs run
outside transactions, as pysqlite opens one at the first INSERT, UPDATE or
DELETE; two sessions therefore read what the other has not committed yet as
absent.

| action | code |
|---|---|
| `FindGroup`, `InsertGroup` | `get_or_create_group` |
| `ChoosePort`, `InsertAgent`, `Collide` | the loop of `create_agent`, `_next_port` |
| `CommitAgent`, `BootstrapFails` | the event, the workspace and the end of `get_session` |
| `AnswerChiboo` | `create_chiboo` after `get_or_create_group`: `_chiboo_dict` reads `g.agents`, which models.py:47 declares `lazy="raise"` |
| `ReadChiboo`, `CheckChiboo`, `LoadMembers`, `DropChiboo` | `delete_chiboo`; the last two are the flush at its commit, which loads `agents` and then deletes |
| `ReadAgent`, `RemoveAgent` | `delete_agent` |
| `Busy` | `database is locked` after five seconds |

SQLAlchemy is external; what the model takes from it: `rollback()` expires
objects that were loaded and makes objects that were inserted transient with
their attributes kept; an expired attribute cannot be loaded outside an awaited
call, so that `group.id` raises; a deletion loads a collection even if it is
declared to raise, and sets `group_id` of what it finds to NULL, which the
schema refuses.

`Directory` is the registry without sessions, lock, attempts and rollbacks. A
request arrives, and is denied without a trace or done at one moment; what a create
adds then has an id, a port and a name in its chiboo that no other row has, and
it is in the chiboo that was asked for, or that is made with it, or in none. That
last case is what Findings is about; what the specification adds is that there is
no other: the agent is in no chiboo that was not asked for, and as a new chiboo
starts with an id that no row has, agents without one do not turn up in it later.
In `ImplementsDirectory` rows and inputs stand for themselves and `pc` is reduced
to the answer.

### Runs

`registry_race` (one automatic port, requests may ask for it or for a second
one, two attempts, two chiboo names with one slug): two creates, a POST and a
DELETE of a chiboo and the deletion of an agent, in all interleavings. With
these a create finds its chiboo or makes it, collides on a port or on an id,
runs out of ports, out of attempts or into the lock, and a chiboo goes away
under a create that has read it (1,718,297 states). The run checks
`ImplementsDirectory`, `LockHeldByWriter`, `RetryOnlyOrphans`, `OrphansExplained`
and `RequestsEnd`; `TypeOK`, `UniqueKeys` and
`LockedChoiceIsFree` are proved and have no run. The bounds cut nothing off that the properties
tell apart: a third attempt does what a second one does, and the theorems below
are for any numbers. `RequestsEnd` assumes that the event loop goes on with a
request that can go on (`LiveSpec`); waiting for the lock ends by itself after
five seconds.

`LockedChoiceIsFree`, `RetryOnlyOrphans` and `OrphansExplained` together say what
the retry of agent_registry.py:99 is worth. A create that makes its chiboo has
the lock before it looks for a port, and cannot collide on one it found; a
create in an existing chiboo can, and then fails, because reading `group.id` of
the expired object raises before its second insert; so the only retries that
insert are those of creates in new chiboos, after a clash of the id or with a
port the client asked for, and they leave an agent without a chiboo.

`registry_orphan` shows the latter.

## 7. `HotReload`

The way of an edit: a handler writes a file into the workspace and queues a job;
the worker claims it and calls Reload; the server stops pi and starts another,
which reads the workspace. What pi knows is the set of edits that were on disk
when it was spawned (`loaded`); it may know later ones too, which the properties
do not count on.

| state | code |
|---|---|
| `disk`, `loaded` | the edits in `.pi/skills` and `.pi/extensions`, and those the current pi began after |
| `epc`, `seen` | the four edit handlers; `agent.status` as they read it |
| `crossed` | history: the edits whose handler was at work while a start of the agent began or was under way |
| `job`, `tries`, `late` | the job of each edit in `hot_reload`; `job.attempts`; claims whose visibility timeout has passed |
| `worker`, `wjob` | `run_reload_worker`: waiting in `q.claim`, inside `client.reload()` (and how far the server's `restart()` is), about to ack or retry, or ended |
| `status`, `lock`, `ctl`, `server` | the committed row, SQLite's write lock, the start or stop in progress, the agent server: `AgentLifecycle` reduced to one server and one command at a time |
| `poll` | status polls that have found the server dead and have yet to write `stopped` |
| `forgotten` | history: the row lost the server that runs, to a late poll or to a crash in its start |
| `pi`, `died` | whether the server has a live pi, and whether it lost the last one by itself |

| action | code |
|---|---|
| `EditRead`, `EditRefuse`, `EditWrite` | add and remove of skills and extensions: `get_agent` is their only await, so file and job are one step |
| `QueueReload` | `_hot_reload`: nothing unless the row said running; an enqueue that finds the lock taken fails and is logged |
| `Claim`, `ClaimFails` | `async for job in q.claim(...)` |
| `ReloadStops`, `ReloadSpawns`, `ReloadSpawnFails`, `ReloadAnswers`, `ReloadFails` | `restart()` and its answer; `ReloadFails` is every way `client.reload()` returns False, after any of its steps |
| `Ack`, `Retry`, `SettleFails` | the end of the loop body; a retry that raises ends the worker |
| `OutliveClaim`, `ClaimExpires` | 20 seconds pass, with the worker still at it or gone |
| `StartBegin`, `ServerOpens`, `StartCommit`, `StopServer`, `StopMark` | starts and stops of this agent |
| `PollFinds`, `PollWrites` | `agent_status` up to its test of `is_running`, and its `update_status`, with whatever happens between |
| `OtherStart`, `OtherCommit` | starts of other agents, which matter because they hold the lock |
| `ServerDies`, `PiDies`, `Crash`, `Recover` | deaths; `Crash` is also a shutdown, which cancels the workers before they can look at the stop event |

The honker library is external and modelled from its use and its tests
(test_honker_queues.py): a claim counts an attempt; a retry puts the job back, or
declares it dead when `max_attempts` claims were made; a claim that is not
answered in time is handed out again, whatever its count (`tries` counts no
further than `MaxAttempts`, as nothing asks for more); a late answer changes
nothing. Two edits of the same file, backoff delays (a job waits as long as it
likes) and the port and token in the payload are left out. A start beside a server
that still serves, which a row that lost its server allows, is left to
`AgentLifecycle`.

`EditPromise` is what all this comes to for the author of an edit. A pi begins with
the edits on disk and learns of no other; a job that was accepted is owed until it
is kept, which needs that no pi runs that began before the edit, or given up,
which needs that its last attempt was made; a settled job never comes back. In
`ImplementsPromise` a job is owed while it is pending or claimed, kept when
acked and broken when dead; a job that could not be queued was never promised,
although the answer to the client does not say so (see Findings). What queues
promise in general is in `JobQueue`, which `SnapshotCopy` shares.

### Runs

`hot_reload` (two edits, two attempts, two starts of this agent or others, a
crash): every job can be retried, die, be delivered twice, be left behind by a
worker and fail to be queued; each edit can fall before, into and after a start
and a Reload; a poll can write over a start that it did not see, and the crash
can cut a start (887,565 states). It checks `ImplementsPromise`,
`StaleHasACause`, `NoPiMeansReloadDue` and `JobsSettle`. Only starts and crashes
are bounded; deaths, failures, stops, polls and outlived claims are not. Two
starts are one whose server dies and one that a poll, which saw the death, comes
too late for.

`StaleHasACause` is the property an author of an edit would want without its
exceptions: pi knows every edit, or a reload is to come. It says that there are no
exceptions but a job that died or could not be queued, and a handler that saw no
running row although a server was there; and that the latter takes an edit that
overlaps a start, or a row that lost its server to a late poll or to a crash. An
acknowledged job therefore always means that pi began after the edit
(`AckMeansLoaded`).

`JobsSettle` assumes `Fairness`: the worker's awaits end (each has a timeout),
starts and stops end (likewise), claims expire, a crashed control plane is
restarted. It has two exceptions, and both are what the code does. A worker that
ended on a database error delivers nothing more. And a server whose every Reload
hangs makes every answer late: the client gives up after 30 seconds
(client.py:157), the claim is visible again after 20 (_queues.py:15), so the
retry changes nothing, the job is handed out again and never counts as dead.

## 8. `SnapshotFlush`

The way of a row: an agent server learns its workspace, port and token from the
snapshot file, which the snapshot worker writes when a job tells it to. The jobs
are queued by the handlers that change the rows, before their session commits,
and through a connection of their own.

| state | code |
|---|---|
| `hist` | the contents that the `agents` table has had, the last one the current; a record is named by the create that made it |
| `lock`, `pc` | SQLite's write lock and the handlers of create, delete and start |
| `events` | the requests whose event is in the event stream (`_record_event`) |
| `job`, `tries`, `late`, `since` | the jobs of the `snapshot_flush` queue, as in `HotReload`; and how many contents there were when each was queued |
| `worker`, `wjob`, `buf` | `run_snapshot_worker`: in `q.claim`, in `list_agents`, in `write_registry_snapshot`, about to ack or retry, ended; the rows it has read |
| `file`, `served` | the snapshot file; the record each started server loaded |
| `missed` | history: the requests whose second look at the row found it gone |

| action | code |
|---|---|
| `Get`, `Write`, `WriteFails`, `Miss` | `get_agent` and its refusals; the flush of the INSERT, DELETE or UPDATE; the lock or the id is taken; the registry's own SELECT finds no row |
| `Announce` | `_record_event` with its publish, and `_flush_snapshot`: both swallow their failure |
| `Commit`, `Rollback`, `Return` | the end of `get_session` |
| `LoadRecord` | `serve()` looks for its agent in the snapshot |
| `Claim`, `ClaimFails`, `ReadRows`, `WriteSnapshot`, `FlushFails`, `Ack`, `Retry`, `SettleFails` | the worker's loop |
| `OutliveClaim`, `ClaimExpires` | a claim passes its visibility timeout, with the worker still at it or gone |
| `Crash`, `Recover` | the control plane's death; `lifespan` |

Every write of the honker library needs the lock of the same database file; one
that does not get it raises. Left out: the readiness wait of a start (as in
`AgentLifecycle`, it only keeps the lock longer), the status and pid in the
snapshot, which no server reads, and status changes other than a start's, since a
stop queues no flush. `ReadRows` is the SELECT of the agents' rows in
`list_agents`; their chiboos, whose names the records also hold, are read by a
second SELECT outside any transaction and are not modelled, so nothing is said
about a chiboo's name and its agents being of one moment. `tries` counts no
further than `MaxAttempts`.

`SnapshotCopy` is what a reader of the file may rely on: the file shows the agents'
rows as they were committed at one moment and only ever goes to a later one; a flush that
was promised is reported as done only when the file has reached the moment at
which it was promised. `ImplementsCopy` maps jobs as `ImplementsPromise` does; the
moment of the file is its place in `hist`. That the file never goes back rests on
there being one worker, which writes what it has read before it reads again.

**snapshot_flush** (1 agent, 2 creates, 2 deletes, a start, 2 attempts, 1 claim
outlived, 1 crash; 869,652 states): `ImplementsCopy`, `AnnouncedMeansCommitted`,
`SnapshotOfOneMoment`, `AckMeansFresh`, `FlushesSettle`. Only a request that finds
its agent gone gets a job, so the agent is created, deleted and created again: a
start or a delete then finds it gone, the flush it queues is carried out when it
is back, and a server loads the record, of the first life or of the second. The
one claim outlived hands such a job out twice. `FlushesSettle` assumes `Fairness`:
handlers and the worker's loop go on, claims expire, a control plane that crashed
is restarted; it leaves open whether a flush succeeds. `MaxSlow` bounds the claims
outlived, and unlike in `HotReload` a bound is justified: a flush reads and writes
locally, within a visibility of 30 seconds (_queues.py:11).

**snapshot_follows** (the same without crash and slow claim; violated): see
Findings.

The properties say that the pipeline is *safe*: the file is always one committed
moment, an acknowledged job was carried out, and nothing is announced of a change
that may be rolled back. The last is so for a reason that nobody wants: while a
request holds the lock its announcement fails, so a request that writes is never
heard (`WritersAreNotHeard`), and that is the finding.

## 9. `LogTail`

The way of a line: an agent server appends to `agent.log`; a watchdog polls the
size and notifies; a WebSocket handler that listens reads from its offset to the
size it was told and sends the lines.

| state | code |
|---|---|
| `size`, `wide` | the file, in characters, and those that take more than one byte in UTF-8 |
| `dog`, `seen`, `entry` | the `run_log_watchdog` tasks, their `offset`, and the one in `_log_watchdog_tasks` |
| `pc`, `offset`, `new` | `ws_logs`: where it awaits, and its locals |
| `box` | notifications sent to a listener that it has not taken |
| `sent` | the positions shown to the viewer |
| `slow`, `from` | history: who lost a notification to the pruner; where the tail ended and where listening began |

| action | code |
|---|---|
| `Log` | an agent server writes, booting, serving or stopping |
| `StartDog`, `DogBegins`, `DogNotifies`, `DogFails`, `StopDog` | `_start_log_watchdog`, `run_log_watchdog`, `AgentProcessManager.stop` |
| `Refuse`, `SendTail`, `Listen`, `Receive`, `Read`, `Sent`, `Hangup` | `ws_logs`, cut at its awaits |
| `Prune` | `run_notification_pruner` |
| `Crash` | the control plane dies; recovery starts no watchdog for the agents it takes over |

One character is the unit: lines, empty lines and the split of a line at a read
are left out, and the file is never truncated, as nothing in the program does so.
A read of `new_size - offset` *characters* from a *byte* offset goes further than
`new_size` by one for each wide character in it (a character is one or two units
wide here; three or four bytes only move the end further, and `ReadTo` stops at
the end of the file as the code does).

**log_tail** (1 viewer, a tail of one character, a file of 3, 2 watchdogs, a
crash; 203,122 states): `GapOnlyBehindTail`, `TwiceOnlyAfterWide`,
`RepeatsBounded`, `GrowthArrives`. Text is missed and text is repeated; the first
says that what is missed was logged between the tail and the listening, the
second that only a wide character has text repeated, and the third that all of it
is no more than one position for each such character. A tail shorter than the file shows that its beginning is
skipped; three characters let two watchdogs report the same growth, and one be
read early behind a wide one; two watchdogs are what a second start makes, whose
entry overwrites the first's. `GrowthArrives` assumes `Fairness`: watchdogs poll, handlers
go on when what they await is there, and a browser takes a line or is found gone.

## 10. What is proved

All theorems hold for every value of the constants; TLC checks the properties
they name on the instances above, unless it says otherwise. Every invariant that
is strengthened for a proof was first checked by TLC.

`PiAgent_proofs`, from `BoundsAssumption` (bounds are naturals, at least one
process) and `NamesAssumption` (names of tasks and of "nobody" are distinct):

* `TypeCorrect`, `NeverBusyForNobody`, `StatusCorrect`, `OneFinalEvent`: for any
  number of executions, reloads and processes. `BusyHasOwner` is inductive only
  with what the flag and the handle have to do with each other (`FlagsInv`); the
  final event needs the invariant that an open stream that is not at a yield has
  sent no final event (`StreamInv`). `StatusCorrect` and `OneFinalEvent` have no
  run.
* `AgentImplementsStream`: `Spec => Stream!Spec`, by a step simulation: each
  action is a step of `ExecuteStream` or a stutter.
* `BusyIsALock`, `OwnModel`: *without reloads* (`Reload = {}`) executions exclude
  each other (`SerialInv`: one process, `busy` exactly while an execution is in
  flight, until shutdown), and every prompt follows the set_model of its own
  execution (`PromptInv`: an execution that is about to send its prompt wrote the
  last command to pi). A reload breaks both, as `stop()` clears the flag.
* `NoForeignOutput` (`ForeignOutputOnlyFromAbandoned`), also without reloads. The
  invariant `TraceInv` follows each prompt from pi's stdin through its answer and
  stdout to the stream a line lands in: an execution that has not sent its prompt
  has left no trace of one; a prompt is written once and answered once; the line
  that closes an answer is the last of that answer; and an execution that has read
  its own last line has left nothing for others to read. It needs
  `SerialInv` (one process, whose pipes keep their order) and `StreamInv`.
* `OnlyRivalsLeak` (`NoLeakedPi`), `MissingPiExplained` (`NoPiHasACause`),
  `SurvivorsExplained` (`ShutdownLeavesNoPi`): for any number of reloads, however
  they overlap, fail and are cancelled. `ProcessInv` follows each process that
  runs: it is the current one, or has rivals, or is in the hands of a `stop()`
  that waits for it or was cut off (`Held`); a restart about to spawn is a rival
  of the process it finds; and what the agent has once its server stops came from
  a restart in that time.

`SseExecute_proofs`, from the same assumptions:

* `ComposedIsAgent`: `SseSpec => Spec`. Every step of the composition is a step of
  `PiAgent` or leaves it alone, so all theorems above hold in it.
* `SseTypeCorrect`; `BrowserGetsStream`: `SseSpec => Browser!Spec`, again a step
  simulation; `RelayIsFaithful`: each event shown before the final one is the
  agent's, at its place (`NothingInvented`, which has no run; it needs that a
  step of the server only appends to `out`).

`AgentLifecycle_proofs`, from `LifecycleAssumption` and `RequestAssumption` (an
agent exists, kinds of requests are disjoint), for clients that wait or not:

* `TypeCorrect`; `LockIsNeverStuck`; `StoppedProcessIsDead`;
  `RowsNameTheirOwnProcess` (no run); `RowsFollowTheRule`.
* The inductive invariant `IInv` adds to these: where each kind of handler may
  wait and that a control plane that is down has none (`PcInv`); that the agent
  of the lock's holder exists, so that the commit releases the lock (`LockInv`);
  that every pid written anywhere was spawned, so that "not alive" means dead for
  good (`BornInv`); that a stop past its wait has a dead process (`StopInv`);
  that a start spawns once and keeps its pid (`StartInv`).

`SerialLifecycle_proofs`, from the same and the hypothesis `ClientsWait`: clients
wait for each start, stop or delete to be answered, and nobody polls the status.
The second half is needed: a poll that ends late overwrites the row of a start
(see Findings).

* `NothingLost` (`NoServerLost`), `NothingRunsIdle` (`IdleRowsHaveNoServer`),
  `RunningCanBeStopped` (`RunningIsKnown`).
* The invariant follows each live server to the one that has it: `OneAtATime`
  (one request in progress), `PhaseInv` (what that request read is still so),
  `TablesInv` (the manager's two tables agree with each other and with the row),
  `HeldInv` (a live server is in the hands of a start or stop, or named by its
  row and a table, or exposed by a crash), `KnownInv`. It is inductive only
  together with `IInv`.
* `OneServerForEach` (no run): for such clients an agent has at most one server
  that is not exposed. It is the other half of the finding on README.md:37.
* `ServiceImplemented`: `Spec => ImplementsService`, by a step simulation. A
  handler's steps before its commit are stutters but for the spawn, and the death
  of a server, from whatever cause, is an `Exit`. It needs from
  the invariant that a live server is held by one request or one row
  (`HeldByOne`), that nothing runs for the row a start is about to spawn for
  (`NothingRuns`), that a row about to be written names the server of that start
  and no other (`OnlyItsOwn`), and that exposed servers were spawned
  (`TakenInv`).

`Registry_proofs`, from `RegistryAssumption` (some chiboo and name exist, kinds
of requests are disjoint, at least one attempt): `TypeCorrect`, `LockIsNeverStuck`,
`RetriesMakeOrphans`, `OrphansHaveACause`, and without a run `KeysAreUnique` and
`NewChibooNeverCollides`. They hold by one inductive invariant: a row about to be
committed clashes with none (`CommitInv`), because rows change only under the
lock; what a session knows of its group goes with the number of attempts
(`AttemptInv`); a group that was read is there or was deleted since, and the name
of one that was inserted stays free (`GroupInv`). `DirectoryImplemented` shows
`Spec => ImplementsDirectory` by a step simulation, with two more conjuncts: an id
that a chiboo, a row or a session has was drawn by a create that is done, in the
name of that chiboo (`OwnerInv`), and the port of an insert is the one asked for
or an automatic one (`PortInv`).

`HotReload_proofs`, from `HotReloadAssumption` (at least one attempt):
`TypeCorrect`, `StaleEditsAreExplained`, `NoPiIsExplained` and their consequence
`AckMeansLoaded`, for any number of edits, attempts, starts and crashes. The
inductive invariant says that a Reload past its spawn has a pi that knows the
job's edit, or one that died by itself, or none because the server is down
(`WorkInv`); that a Reload under way has a live server, and that a row which does
not say running has none unless it lost it (`ServerInv`); that a job exists only
for a written edit (`EditInv`); and that a handler which saw no running agent
found none, or overlaps a start, or read a row that had lost its server
(`SeenInv`).
`PromiseImplemented` shows `Spec => ImplementsPromise`, from the same invariant and
from `TriedInv`: a claimed job was handed out, so that an answer to it is not one
to a job that was never tried.

`SnapshotFlush_proofs`, from `SnapshotAssumption` (kinds of requests are disjoint,
at least one attempt): `TypeCorrect`, `NoFalseAnnouncement`, `OneMoment`,
`AckedFlushWasDone` and `WritersAreNotHeard`. The inductive invariant: a request
has the lock from its write to its end (`LockInv`), therefore a job is only ever
queued by a request that found its agent gone (`JobInv`) and no event is ever
published (`events = {}`), of which `NoFalseAnnouncement` is a corollary; the
worker has a claimed job exactly inside its loop body (`WorkInv`); buffer, file and records come from contents the table had
(`MomentInv`), none older than what the worker's position promises (`FreshInv`).
`CopyImplemented` shows `Spec => ImplementsCopy`, with `AskedInv` (a claimed job was
handed out; nothing was asked before a job was announced) and `LabelInv` (what the
worker is about to write is the content of the moment it is labelled with).

`LogTail_proofs`, from `LogTailAssumption` (bounds are naturals): `TypeCorrect`,
`NothingMissed`, `ShownOnce`, `RepeatsAreFew`. The inductive invariant: an offset is behind the
size it was told and not before the place where listening began (`AheadInv`); the
tail is in order (`TailInOrder`) and short enough (`ShortTail`); what was sent
beyond the offset was sent because of a wide character (`BeyondOnlyByWide`).

Model-checked only: liveness (`ExecutionsEnd`, `TasksEnd`, `StreamsEnd`,
`RequestsEnd` twice, `JobsSettle`, `FlushesSettle`, `GrowthArrives`), which is out
of the prover's reach. Every safety property of a passing run is proved, some of
them under the hypotheses named above (`Reload = {}`, `ClientsWait`), which are
those of the runs.

## 11. Findings

With a run that shows it:

* **lifecycle_one_server / `OneServerPerAgent`.** README.md:37, "one process per
  agent". A second start decides on the committed status, which says `stopped`
  until the first start has committed `running`, and spawns a second server.
  `OneServerForEach` is proved for clients that wait.
* **registry_orphan / `EveryAgentHasChiboo`.** README.md:173, "Every agent belongs
  to exactly one chiboo." A create in a new chiboo that asks for a taken port
  rolls the chiboo back and then commits the agent with its id. (Deleting a
  chiboo that a create has just read does the same.)
* **snapshot_follows / `SnapshotFollows`.** agents.py:331, "Enqueue a snapshot
  flush job; the lifespan worker delivers it with retries." The handlers call it
  while their own session holds the write lock that the enqueue needs: it waits
  for the busy timeout, fails, and the failure is passed over. Only a start or
  delete whose agent vanished between its two reads can queue a flush. The
  snapshot therefore does not follow the rows, and the server of a newly created
  agent finds no snapshot, or one without itself, and exits. The same holds for
  `_record_event`, which publishes to the event stream before its transaction
  commits (agent_registry.py:182).

Seen while modelling, without a run of its own:

* pi_agent.py:3, "Each agent instance owns exactly one pi process." `start()` tests
  `self._proc`, awaits the spawn and then assigns; `restart()` is not serialised.
  Two overlapping Reloads both spawn, and the first process stays alive with
  nobody to stop it. The control plane's one reload worker waits for each Reload
  before it claims the next job, so the overlap needs a client that calls
  `reload()` itself, as README.md:385 shows. `OnlyRivalsLeak` says that reloads
  which do not overlap lose no process.
* server.py:126: on SIGTERM the server stops pi first and refuses RPCs only
  afterwards, so a Reload that arrives or is under way in between spawns a pi that
  nobody stops when the server exits. A Reload that is cancelled while it waits for
  the process it has sent SIGTERM to (pi_agent.py:94) skips the SIGKILL, and a pi
  that ignores SIGTERM lives on, also past the shutdown. `SurvivorsExplained` says
  that these are the only ways.
* pi_agent.py:201: `_send` awaits `drain()` with no timeout, and the execution's
  deadline is computed only after the prompt is drained (150). A pi that stops
  reading its stdin under a long prompt, for instance because it blocks on a full
  stderr pipe that nobody reads (73), holds the execution and the busy flag until
  it dies or the caller's own deadline cancels the RPC. `ExecutionsEnd` and
  `StreamsEnd` say so.
* A Reload that is cancelled or fails after the stop leaves a serving agent
  without pi until a later Reload (`NoPiHasACause`); the job is retried
  (`NoPiMeansReloadDue`), but a Reload that fell to another client is not.
* _queues.py:15 and client.py:157: a job is visible again after 20 seconds, a Reload
  may take 30. While a server hangs, its job is handed out and pi restarted again
  and again, and the job never counts as dead (`JobsSettle`).
* README.md:235, "`stopped` - no pi subprocess running". A status poll reads a row,
  finds the agent dead, and writes `stopped` without looking again
  (agents.py:140-141); a start that committed in between is overwritten, and its
  server runs on. The same comes of a stop: `pm.stop` forgets the process before it
  has died (manager.py:126), a poll in these five seconds writes `stopped`, a start
  commits `running`, and the stop then writes `stopped` over it
  (agents.py:126). This is why `ClientsWait` excludes polls.
* agents.py:78: `delete_agent` refuses a running agent by a row that it read before
  it had the write lock. A start that commits in between has its row deleted, and
  the server runs on with no row that names it. `RowsChangeByRule` allows this; for
  clients that wait `ServiceImplemented` excludes it.
* README.md:206, "Every write triggers a hot-reload (pi subprocess restart)."
  `_hot_reload` (agents.py:315) looks at a row that was read before the file was
  written, and while a start is in progress the committed row says `stopped`,
  though pi may have read the workspace already. An enqueue that finds the
  database locked is swallowed (agents.py:326), and the answer still says
  `"reloaded": true`. And an agent whose row lost its server, to a late poll
  (agents.py:141) or to a crash in its start (agents.py:103), gets no reload for
  any edit while that server runs. `StaleHasACause` lists these causes and no
  other.
* README.md:225 says that in-flight executions drain before a reload; `restart()`
  stops pi at once, whatever is in flight (`StopBegin` of `PiAgent` has no such
  guard).
* POST /chiboos/ cannot answer, as its response reads a relationship declared to
  raise (chiboos.py:59, models.py:47); `TypeCorrect` of `Registry` includes that
  it never makes a chiboo.
* ws.py:115 reads `new_size - offset` characters where it means bytes: behind a
  wide character text is shown twice (`TwiceOnlyAfterWide` says that nothing else
  does this).
* ws.py:104: lines logged while the tail is being sent are never shown
  (`GapOnlyBehindTail` says that nothing else is missed).
* Recovery takes running agents over but starts no log watchdog for them: their
  viewers wait until the next start.

One assumption about a library matters to `AgentLifecycle`: that the session
commits before the client has its answer. FastAPI runs the end of `get_session`
before it sends the response in the versions the code was written for (from
0.106 to 0.117); where it runs after, a client that waits may still overtake its
own commit, and the runs for waiting clients do not apply.

## 12. Not modelled

* The consumer of the event stream (`events.py`): one loop that forwards what the
  library's subscription yields, from offsets the library keeps. It has no state
  of its own, and no handler's event reaches it.
* What files hold (skills, extensions, the log's text), the bootstrap
  of a workspace beyond that it may fail, the dashboard and its templates, the
  CLI, migrations, generated gRPC code: no state that another actor depends on.
* The token check before each RPC, tokens and the session id: read-only data.
* Telemetry (spans and counters): no effect on control.
* `ping`, `get_info`, `list_skills`, `list_agents` and other endpoints that only
  read.
* The reuse of a pid by the operating system (manager.py:142): pids are fresh in
  `AgentLifecycle`; the hazard is listed without a property.
* The chiboos' names in the snapshot (section 8), and an agent row deleted between
  the re-read and the UPDATE of a stop or a poll (section 5).
* Two edits of the same file, and the backoff delays of the queues: a job waits as
  long as it likes.

## 13. Reading and running

`tlc -config MCPiAgent_serial.cfg MCPiAgent` checks one run (the runs and their
properties are listed in `PROJECT.json`); `tlapm PiAgent_proofs.tla` and so on
check the proofs. Operators named
`Action_Change` before an action are mutants: the action with one plausible bug.
For each property there is a mutant that breaks it.
