# lovensepy in TLA+

A specification of the stateful parts of lovensepy, the TLC instances that
check it and the TLAPS proofs about it. Paths are relative to
`src/lovensepy/` unless they say otherwise.

## Layout

| Module | Subject |
|---|---|
| `ControlScheduler` | the motor slots of `services/http_api/scheduler.py`, its HTTP callers and the toy behind the backend |
| `PlaySessions`, `SessionBook` | presets, patterns, device loops and stops (`routes/commands.py`) over the sessions of the scheduler; what `GET /tasks` promises of a session, which the first implements |
| `BleSupervisor` | who keeps a BLE link up and who takes it down: `ble_supervisor.py`, `routes/ble.py`, the registry of `ble_direct/hub.py` |
| `BleDirect` | what a BLE client does with a link: commands, deferred playback, link loss (`ble_direct/client.py`), commands to several toys (`ble_direct/hub.py`) |
| `CloudflaredTunnel` | `services/http_api/tunnel.py` |
| `StateStream` | the WebSocket `/ws` (`routes/events.py`), its table of viewers (`presence.py`) and the cache it reads (`toy_cache.py`) |
| `AccessGate` | `access_gate.py` and the page it serves |
| `HABridge` | `integrations/mqtt/ha_bridge.py`, the broker and the toy |
| `SocketClient` | `socket_api/client.py` over `transport/ws.py` |
| `CompositeBackend` | a command on its way through `multi_backend.py`; extends `SocketClient` |
| `ServiceRuntime` | `runtime.py`, `routes/settings.py`, `socket_backend.py`; extends `CompositeBackend` |
| `AsyncLock` | the queue of an `asyncio.Lock`, used by the scheduler, the supervisor, the stream and the bridge |
| `MC*`, `*.cfg` | the instances TLC checks |
| `ControlScheduler_proof`, `PlaySessions_proof`, `BleSupervisor_proof`, `CloudflaredTunnel_proof`, `StateStream_proof`, `AccessGate_proof`, `HABridge_proof`, `ServiceRuntime_proof` | theorems about the module they are named after |
| `PROJECT.json` | components, runs, source map, hazards, theorems |

Check a run with `tlc -config scheduler_all.cfg MCControlScheduler`, the proofs of
a module with `tlapm ControlScheduler_proof.tla` and so on; each takes a minute or
two from nothing. A
module models the handlers and tasks around one piece of shared state. Two
compositions are made of several: `ServiceRuntime`, where commands meet changes
of the configuration and the life of a session, and `BleDirect`, where the hub's
hold meets the tails of its clients. Everything else meets only as a
call that may raise.

In every module a definition marked *fault* is a plausible bug, kept next to
the definition it would replace; `PROJECT.json` ("mutants") says which property
each of them breaks. Properties introduced by "Known not to hold" are what the
repository says and the code does not do; see *Known disagreements*.

## Inventory

The service is one Python process with one asyncio event loop. HTTP handlers,
slot tasks, the BLE supervisor, the tunnel worker and the broadcast loops all
interleave at their `await`s; nothing is persisted that they coordinate on.

| Component | State | Operations | What is hard | What makes it correct |
|---|---|---|---|---|
| ControlScheduler `services/http_api/scheduler.py` | `_tasks`, `_levels`, `_meta`, one lock per toy, `_closed`; `_session_tasks` | function requests (held, timed, zero, ALL, `stop_previous`), sessions, stops, shutdown | a slot's `finally` runs after its successor started; state read before a lock is used under it; cancellation at every await | no gap in a hold; a running motor has a slot; a registered slot is alive; what is reported is what runs; everything ends |
| Command routes `routes/commands.py` | none | preset, pattern, function, stop | find-then-track over several awaits | one session per preset and toy; a stop leaves nothing playing |
| ServiceRuntime `runtime.py` | configuration, transports, revision counter | `apply_config`, `bump`, `wait_for_change`, start, close | reconfiguration while commands run; missed wake-ups | kept links keep playing; every bump is eventually seen |
| ToyCache `toy_cache.py` | rows, age, in-flight read | `get`, `invalidate`, `set_backend` | a read overtaken by an invalidation | nothing older than the last invalidation is served as fresh |
| BleSupervisor `ble_supervisor.py` | per-toy attempts, pause, back-off | rounds, pause, resume, forget, `note_connected` | an attempt waits for the BLE lock with a pause tested before | a toy the user disconnected stays disconnected; others come back |
| BLE routes `routes/ble.py` | none | scan, connect, auto-connect, reconnect, disconnect, remove | same lock, same states | as above |
| Advertisement monitor `monitor.py` | last advertisements | scan rounds | scans against connects | a table only |
| BleDirectHub `ble_direct/hub.py` | clients by toy id | add, remove, connect, commands to several toys | one cancel handle for all coordinated holds | a stop ends the hold it is meant for |
| BleDirectClient `ble_direct/client.py` | GATT link, last motor levels, delayed stop tasks | commands, connect, disconnect callback | lost link, delayed stop of an earlier command | a delayed stop never ends a later command |
| BleDirectHubSync `ble_direct/sync_hub.py` | loop thread | blocking calls | thread start and stop | answers are those of the hub |
| Composite backend `multi_backend.py` | list of backends | fall-back per toy | partial failure of several transports | a command reaches each toy once |
| SocketControlBackend `socket_backend.py`, SocketAPIClient `socket_api/client.py`, WsTransport `transport/ws.py` | socket, runner tasks, stop flag, toy list | connect, disconnect, retry, send | disconnect during connect, clean-up of an old runner | disconnect is final; at most one runner |
| ToyEventsClient `toy_events/client.py` | socket | connect, receive | reports lost with the connection | reports are handed over in order |
| HAMqttBridge `integrations/mqtt/ha_bridge.py` | hub client, toy table, published state | MQTT commands, refresh, reconnect | commands against refreshes | published state follows the toy |
| AccessGate `access_gate.py` | pending approvals, grants | request, approve, deny, expire | two requests of one client, expiry | no grant without an approval |
| PresenceHub `presence.py` | connections | register, drop, broadcast | a reconnect that replaces a socket | the newest socket of a client stays |
| State stream `routes/events.py`, `snapshot.py` | revision seen | wait, build, send | a change between build and wait | every change is finally shown |
| CloudflaredTunnel `tunnel.py` | desired flag, worker, process | start, stop, restart | start during stop, cancellation during spawn | desired means a worker; stopped means no process |
| Settings, models, launcher, standard clients, certificate pinning, branding tables, patterns | none, or values | validation, formatting, one exchange per call | boundaries of clamps | values in range |
| Frontend `src/frontend` | slider state | coalesced ticks | ticks out of order | last tick sent last |

## ControlScheduler

### How the model corresponds to the code

The service keeps one parked or sleeping task per motor (a *slot*), a table
`_tasks` of the registered slot of every motor, a table `_levels` of the levels
a toy should run at, and rows `_meta` that the UI shows. A toy has one lock;
under it a level is changed and the toy's whole *snapshot* of `_levels` is
written to the backend.

| Model | Code |
|---|---|
| `tasks`, `levels`, `rows`, `closed` | `_tasks`, `_levels`, `_meta` of function rows, `_closed` |
| `locks[t]` | `_locks[t]` as a FIFO whose head is the holder; `AsyncLock` |
| `wire[t]` | the `actions` dictionary `_apply_snapshot` has built and is awaiting |
| `motor` | what the toy does: the environment behind the backend |
| `rpc`, `todo`, `cur`, `pend`, `waits` | where a handler is: the loop of `schedule_function`, of `cancel_every_slot_for_toy`, the `await old` of `_cancel_slot` |
| `spc`, `cancelled` | where `_run_slot` is suspended, and a `Task.cancel()` not yet delivered |

A request creates at most one slot per feature, so `<<request, feature>>` is the
task, and its uuid. A request names what it asks in a *job*: operation, toy,
features, level, `timed` (`duration > 0`) and `fresh` (`stop_previous`).

*Grain.* A step is the code between two awaits that can suspend. `_state_lock`
is only ever held over code that does not suspend, so taking it never waits and
its sections belong to the steps around them. `CancelOne`/`Cancelled` are the two
sides of `await old`; `TakeLock` ... `WriteLands` the sides of a toy's lock and of
the backend call under it; `HoldUpdate` and `HoldCreate` the two branches of a
hold with the lock. A slot is `new` until its first step, queues (`lock`), writes
(`write`), parks or sleeps (`hold`), runs its `finally` (`fin`) and, when it still
owns its motor, the silencing write (`fwrite`).

*Over-approximation.* asyncio runs ready tasks in the order they became ready;
the model runs them in any order, except where the order is certain and
matters: a lock is FIFO, and a task created before an await starts before
that await returns (`WriteLands`). `HoldUpdate` picks any matching row where
the code takes the first. Levels are `0 .. MaxLevel` (clamped before they
reach a slot), durations are `timed` or not, and time is the freedom of
`SlotElapses`.

*Cancellation* is delivered at the await a slot is suspended on: before its
first step the coroutine never runs (`CancelNew`, no `finally`), at the lock it
leaves the queue, in a write the effect may or may not have landed, inside
`finally` the clean-up is abandoned and the row stays (`CancelCleanup`).

*The toy.* `Additive` says what a motor does that a written snapshot omits:
`FALSE` for the app's Function command, which replaces what runs, `TRUE` for
BLE, where `BleDirectClient` fills the other channel of a dual-motor toy from
its last level (`ble_direct/client.py:884-889`). An empty snapshot always
stops every motor (`scheduler.py:337-339`). A write to the backend raises at
most `MaxFail` times; the toy list that ALL asks for may fail at any time, and
the request with it (`Expand`).

### Runs

| Run | Checks | Instance |
|---|---|---|
| `scheduler_motors` | `TypeOK`, `RunningHoldDriven`, `RunningMotorHasSlot`, `NoGap` | 4 requests out of hold, timed hold, hold of the other motor, motor stop; 2 motors |
| `scheduler_all` | `RegisteredAlive`, `LocksLive`, `ClosedKeepsNothing` | 3 requests out of every operation, 2 toys, one raising call, additive toy |
| `scheduler_live` | `RequestsFinish`, `TimedHoldsFallSilent` under `FairSpec` | 3 requests, 1 motor, stops and shutdown |

`RunningHoldDriven` and `NoGap` relate the motor, the level on record and the
snapshot in flight; `ClosedKeepsNothing` and `TimedHoldsFallSilent` are about
where the system comes to rest.

Bounds. Requests are served once, so their number bounds the run; there is no
other counter. Three requests give a slot, its successor, and an actor that
interferes with the hand-over; four add a second displaced slot whose
`finally` overlaps. Two motors show what one snapshot does to the other motor,
two toys that locks and stops are per toy, two levels that an older level can
be told from a newer one.

Fairness. `FairSpec` makes each request and each slot weakly fair in its steps:
the event loop runs every ready task, backend calls return (they carry
timeouts), sleeps elapse. Arrivals and failures are not fair, and a parked hold
has no step to be fair about. A lock needs no strong fairness because its queue
is FIFO.

Deadlock is checked in all runs: `Rest` is enabled only when every request has
been answered and every slot is parked or over.

`RunningMotorHasSlot` holds in `scheduler_motors`, whose instance has neither
`stop_previous` nor an additive toy, and fails with either.

### Proofs

`ControlScheduler_proof` proves, for all toys, motors, requests, jobs and levels,
`Spec => []IInv`, and from it `TypeOK`, `LocksLive`, `RegisteredAlive` and
`ClosedKeepsNothing`. `IInv` adds to the first three

- `Known`: a request past `idle` has a job, a slot that exists belongs to such a
  request, and a row to a slot that exists;
- `Queues`: the queue of each lock is injective, its range is exactly the actors at
  the lock, and only the head writes;
- `Unborn`: a request that has not yet handled a feature has created no slot
  for it, so `Create` never revives a slot;
- `Keyed`: a registered slot is the slot of its own toy and feature, closed or not.

`RegisteredAlive` is not inductive alone: that `HoldCreate` and `StartTimed`
register a live task needs `Unborn`; that a finishing slot is not registered
needs `Keyed` and, for its `finally`, that it holds the lock (`Queues`).
The module begins with the lemmas on queues: the range and injectivity of
`Append`, `Tail` and `Without` (`JoinSeq`, `TailSeq`, `WithoutSeq`), which the proofs
about `BleSupervisor` and `StateStream` repeat as far as they need them. The assumptions are those of the module: a job
is well formed, `NoSlot` and `NoJob` are distinguishable, there is a motor. `IInv`
was first checked by TLC on the instances of `scheduler_all` and `scheduler_motors`.

`ClosedKeepsNothing` is about slots that are created after `shutdown()` has
cleared the tables, by requests that had passed its test. It needs `Doomed`: what a
closed scheduler has registered never reaches its silencing write, has been
cancelled if it is writing or parked, and is cancelled or over only while a
shutdown waits for its slots, which then forgets it.

Its second half is about the toy. On top of `IInv` it has

- `Asked`: what the place of a request says of its job;
- `Alone`: while the registered slot of a motor asserts its level or has asserted
  it, no other slot of that motor has a write under way;
- `Snapshot`: a write under way carries the level on record of every asserted motor;
- `Driven`: an asserted motor runs at the level on record, or a request is writing.

`RunningHoldDriven` and `NoGap` follow from the last three together with `IInv`,
for additive and replacing toys alike, while the run is `Undisturbed`: no
backend call has raised, and nobody has asked for a stop of a toy or of all toys,
which is written outside the toy's lock. `Alone` is what
the code's test `self._tasks.get(key) is me` in the `finally` is for, and `Driven`
excepts a request's write and not a slot's, because a slot's write may be cut short
by a cancellation after `Driven` has come to depend on it.

`RunningMotorHasSlot` needs two hypotheses, a toy that stops what a write does not
list and no `stop_previous`; with either dropped TLC has counterexamples (*Known
disagreements*). Its invariant is `OnRecord`: what runs or is being sent has a level
on record, or a write that silences it is under way; and a level on record has a
registered slot, or a request that will replace it.

The hypotheses are those of the module. All these invariants were checked by TLC
on the instances of `scheduler_all` and `scheduler_motors`, with `Additive` true and
false. Only the liveness properties are model-checked alone.

## PlaySessions

### How the model corresponds to the code

A preset, a pattern or a device loop runs on the toy by itself. The scheduler
keeps a row with an end for each (`_meta`) and one waiting task that removes the
row when the end has passed (`_run_session_until`).

| Model | Code |
|---|---|
| `row`, `ends` | the session's entry of `_meta` and its `ends_mono` |
| `waiter` | `_session_tasks` |
| `wpc`, `of`, `wakes` | a waiting task: where it is, its session, the end it read before it went to sleep |
| `until` | when the toy stops by itself: the environment behind the backend |
| `pc`, `job`, `cur` | a handler: taking sessions away (`clear`), awaiting the backend (`sent`, `resend`), back from it (`resent`), awaiting the waiter it replaced (`replacing`) |
| `todo`, `waits` | the sessions a handler has still to take, the tasks it awaits |
| `met` | history: the requests that were under way with a request at some moment |

*Grain.* A step is the code between two awaits that suspend; `_state_lock` is
never held across one. A request opens at most one session and starts at most
one waiter, so its number names both; the next free number is served, which only
removes a symmetry. Presets have one name here and patterns one signature: whether a
second request finds the first one's session depends on the toy and on the kind
alone. The motor slots a handler cancels on its way are ControlScheduler's and
only delay the backend call, which lands after any delay here. `time = 0` is
`Forever` on the toy, while the row is capped by `session_max_sec`
(`SessionMax`), as in the code.

`SessionBook` is the abstract specification: a session is opened once, never
after the shutdown; its end only moves away; it goes before that end only while
somebody takes sessions away. `Book` is the refinement mapping, `TableIsBook` the
claim, checked by TLC and proved.

`StopTakes` is the promise of the two stops. A stop overlaps with whatever else is
under way, and what it leaves then is legitimate only when one of the requests it has
met accounts for it: a row of its table that is still there was opened by one of them, a toy
that plays obeys one of them, and after `stop_all` a waiter that would still act was
started by one of them. `Clear` is what it says of the tables: a stop of one toy
pops a task, awaits it and drops the row, of each session of that toy (a session of all
toys is no session of it, and stays); `stop_all` pops every task, awaits all and drops every row.
`Gone` is which rows go in a step. A row whose task another request has popped already is
dropped at once; the fault `GoneWaited` passes such a row over.

### Run, bounds, fairness

`sessions`: three requests out of two lengths of one preset, a pattern for all
toys, a device loop, both stops and a shutdown, one failing backend call, a clock
of two ticks. Three requests are a session, an extension of it and
whatever interferes, or a session and two stops; two ticks are the shorter end, the longer one and the
moment in between. `CHECK_DEADLOCK FALSE`: with all requests answered and the clock at
its end nothing is left to do. No fairness is assumed; the claims are safety.

### Proofs

`PlaySessions_proof` proves, for all toys, requests, jobs and bounds,
`Spec => []IInv`, and from it `TypeOK`, `RowWatched` and the refinement
`TableIsBook`. `IInv` is `TypeOK` and

- `Fresh`: a request that has not finished has opened no session, so a session opens once;
- `Keyed`: a registered waiter waits for the session it is registered under, and was registered by a request past that point, so registering never revives an ended one;
- `Awaited`: whatever a request awaits was registered once;
- `Driven`: a registered waiter is about to run or asleep, unless a shutdown is under way;
- `InHand`: a row without a waiter is in the hands of a request that will remove it.

`RowWatched` is not inductive alone: taking a session away pops the waiter first
and the row after an await, and only `InHand` knows who removes the row then;
that a waiter which ends does not remove another one's row needs `Keyed`. The
refinement has one step per action: `Book` stutters on what is not in the table.
The assumptions are `BoundAssumption` and `JobAssumption`. TLC checked `IInv` on the
instance of `sessions` first. `StopTakes` is model-checked only (2.1 million states).

## BleSupervisor

### How the model corresponds to the code

The service owns one hub of BLE clients and one `ble_lock`. The `/ble` routes
and a supervision task change links only under that lock; the intents of the
user (pause, resume, forget) are changed without it, by the routes, before and
after they queue.

| Model | Code |
|---|---|
| `entry`, `up` | `hub._toys`: the address registered for an id, and the client's `is_connected` |
| `lost` | links of clients that no entry refers to any more |
| `gone` | `runtime.ble_hub` is `None` after `apply_config(enable_ble=False)` |
| `st[i]` | `_ToyState`: pause, attempts, `next_attempt_mono <= now` (`due`), `connected_since_mono` (`since`), `last_error` (`failed`); `known` says whether `_states` has the id |
| `lock` | `ble_lock`, a FIFO whose head is the holder |
| `sup`, `left`, `seen`, `cur` | where `_loop` is; the rows of the round still to visit and what they said when they were read |
| `own` | `FALSE` once the state object `_try_reconnect` holds has been popped from `_states`: what it writes then is lost |
| `Guess`, `Mac` | the id made of the scanned address and the one made of the address the toy reports; they differ where the system hides addresses |

A call walks through `pc`: `lock`/`link`/`enrich` for a connect, `lock`/`drop` for a
disconnect or removal, `scan`/`rows`/`relock`/`relink`/`rest` for one-tap setup,
`close` for switching Bluetooth off.

*Grain.* A step is the code between two awaits. A round does not suspend between
two rows unless it tries a toy or reads a battery, so `sup = "round"` excludes
every other step (`Yielded`).

*Over-approximation.* Taking a free lock is a step of its own; the back-off
elapses at any moment (`Elapse`) although the code reads the clock once per
round; whether a battery is due is free. Each only adds behaviours to those of the
code.

### Runs

| Run | Checks | Instance |
|---|---|---|
| `ble_routes` | `PausedIsDown`, `PauseWins` | 3 calls out of every route, one toy whose id changes, one lost link |
| `ble_live` | `KeptConnected`, `CallsFinish` under `FairSpec` | 2 calls, 2 toys, one lost link, one failing connect or query |

`PausedIsDown` and `PauseWins` are the point of the component: the pause is
tested before the attempt queues for the lock, so an attempt may bring up a
toy that was paused meanwhile; that is harmless only because the disconnect that
paused it queues behind the attempt.

Bounds. A stale attempt needs the supervisor, a disconnect and one more call that
brought the link up: three calls give each route two others to interleave with.
One lost link gives the supervisor something to do; a failing connect takes it
into the back-off. Attempts are counted up to `MaxTries`, which only caps a
counter nothing but the delay depends on.

Fairness. Each call is strongly fair where the loop has not to finish a round
first: its steps are disabled while a round is under way, again and again, and
the loop does run it between two rounds. Connects and queries return, the clock
advances (`Elapse`), rounds go on. Arrivals, failures and lost links are not
fair; they are bounded, so that `KeptConnected` is about what happens after the
last one.

### Proofs

`BleSupervisor_proof` proves, for all ids, devices and calls, `Spec => []IInv`, and from
it `TypeOK`, `LockLive`, `PausedIsDown` and `PauseWins`. `IInv` is `TypeOK`, `LockLive` and

- `Down`: a link that counts, or is being made, belongs to a registered toy;
- `Watched`: the link of a paused toy has a call that will take it down, or lift the pause;
- `Overtaken`: when a toy is paused while an attempt waits for the lock or has got it,
  the disconnect that paused it is behind the attempt in the queue.

`PausedIsDown` is not inductive: an attempt that tested the pause before it queued
brings the toy up all the same, and only `Overtaken` knows that somebody behind
it takes the link down again. That claim is about the order in the FIFO, so it
needs lemmas on what `Append` and `Tail` do to the order of two members, beside
those on its members (`JoinSeq`, `TailSeq`, `WithoutSeq`). The assumption is `BleAssumption`; that there is a device is part
of it. TLC checked `IInv` on the instance of `ble_routes` first.

## BleDirect

### How the model corresponds to the code

A call of a client is a coroutine; a timed or repeating command leaves a second
one behind, the *tail*, in `_deferred_playback_task`. A task here is the list of
steps it has still to run (`task[t].todo`); `Script` says which steps each method of
`BleDirectClient` consists of, and each step is an action.

| Model | Code |
|---|---|
| `toy[i].link`, `intent` | `is_connected`, `_intentional_disconnect` |
| `toy[i].dual`, `last`, `sig` | `_dual_vibrate_levels`, `_dual_last_nonzero_motor`, the signature `set_vibration` compares |
| `toy[i].deferred` | `_deferred_playback_task` |
| `toy[i].loss` | the task of `_silence_after_link_loss` and its temporary link |
| `toy[i].motor` | what the toy does |
| `hold`, `ended`, `phase` | `_active_hold_cancel` of the hub, the events that are set, where a coordinated hold is |
| `cpu` | the task that runs between two awaits |

*What is abstracted.* Toys have two motors, the case in which a command for one
motor depends on what is remembered of the other; levels are on and off. A sleep
may end at any moment. Lines are written in the order they are submitted
(the Bluetooth stack queues them); a line that is not acknowledged is sent again,
`Attempts` times in all. The hub cancels the tails of the toys in parallel, as its `gather`
does. A call of `connect` is made for a toy that is not connected and not
by two callers at once, which is what the routes do under `ble_lock`.

### Run, bounds, fairness

`ble_direct`: two calls out of fifteen kinds, one after the other but beside the
tails they leave, on two toys; one write is lost or one link drops
(`Fragile`, `MaxFaults`). Two calls are one that leaves a tail and one that has to cope
with it; two attempts are a retry that succeeds and one that does not. Deadlock is
not checked: with two calls answered the system rests. The claims are safety,
so the fairness of `Spec` (whatever is ready runs, in turn) is not used by them.

## CloudflaredTunnel

### How the model corresponds to the code

| Model | Code |
|---|---|
| `desired`, `url` | `_state.desired`, `_state.url is not None` |
| `stopping` | `_stop.is_set()` of the current event |
| `task`, `proc` | `_task`, `_proc` |
| `wpc[w]`, `mine[w]` | where `_loop`/`_run_once` is suspended: the spawn, the read, the kill in `finally`, the delay; the process it reads |
| `victim` | the process whose end `_kill_proc` awaits, per caller |
| `joins`, `cancelled` | the task `stop()` awaits; a `cancel()` not yet delivered |
| `alive` | the processes: unborn, up, asked to terminate, gone |

A `start()` creates at most one worker, which bears the name of the call.
`Stop` goes on to `Cancels` in the same step where there is nothing to kill, and
answers in the same step where there is nothing to cancel, because nothing
suspends there. `Finally` is the end of the `finally` block: where a tunnel is
wanted it raises, also over a `CancelledError` in flight, so `Leaves` does not
ask whether the worker was cancelled. A cancelled spawn is undone by asyncio
(`Abandons`). The wait for the URL in `start()`, the status record and the
length of the delay are left out; a worker in its delay reads the current
event where the code waits on the one of its time, which differ only once
two workers live.

### Runs

| Run | Checks | Instance |
|---|---|---|
| `tunnel_calls` | `CalmOneProcess`, `CalmStoppedIsDown`, `CalmStopsFinish`, `CalmKeptAlive` under `FairSpec` | 3 calls of either kind, 4 processes, 2 exits |

`Calm...` properties are stated for behaviours in which no `start()` arrives before
a `stop()` has been answered (the history variable `crossed`), because the code
needs that; everything else may overlap: stops with stops, starts with
starts, a stop with a worker that spawns, reads, cleans up or sleeps. Three calls
give two stops that overlap with a worker, and a start, a stop and a second
start; the same properties hold with four calls, three processes and one exit.
Processes are enough for every start and every exit, so that a spawn is never
refused for want of one.
Fairness: tasks run, signals end processes, a delay elapses; spawns succeed in
the end (`SF`), which is an assumption about the machine and used by
`CalmKeptAlive` only. Exits are bounded by `MaxExits`; a stop that awaits a worker whose
process runs on is therefore at rest in the model (`Parked`).

### Proofs

`CloudflaredTunnel_proof` proves, for any number of calls, processes and exits,
`Spec => []IInv`, and from it `TypeOK`, `CalmOneProcess`, `CalmStoppedIsDown` and
`CalmUrlIsOwned`. `IInv` is `TypeOK`, `Started` (a call that is still to come has
made no worker) and, while no `start()` has overtaken a `stop()`,

- `Stopping`: while a stop is under way nothing is wanted, and a cancelled worker is awaited;
- `OneWorker`: one worker is alive, `_task` points to it or a stop awaits it, and it is
  told to stop only by a stop that is not over;
- `Owned`: a process that is up is the one of `_proc`, and the worker reads from it;
- `Shown`: the link shown is that of the reading worker, or a stop is about to remove it.

None of the four is inductive without the others: that one process is up comes from
there being one worker, and that a stop may forget its worker from nothing being wanted
meanwhile. The assumptions are those of the module. TLC checked `IInv` on the instance
of `tunnel_calls` first. `CalmStopsFinish` and `CalmKeptAlive` are liveness and stay with TLC.

## StateStream

### How the model corresponds to the code

Every viewer of `/ws` has a handler that builds a state, sends it when its
fingerprint is new, and waits for the runtime's next `bump` or a timeout; a
reader task takes the client's messages. The toy list in a state comes from
`ToyCache`, whose readers queue behind one lock.

| Model | Code |
|---|---|
| `toys` | the backend's toy list, as a version number; 0 is the empty list a failed read leaves |
| `caches`, `cur` | `_rows`, `_stamp` and the lock of a `ToyCache`; `runtime.toys`, replaced by `apply_config` |
| `rows` | `PresenceHub._clients`: the socket registered under a client id |
| `pc`, `open` | where a handler is; whether the client is there |
| `force`, `closed` | the events the reader sets |
| `fresh`, `snap`, `last`, `idle` | `wanted_fresh`, the state built, the fingerprint sent, `idle_for` in intervals |
| `woken` | the event of `wait_for_change` |
| `floor` | history: the toy list when a refresh was taken up |

A step is the code between two awaits: the close of a replaced socket, a sent
frame, the cache's lock, the backend's answer, the wait. `Bumped` stands for
all callers of `bump()`. Of the state itself the toy list and the table of
viewers are kept, which are the parts that a handler also changes. Echo relay,
labels and the encoding of frames are left out.

### Run, bounds, fairness

`stream`: two sockets of one tab, the second of which replaces the first; two
versions of the toy list; one refresh, failed read or replaced cache
(`MaxOdd` bounds the three together). Two sockets are the replacement the
table has to survive; one odd event at a time is enough to break a claim, as the mutants
show. `FairSpec`: handlers run when ready, reads end by their timeout,
cached rows age. Clients, bumps and changes are not fair. Deadlock is not checked:
all clients may have left.

### Proofs

`StateStream_proof` proves, for any sockets, ids and bounds, `Spec => []IInv`, and from
it `TypeOK`, `RefreshIsFresh` and `RowIsOwn`. `IInv` is `TypeOK`, `RefreshIsFresh` and

- `Queued`: the queue of a cache's lock holds exactly the readers in its `get()`, each once;
- `Locked`: who reads the toys holds the lock;
- `Taken`: an answer that is held is no older than the refresh its reader took up.

`NeverBack` takes more. `Ordered` says, while the first cache serves, that nothing
shown is newer than what the cache keeps, and neither is newer than an answer some reader
still holds; `Onward`, that a frame about to be sent is no older than the last one of its
viewer, or empty. That an answer is the newest when it is kept, although the toys may
have changed and the cache been invalidated since it was read, rests on `Locked`: with the
lock there is no second reader whose newer answer it could overwrite. The assumptions are
`BoundAssumption` and `IdAssumption`. TLC checked these invariants on the instance of `stream`
with two odd events. Liveness (`Settles`, `GoneLeaves`) stays with TLC.

## AccessGate

### How the model corresponds to the code

The gate's own operations contain no `await`; a request is therefore one
step. What interleaves are answers on their way, the script of the page the gate
serves (`_AUTH_PAGE`), the host, and the clock.

| Model | Code |
|---|---|
| `code` | `_pending`: whether there is a code, whether it is in time, its failures |
| `rows` | `_approvals`: status, fingerprint, half minutes left, half minutes until the row is dropped |
| `pane`, `req` | what a page shows, the request id it polls for |
| `net` | answers under way: two for a page that is awake, one for a browser that may sleep |
| `cookie` | whether a browser holds a session |
| `polled` | polls in this half minute |
| `claimed`, `uses`, `wrong` | history |

Times are half minutes left, not moments, so that the system runs for ever; a
code and a session, which last ten minutes and a week, end at any moment. `Browser`
says which tabs share a browser, hence fingerprint and cookie. An awake page polls
at least once per half minute (every 1.5 s in the script, `access_gate.py:746`), a
suspended one may. Request ids are reused once nobody mentions them.

### Run, bounds, fairness

`gate`: two tabs of one browser, one awake and one that may be suspended; two
request ids; lifetimes of two half minutes; two odd events (a code entered, a rotation, a
reload, a retry, a lost answer). Two tabs are needed for two polls of one
grant, two ids for a request that follows another; lifetimes of two are the
shortest that tell before, at and after the end. `FairSpec`: time passes,
answers that are under way arrive, awake pages poll. The host need not
decide. Deadlock is not checked; time never stops here.

### Proofs

`AccessGate_proof` proves, for any visitors, browsers, ids and lifetimes, `Spec => []IInv`,
and from it `TypeOK`, `CodeOnce`, `AskedOnce`, `DecisionStands`, `GrantOnce` and `GrantWaits`.
`IInv` is `TypeOK`, `AskedOnce` and

- `Addressed`: what a page waits for, or is told it asked for, is a request;
- `CodeCounted`: while a code opens the gate it has opened nothing, and its failures are the
  wrong entries made under it;
- `Spent`: the row of a request that was turned into a session is gone.

`GrantWaits` adds `Timely`: of the time a row granted to an awake page is kept, at most
one half minute is over, and then the page has still to poll in the current one. It is
proved for `Keep > 1`: the code keeps a decided row for 60 s and a page polls at least
once per half minute; a row kept for one half minute only could be purged before its
poll. The other assumptions are those of the module.

## HABridge

### How the model corresponds to the code

One toy with two motors, the bridge's memory of it, and the broker. MQTT commands
come from paho's thread as coroutines on the loop; the refresh loop and Toy Events
run beside them.

| Model | Code |
|---|---|
| `transport` | how the toy is reached: `lan`, where it reports; a BLE hub that is handed in (`hub`); a hub the bridge makes and scans with (`scan`) |
| `run`, `up` | what `start()` and `stop()` have got to (`_running`), whether MQTT is connected |
| `control` | whether `_control` is there: from the start, or once a scan is over |
| `queue`, `answer` | refreshes at `_lock`; the inventory that was asked for |
| `row`, `begun`, `levels`, `last` | `_toys` and the toy's status, `_initialized_toy_states`, `_feature_levels`, `_deduper` |
| `ready`, `cleared`, `published` | `_inventory_ready`, `_cleared_stale_safe_ids`, `_published_discovery` |
| `cmds` | commands under way: the levels they were merged with |
| `bridge`, `avail`, `disc`, `shown` | what the broker retains, and states as they were last seen |
| `real`, `link`, `events` | the toy, the app's list, reports under way |
| `muddled`, `missed`, `gap` | history: commands overlapped or something was lost, a state was lost, a goodbye was lost |

A command is cut where its request is awaited: the levels are merged before
and written back after. Requests reach the toy in any order; reports are handed over one
at a time in their order, or lost with the connection. What is published without a connection
is lost (QoS 0). A crashed process may have left discovery and availability retained (`Init`).

`start()` of a bridge that scans waits for the broker (`starting`), scans without a control
client (`scanning`), and refreshes itself before it goes on (`opening`); paho's thread connects
and loses the broker all the while. `stop()` is cut in three: it cancels the loop (`Stop`), says
goodbye and drops the broker's client (`Leave`), and has closed the control client (`StopEnds`).
An inventory that is answered while the control client is being closed is still written to `_toys`,
but not published; one that the close overtakes has failed. A toy list handed over by Toy Events
may be older than the toy, and a row in it without a status counts as connected: a list that says
otherwise than the toy is one of the odd events, and the next refresh corrects it. The inventory
of a refresh is taken with its status.

### Run, bounds, fairness

`bridge`: a toy on the LAN or one found in a scan, two commands and two reports under way at once, four events out of commands,
lost connections, failures, turns by hand and stops. Two commands are an overlap; four
events are a disturbance, a stop and what follows. `LevelsAgree` excepts what `muddled`
records, because the code does lose updates of overlapping commands (below); the
exception ends with the next undisturbed stop. A hub that is handed in is a scan that is over
before `start()`; the proofs cover it, the run does not. `FairSpec`: paho connects again and
the refresh loop goes on. Deadlock is not checked: a stopped bridge rests.

### Proofs

`HABridge_proof` proves `LevelsAgree`, `StopShowsOffline` and `MotorsApart`, for any
motors, levels, commands and bounds. The three meet in one invariant, `IInv`:

- `Single`: while nothing has overlapped there is one command at most, and one that
  counts as alone is the only one;
- `Known`, `Heard`: commands are for toys that are known, and of one that is not nothing
  is remembered or shown; reports are under way only while the bridge listens, which begins with an
  empty deduper; only a bridge that scans is between the broker and its first refresh;
- `Ended`: once `stop()` has said goodbye there is no connection, and what was said stands, and
  at its end every command left has failed;
- `Silences`: a stop that nothing has joined finds the toy at zero when it is answered;
- `Follows`: unless `muddled`, the last report of each motor says what the motor does
  (`Arrives`); a command for one motor carries the believed levels of the others, and so
  does every report of theirs under way (`Echo`); a command that was carried out was sent
  what the toy does; and with none to be answered a motor does what is believed of it, or
  a report of it is still to come;
- `News`: unless a message was lost, the first report of a motor under way differs from what
  `_deduper` remembers, each one from the one before, and the last is what the motor does;
- `Shows`: what was shown last is what is believed.

`LevelsAgree` compares the toy with a memory that is about to be changed by a queue of
reports. What the queue will make of the memory is not computed by a fold: the invariant says
which reports are first, last, or follow one another for a motor, and four lemmas say what a
turn of the motors appends (`SendsArrives`, `SendsTold`) and what the next report leaves
(`TakesArrives`, `TakesTold`). `News` is needed because a report is published only when the
deduper does not know it (`ha_bridge.py:689`): a report that it took for old would
change the levels and not what is shown. `muddled` ends with a stop because of `Silences`.

Assumptions: there are finitely many motors, `None` is not a value. `IInv` was checked by TLC on
the instance of `bridge` first, part by part.

## ServiceRuntime, CompositeBackend, SocketClient

### How the models correspond to the code

`SocketClient` is the loop of `connect_with_retry`: `retry` (about to test
`_stop_requested`), `opening`, `waiting` for `_closed`; `ws` tells a connection that is up
from one that is lost and not noticed; `io` and `lan` are the flags that the handshake sets.

`CompositeBackend` is one command: the parts that are asked whether they list the toy
(`ask`), those that have still to be given the command (`todo`), those that were (`given`)
and those that have had it (`had`). What a part lists and whether its toy obeys is free.

`ServiceRuntime` composes both with the life of the service:

| Model | Code |
|---|---|
| `cfg` | `self.cfg`: which transports are enabled, the credentials (for all of `_SOCKET_FIELDS`), auto-reconnect, the monitor's setting |
| `backend`, `hub`, `sched`, `open` | `self.socket_backend`, `ble_hub`, `scheduler`, by number; the schedulers not shut down |
| `supervisor`, `monitor` | the background tasks; the setting the scan was started with |
| `pc`, `job` | the await at which `apply_config` is, and its local variables `old_socket`, `old_hub`, `new_cfg` |
| `life` | `start()` and `aclose()` |
| `lapped`, `failed` | history: two requests have overlapped; the last one raised |

`apply_config` is cut at its awaits: the close of the old session, of the hub, of the supervisor,
of the monitor, of the previous scheduler, and the two requests to the cloud, either of which may
fail. An await that has nothing to wait for is none. The one that reads the toys for the OpenAPI
enums (`refresh_openapi_toy_ids`) is left out: a request changes nothing after it but the revision
of the state stream, and `start()`, which awaits it before it starts the workers, has no company. What the tasks of a cancelled connection still do
takes a few turns of the loop and is part of the step that cancels them. Requests under way are
over before `aclose()` (uvicorn drains them). Requests that change the configuration are taken
on under the first free call; the backend, client, hub and scheduler a request makes bear the
number of the request (`made`), the first ones the number 1, so that two requests which overlap
never share a new object.

### Run, bounds, fairness

`service`: two requests that change the configuration, at once or one after the other, out of
seven; one command; one lost connection; the end of the service at any time. Two requests are
the change and the change it collides with; a command meets either. `OneSession`, `ClosedIsSilent`
and `LinksKept` are stated for requests that did not overlap, because the code needs that
(below); `Reconnects`, `RequestsEnd` and `AccountKept` are not. `FairSpec`: the loop runs what is
ready, the cloud answers or refuses, a connection that is tried opens or fails, a ping over a
dead connection fails. Deadlock is not checked: a service that was closed rests. The instance
has 1.7 million states and takes about three minutes.

### Proofs

`ServiceRuntime_proof` proves, for any number of requests, updates, accounts, commands and lost
connections, `Spec => []IInv`, and from it

- for whatever overlaps: `TypeOK`, `AccountKept`, `OneScheduler`, `EachPartServed`;
- while requests have not overlapped: `OneSession`, `ClosedIsSilent`, `WorkersMatch`, `LinksKept`.

`IInv` has these parts; the last five say what the listed claims need:

- `RequestsOK`: requests under way have numbers of their own, belong to an open service, and
  are one at most while none has overlapped;
- `TransportsOK`: the transports fit the configuration, the backend is of the account in force,
  and what a request before its swap will keep is of the account it keeps it for (`Brings`);
- `SchedulersOK`: the scheduler that runs is the one of the service;
- `StartedOK`: the client a request is to make has not run; those that backends have were started;
- `ClientsOK`: a connection belongs to a client that waits for its end, and a client that may
  still open one was not told to stop;
- `SessionOK`: without overlap, nobody is alive from the close of a session to the opening
  of the next one, and whoever is alive is the client of the current backend;
- `HaltedOK`, `WorkersOK`: workers run only in an open service and were started for the
  configuration in force (`Fresh`), and a request that stops none changes nothing for them (`Spares`);
- `CommandOK`: the account a command was taken on under is that of the backend it remembers, and
  nothing given to it is dropped before it is answered.

`OneSession` is not inductive: that the session opened at the end of a request is alone needs
`SessionOK` at each of its awaits, and that needs `StartedOK`, since a client that was made twice
would be alive in two places. `ClosedIsSilent` needs in addition that a session which `aclose()`
finds is the only one. The clients run beside all this; that one which was told to stop opens nothing
more is the part of `SocketClient` on which the rest stands (`ClientsOK`, `CloseEnds`).
`AccountKept` needs no `Calm`, because an object's number is never given out twice; requests that
overlap lose sessions, but mix no accounts up.

The assumptions are those of the module: numbers for every request (`AskAssumption`), updates that
some route asks for (`UpdateAssumption`), and a `None` that is no command (`CommandAssumption`). TLC
checked `IInv` on the instance of `service` first. `Reconnects` and `RequestsEnd` are liveness and
stay with TLC.

## Further properties that hold

Each holds on the instance named, put in place of that run's properties, and is
broken by the fault named; the listed runs keep to the claims that say most.
`LockLive`, `CalmUrlIsOwned`, `NeverBack`, `AskedOnce`, `DecisionStands`, `OneScheduler`,
`WorkersMatch`, `EachPartServed` and the `TypeOK` of the modules with proofs are theorems as well.

| Property | Instance | Fault that breaks it |
|---|---|---|
| `NoneAbandoned`: a clean-up never takes a motor from a task that is alive | `scheduler_motors` | `OwnsUnchecked` |
| `TimedSlotsEnd`: every sleeping timed slot ends | `scheduler_live` | `WithoutNone` |
| `LockLive`: the BLE lock is queued for by those at it | `ble_routes` | `UnlockedNot` |
| `ForgottenDropsOut`: forgotten toys leave the status | `ble_live` | `KeptAll` |
| `CalmUrlIsOwned`: the link shown belongs to a process still owned | `tunnel_calls` | `UrlKept` |
| `SoleTail`: the registered tail is the only one alive, while calls do not overlap | `ble_direct` | `BeginOver` |
| `StopEndsHold`: a hub stop reaches the newest hold | `ble_direct` | `EventsKept` |
| `NeverBack`, `RefreshAnswered`, `BeatsOrWakes`: no older list, no refresh lost, frames or wake-ups go on | `stream` | `HoldsAny`, `TakeUpCleared`, `IdledNot` |
| `AskedOnce`, `DecisionStands`: one open request per visitor, no second decision | `gate` | `SamePrintNone`, `MayDecideAny` |
| `MotorsApart`: a command for one motor leaves the others, if nothing overlapped | `bridge` | `MergedAlone` (`ReportSingle` breaks `LevelsAgree`) |
| `OneScheduler`, `WorkersMatch`, `EachPartServed`: schedulers are shut down by who replaces them, workers are those of the configuration, a part that fails keeps nothing from the others | `service` | `SucceedLate`, `StopsKept`, `AbandonRest` (`SocketReadyWaits` breaks `RequestsEnd`) |
| `TypeOK` of every module | its safety run | `BackedOffTwice`, `IdleNone`, `CoerceRaw`, `EffectiveLeft`, `LeftBehind`, `FailedLate`, `ReleasedNot`, `StartBackgroundNot` |

## Known disagreements

Where the code does not keep what the repository says of it. None is a listed run;
TLC finds each property violated with the configuration named, on the module's `MC`
module (`socket_disconnect.cfg` on `SocketClient`), or, where none is named, on the
run's instance with the property put in place of the run's.

| Property, configuration | The code | What is said |
|---|---|---|
| `RunningMotorHasSlot`, `stop_previous.cfg` | `_cancel_slot` unregisters a slot before it cancels it; its `finally` no longer owns the motor and leaves `_levels`, and the next snapshot sends the level again (`scheduler.py:83`) | `models.py:55`: "cancel every active slot on this toy before applying this command" |
| `RunningMotorHasSlot`, `stop_motor.cfg` | over BLE a motor that a snapshot omits keeps its last level, so a stopped motor runs on while another is held (`scheduler.py:597`, `client.py:884`) | `routes/commands.py:215`: "Zero one motor, keep the others running" |
| `ReportedLevelIsCommanded`, `newest_tick.cfg` | the keeper of a first touch re-asserts the level it was created with after a newer tick (`scheduler.py:373`) | `scheduler.py:459`: "only rewrite the level + re-apply the snapshot" |
| `ParkedIsRegistered`, `parked_task.cfg` | a timed hold overwrites a slot registered while it awaited its predecessor; the overwritten keeper parks for ever (`scheduler.py:555`) | `scheduler.py:459`: "we keep one parked task" |
| `HoldHasNoTimer`, `hold_timer.cfg` | a hold that finds any task and any hold row of its motor reuses the task, also a timed one (`scheduler.py:472`) | `routes/commands.py:36` |
| `ReconfigKeepsPlayback`, `reconfigure.cfg` | shutting down the previous scheduler silences motors on links that are kept (`runtime.py:286`) | `runtime.py:247` |
| `ExtendedIsListed`, as `sessions` | `extend_session` renews the row it read before the backend call; the session may have ended meanwhile, the toy plays on and the answer says renewed (`scheduler.py:217`) | `docs/tutorials/fastapi-lan-rest.en.md:101` |
| `ListedIsPlaying`, as `sessions` | a stop between the look-up of a session and `track_session` leaves a row for a toy that is silent (`routes/commands.py:72-113`) | `GET /tasks` lists what runs |
| `PlayingIsListed`, as `sessions` | a scheduler closed between the backend call and `track_session`: the toy plays and no table has it (`routes/commands.py:107`) | `GET /tasks` lists what runs |
| `AnsweredDisconnectPauses`, as `ble_routes` | `note_connected` clears the pause after the connect has released the lock, whoever set it (`routes/ble.py:97`) | `routes/ble.py:311`: "Auto-reconnect is paused for this toy until /ble/reconnect or /ble/connect." |
| `ClosedIsDown`, as `ble_routes` | the hub is closed outside the lock, and the supervisor stopped afterwards (`runtime.py:266`) | `ble_direct/hub.py:403`: "Disconnect every registered toy." |
| `LinksRegistered`, as `ble_routes` | `add_toy(replace=True)` drops the entry before it refuses (`ble_direct/hub.py:196`) | a connected toy is registered |
| `RegisteredOnce`, as `ble_routes` | one-tap setup registers the address of a renamed toy again (`routes/ble.py:81`) | one entry per toy |
| `OnlineIsClean`, `ble_stale.cfg` | an attempt that waited for the lock marks a toy that came online meanwhile (`ble_supervisor.py:229`) | an error is shown for toys that are offline |
| `LevelsKnown`, as `ble_direct` | a query clears the memory of the motor that ran last; one motor set to 0 then stays on and is recorded as 0 (`client.py:1075`) | `client.py:625`: "last UART levels after each dual-motor" |
| `LevelStays`, `ble_level_stays.cfg` | the tail of an earlier timed level silences a later untimed one | `client.py:1228`: "If time is 0, levels stay until stop()" |
| `SkippedOnlyWhenSet`, as `ble_direct` | `set_vibration` records its level after the await; a tail that silences the toy in between is overwritten (`client.py:1047`) | `client.py:1074` |
| `SoleTail`, `ble_two_tails.cfg` | two concurrent presets leave a tail nobody can cancel (`client.py:820`) | `client.py:829`: "the sole deferred playback task for this link" |
| `HoldStopsAll`, as `ble_direct` | one toy of a coordinated hold fails its write, and the others run on (`ble_direct/hub.py:454`) | `ble_direct/hub.py:424`: "then stops all" |
| `DesiredHasWorker`, as `tunnel_calls` | a `start()` while `stop()` awaits the process finds the old worker and creates none (`tunnel.py:156`) | `tunnel.py:81`: "keeps it alive while desired" |
| `OneProcess`, as `tunnel_calls` | a `start()` before the cancelled worker has run makes its `finally` raise a `RuntimeError` in place of the `CancelledError`; it restarts beside the new one (`tunnel.py:271`) | `tunnel.py:81`: "Owns one ``cloudflared`` child process" |
| `Beats`, as `stream` | a wake-up that changes nothing restarts the heartbeat's count (`routes/events.py:197`) | `docs/web-ui.en.md:40`: "with a heartbeat in between" |
| `ListedIsOpen`, as `stream` | the hello frame is sent outside the `try` (`routes/events.py:168`) | `presence.py:65`: connected clients |
| `WatchingIsListed`, `stream_unlisted.cfg` | with three sockets of one tab, an open one may be missing from the table (`presence.py:109`) | `presence.py:65` |
| `PollSucceeds`, as `gate` | a second poll for a claimed grant is told it expired, although its browser holds the session (`access_gate.py:954`) | `access_gate.py:958`: "Already claimed by a concurrent poll — treat as success if cookie exists." |
| `GrantKept`, `gate_kept.cfg` | the purge drops a grant after 60 s (`access_gate.py:479`) | `access_gate.py:409`: a grant lasts 120 s |
| `OtherMotorKept`, as `bridge` | overlapping commands for two motors both carry the other's old level (`ha_bridge.py:783`) | `src/tests/test_home_assistant_mqtt_unit.py:316` |
| `StartStarts`, as `bridge` | a `start()` that timed out leaves the bridge running; the next one returns at once (`ha_bridge.py:372`) | `ha_bridge.py:371` |
| `DiscoverySettles`, as `bridge` | discovery published without a connection counts as published (`ha_bridge.py:674`) | a toy that stays is discovered |
| `LinksDropped`, as `service` | a disabled Socket keeps its session after `aclose()` (`runtime.py:184`) | `runtime.py:172`: "drop links" |
| `OneSessionEver`, as `service` | requests that overlap start from the same transports and leave a session nobody refers to (`runtime.py:250`) | one Socket backend per service |
| `PostedOpens`, as `service` | credentials that are posted again after the cloud refused them do not connect (`runtime.py:288`) | `routes/settings.py:75`: "opens the Socket.IO session" |
| `DisconnectEnds`, `socket_disconnect.cfg` | `disconnect()` during `connect()` is not seen by the loop (`socket_api/client.py:226`) | `socket_api/client.py:171`: "Stops when disconnect() is called." |

## What is proved, checked, and not modelled

Proved for every value of the constants, and checked by TLC on an instance:

| Module | Safety | Steps |
|---|---|---|
| `ControlScheduler` | `TypeOK`, `LocksLive`, `RegisteredAlive`, `ClosedKeepsNothing`, `RunningHoldDriven`, `RunningMotorHasSlot` (two hypotheses) | `NoGap` |
| `PlaySessions` | `TypeOK`, `RowWatched` | the refinement of `SessionBook` |
| `BleSupervisor` | `TypeOK`, `LockLive`, `PausedIsDown` | `PauseWins` |
| `CloudflaredTunnel` | `TypeOK`, `CalmOneProcess`, `CalmStoppedIsDown`, `CalmUrlIsOwned` | |
| `StateStream` | `TypeOK`, `RefreshIsFresh` | `RowIsOwn`, `NeverBack` |
| `AccessGate` | `TypeOK`, `CodeOnce`, `AskedOnce`, `GrantWaits` (`Keep > 1`) | `GrantOnce`, `DecisionStands` |
| `HABridge` | `TypeOK`, `LevelsAgree`, `StopShowsOffline` | `MotorsApart` |
| `ServiceRuntime` | `TypeOK`, `OneSession`, `ClosedIsSilent`, `AccountKept`, `OneScheduler`, `WorkersMatch` | `LinksKept`, `EachPartServed` |

Everything else is model-checked on the instances above:

- every liveness property, which is out of the prover's reach;
- `OneCentral`, `StoppedIsSilent` and `TimedSilent` of `BleDirect`. A task there is the list of
  steps it has still to run, so an invariant has to say of every remainder of every script what it
  still owes the toy.

Not modelled: parsing and formatting (replies of toys, MQTT payloads, QR codes,
OpenAPI, frames); the branding tables and pure helpers, which are covered by unit tests
and keep no state; `BleDirectHubSync`, a blocking facade over one loop thread;
clients of the Standard API that make one HTTP exchange per call; the middleware's
test for outside visitors, which decides on one request at a time; the frontend, which
the service sees as requests in any order; the launcher. The durations of sleeps,
time-outs and back-offs are abstracted to their order everywhere but in `AccessGate` and
`PlaySessions`, where a claim is about them.

## Plan

Done: every component that keeps state has a module, and eight of the nine have their safety
proved. What could follow: `OneCentral`, `StoppedIsSilent` and `TimedSilent` of a BLE client,
with the scripts of its methods as functions on places in place of lists of steps; an abstract
register per motor that the scheduler implements on instances without `stop_previous`.
