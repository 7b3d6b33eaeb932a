# Formal models of the Sanctify game code

This directory holds TLA+ models of the concurrent core of the repository: the
task and promise library `igasync`, the ECS scheduler of `igecs`, the session
layer of the game server, and the way of the game's state from that server to
the client. Each module is translated from the C++ source
it names; TLC checks small instances, and TLAPS proves the most important
properties for every value of the constants. `PROJECT.json` maps each definition
to the source lines it stands for and lists runs, mutants, findings, hazards and
theorems.

## 1. Inventory

### 1.1 Promises (`src/cpp/libs/igasync`: `promise.h`, `task_list.*`)

- **State**: `result_`, `accepts_thens_`, `then_queue_`, `consuming_then_op_`,
  `remaining_thens_`, three mutexes; a `TaskList` is a queue of tasks under a mutex
  with a list of listeners.
- **Operations**: `on_success`, `consume`, `resolve` (any thread, any number of
  them), `resolve_inner` and `maybe_consume_rsl` (the thread that runs a
  callback), `TaskList::add_task` and `execute_next`. The `then*` family is
  built from these on two promises.
- **Hard**: two opposite nestings of mutexes; the counter that defers
  consumption is read and written under different locks; registration races
  resolution; two consumers and two resolvers race.
- **Correct when**: the value is set once, each accepted callback runs exactly
  once with it, and one consumer takes it away after the callbacks accepted
  before.

### 1.2 Promise combiner (`promise_combiner.*`)

- **State**: `promise_ptrs_` with an `IsResolved` flag each,
  `is_combine_requested_`, `final_result_`, `final_promise_`, `rsl_mut_`. The
  combiner owns itself through `final_result_`.
- **Operations**: `add`, `combine` / `combine_chaining`, `resolve_promise` (from
  each input callback, and once from `combine`), the destructor of the result.
- **Hard**: `combine` raises its flag and calls `resolve_promise(0u)` in two
  steps; the destructor clears the map without a lock; ownership through a
  cycle and weak pointers.
- **Correct when**: it is `Promise.all`; nothing is freed early or leaked.

### 1.3 Executor threads (`executor_thread.*`)

- **State**: the attached lists, a round-robin index, two condition-variable
  mutexes, `is_cancelled_`.
- **Operations**: the thread's scan, its wait predicate, `add_task_list`,
  `remove_task_list`, `clear_all_task_lists`, `notify_task_added`, destruction.
- **Hard**: lost wakeups; the index survives erasure from an unordered vector;
  detaching while a task runs.
- **Correct when**: a detached list is quiet, no list is starved, and queued
  tasks run.

### 1.4 ECS scheduler (`src/cpp/libs/igecs`: `scheduler.*`, `world_view.*`)

- **State**: nodes with declarations and dependencies, the promises of a frame,
  the spin loop of the calling thread.
- **Operations**: `Node::Builder::build`, the validating constructor,
  `has_strict_dep`, `execute`, the tasks it schedules.
- **Hard**: the caller and a pool share the work; promises and combiners chain
  nodes; a hang timer aborts the process.
- **Correct when**: systems with conflicting declarations never overlap,
  main-thread systems stay on the caller, `execute` returns exactly when all is
  done.

### 1.5 Event scheduler (`src/cpp/sanctify-game/server/util`)

- **State**: an ordered set of timed tasks, `is_running_`, a condition variable.
- **Operations**: `schedule_task`, `cancel_task`, the event loop, destruction.
- **Hard**: cancelling races popping; notifications can be lost; time.
- **Correct when**: each task fires once, on time, unless cancelled before.

### 1.6 WebSocket sessions (`server/net`: `ws_server.*`, `net_server.*`)

- **State**: three connection maps with a mutex each, the timers of the first
  two, what the game was last told about each player.
- **Operations**: `on_open`, `on_message`, `on_close` (listener thread); request
  tasks, token exchange and verification callbacks, two timeouts (main thread);
  `kick_player`.
- **Hard**: three threads; state read before an asynchronous answer and used
  after it; timeouts that race answers; reconnects.
- **Correct when**: the game's view follows the map, timers match entries, and
  no connection stays open without being confirmed.

### 1.7 PvE game server and snapshot synchronisation

(`server/app/pve_game_server`, `client/src/net`, `client/src/pve_game_scene`)

- **State**: on the server the stage, the organizer's row of the player
  (connection, readiness, last acknowledgement), the snapshots it keeps, the
  times of the last snapshot and diff, the queue of outgoing messages; on the
  client the stage of the scene, the snapshot cache and the latest registered
  snapshot.
- **Operations**: a frame (acknowledgements, state, sending), connecting,
  confirming, losing a connection, pings; receiving full snapshots and diffs,
  acknowledging them.
- **Hard**: game thread, main thread, listener, network and several parsing
  threads; messages that outlive their connection; ids that start over; a cache
  that keeps what it should have dropped.
- **Correct when**: the client shows states the server had, in their order, and
  a diff is applied to the snapshot it was made from (as long as the client has
  heard of one session only: section 3 says when it hears of two).

### 1.8 Snapshot contents (`common/src/net/game_snapshot.cc`, `sanctify/common/logic/netsync`)

- **State**: sets of entities and components.
- **Operations**: taking, serialising, diffing and applying snapshots;
  reconciling the client's registry with one.
- **Hard**: what one diff leaves behind is under the next one; entity ids are
  used again; components of different types are treated differently.
- **Correct when**: the client ends up with what the server had: no ghosts,
  nothing stale, and nothing missing but what section 3 names.

### 1.9 The client's connection (`client/platform_src/netclient`, `client/src/app_startup_scene`)

- **State**: `WsClient`'s state and `on_connect_promise_`, `NetClient`'s state, the
  scene's `connection_state_`, the socket, the scene; no locks.
- **Operations**: `build_net_client` and `connect`, the library's four handlers,
  the tasks that parse messages, the callbacks up to `PveGameScene::Create`.
- **Hard**: three kinds of threads on the same fields; handlers that run before
  `connect` has returned; messages that overtake the server's answer.
- **Correct when**: an attempt ends with a result, `NetClient` agrees with
  `WsClient` on whether the connection is healthy once nothing is under way, and
  the scene is made for an accepted connection. (The scene's own
  `connection_state_` is not told what is true: its listener is set after
  `Healthy` was announced, so it stays `Disconnected` throughout.)

### 1.10 Other parts

`PROJECT.json` lists them all, with the reason why each is not modelled; see
section 5.

### 1.11 How the parts interact

Everything asynchronous goes through promises and task lists. A promise hands
callbacks to task lists; task lists are pumped by executor threads, by the spin
loop of the ECS scheduler, or by the server's main loop. The combiner is built
on promises, the scheduler on combiners. On the server the listener thread and
the event scheduler's thread only post tasks to the main loop's list; the main
loop runs the promise callbacks that confirm a player and reports state changes
to the game. The models compose along these lines through contracts:
`PromiseContract` is what `Promise` implements and what `PromiseCombiner` and
`EcsScheduler` assume; `PromiseAll` is what `PromiseCombiner` implements and
`EcsScheduler` assumes; `TimerContract` is what `EventScheduler` implements and
the module whose actions `WsServer` uses as its timers.

Above the sessions, `PveGameServer` has a game thread of its own. It and the main
thread meet in the `NetEventOrganizer` (one row per player behind a lock), and
the messages of a frame go through the main loop's task list to the connection
the player has by then. `GameSync` composes these with the network and the
client, naming snapshots and leaving their contents to `SnapshotDiff`; `Replica`
is what the whole promises. `ClientConnection` begins where `WsServer` ends, on
the other side of the socket: it assumes that the server answers or closes, which
is `NoLimbo` there, and ends with the scene whose stages `GameSync` has.

## 2. Modules and how they correspond to the code

| module | models | abstract specification |
|---|---|---|
| `Promise`, `MCPromise` | one promise and its task lists | `PromiseContract` |
| `PromiseCombiner` | one combiner, its inputs and owner | `PromiseAll` |
| `ExecutorThread` | executors and task lists | |
| `EcsScheduler`, `MCEcsScheduler` | building and executing a graph | |
| `EventScheduler` | the timed tasks of the server | `TimerContract` |
| `WsServer`, `MCWsServer` | connections, from open to close | uses `TimerContract` |
| `GameSync` | frames, sessions, snapshots, acks, the client's cache | `Replica` |
| `SnapshotDiff` | contents of snapshots, diffs, reconciliation | |
| `ClientConnection` | the client from the API request to its scene | |
| `PromiseProofs` | theorems about `Promise` and `PromiseCombiner` | |
| `ExecutorThreadProofs`, `EcsSchedulerProofs`, `EventSchedulerProofs`, `WsServerProofs`, `GameSyncProofs`, `SnapshotDiffProofs`, `ClientConnectionProofs` | theorems about the module of that name | |

**Grain.** A step is what no other thread can observe the middle of: a section
under one mutex, or an access to shared state outside of any. Where locks nest
(`Promise`, `PromiseCombiner`) the mutexes are variables. Where each section
takes a single mutex and calls nothing that blocks, the section is one action.
Each call is a process of its own, so every assignment of calls to threads is
covered. An action models the whole section: for instance `MaybeConsumeRsl` is
part of the action that calls it, as in the code.

**`Promise`.** `OnSuccessLock/Check/Push`, `ConsumeLock/Check`,
`ResolveStore/Lock/Flush/Settle` are the sections of the three calls.
`TakeTask` is `execute_next`; `RunThen` and `RunConsumer` are the callback;
`LoadCount/StoreCount/WorkerSettle` are `resolve_inner`'s decrement, split into
load and store because `maybe_consume_rsl` reads the counter without the mutex
when it is called from `resolve`. Values are the resolvers that set them.

**`PromiseCombiner`.** Every input callback is a process in `resolve_promise`;
`combine`'s own call is the process `Zero`. `Alive` collects the owners of the
combiner, and a callback that finds it gone is `"lost"`. Its names begin with
`Combiner` where `Promise` has the same one, for the sake of the proofs. `final_result_` and the
value of `final_promise_` are told apart as owning, moved-from or absent.

**`ExecutorThread`.** `TopCheck`, `InnerCheck`, `EvaluatePredicate`, `Pop`,
`Miss`, `FinishTask`, `ScanEnd`, `Sleep` are the thread; one scan serves both the
loop and the wait predicate, as their code is the same. An owner thread attaches,
detaches and destroys. `EraseUnordered` is `Vector::delete_at`.

**`EcsScheduler`.** `AddNode` is the builder; `Validated` is the constructor's
check with `IG_ENABLE_ECS_VALIDATION`; `Execute`, `MainFirst`, `ThenAny`,
`PassEnd` are `execute` and its spin loop. Another thread at the any-thread list
takes a task (`PoolTake`) and runs it (`PoolRun`) in two steps, as `execute_next`
releases its mutex in between; `holder` says which thread has the task of a node,
or of the frame, in its hands. A node's `status` says which promise or task
carries it.

**`EventScheduler`.** The loop's `Top`, `Pop`, `Post`, `FlushEnd`, `Decide`,
`Sleep`, `WakeUp`; a task that was popped and not yet posted is out of
`cancel_task`'s reach. Time is discrete; `Tick` may not pass the point where the
loop must have moved (`Deadline`), which is how the scheduling delay `Lag` is
bounded.

**`WsServer`.** The listener's handlers are split at the boundaries of the three
maps' mutexes, the main thread's tasks likewise. `FireTimer` may come at any
time and a fired timer runs between any two tasks: the thread that posts it can
be delayed for any time between taking it from the set and pushing it.
`CloseOrThrow` is `websocketpp`'s `close` without an `error_code`: it throws on a
connection that is not open, nothing catches it in the main loop, and
`crashed` ends the behaviour. `netState` is the last call of
`on_connection_state_change_cb_`, as `NetServer` forwards it. Timers are never
dropped here, although `EventScheduler` drops the second of two with one time
point: these would have to agree to the tick of the clock.

**`GameSync`.** A frame of the game thread is three steps, between which other
threads change what it reads: `FrameAcks` (the clock, `update_running`),
`FrameState` (`NetStateUpdateSystem`), `FrameSend` (`QueueClientMessagesSystem` and
the flush). `tasks` is the main loop's list, through which acknowledgements,
pings, confirmations and outgoing messages go in one order. `Disconnect` is the
listener's. `Receive` takes any of the first `Parsers` messages from the wire:
those before it are with other parsing threads. A snapshot is named by a session
and an id; sessions are not in the messages, only in the model, where they tell
contents apart, and `Mixture` is what comes of a diff applied to a snapshot of
another session. `Purged` skips the entry after each one it erases, as the loop
in `snapshot_cache.cc` does. `latest`, `born`, `due`, `heard`, `missed`,
`refused` and `org.paused` are history.
What `ReconcileNetStateSystem` shows is the latest registered snapshot: the
function that would simulate on from it is never called. Time is counted in
frames, and the server has been up for longer than both intervals.

**`SnapshotDiff`.** Two libraries have the same plan, and `lib` chooses. Component
types that are handled alike are one slot. `Unread` is the comparison with an
empty `Maybe`, whose memory may hold anything, so a changed component may be left
out of a diff. `LogicApply` erases the waypoints for a deleted location, as
`common_logic_snapshot.cc` does. `SendFull` and `SendDiff` include what the client
makes of the message; the order and loss of messages are `GameSync`'s.

**`ClientConnection`.** A handler of the library or a task is a job, a list of
accesses to shared fields, each a step: `Test`, `Resolve`, `Clear` of
`on_connect_promise_`, `SetState` of `WsClient`, and in its callback `Tell` and
`Store`: `NetClient::set_state` tests its state and calls the scene's listener, and
only then stores the state. `seen` is the scene's `connection_state_`. `UseHook` is
`connect` reading the field again after storing it. A null dereference sets
`crashed` and ends the behaviour. `WsClient::tick_clock` has no caller, so the
state `Unhealthy` is never entered and is left out. The server never rejects with
a message, but the client handles it and so does the model; a `foreign` answer
comes from a server of another version. The web variant is a mutant only: there
`inner_connect` resolves its promise at once (`ws_client_web.cc:130`), and the scene
is made for a connection nobody has accepted.

## 3. Runs

| run | instance | checks |
|---|---|---|
| `promise` | 2 callbacks, 2 consumers, 2 resolvers, 2 lists, 3 workers | `LockOrderSafe`, `IInv`, `ImplementsContract`, `AcceptedCallbacksRun` |
| `promise_consume` | 2 callbacks, 1 consumer | `ConsumptionAfterAllTasks` (violated) |
| `combiner` | 3 inputs | `ClearRacesNobody`, `ResultReadable`, `CallbackFindsCombiner`, `ImplementsAll`, `DeliveredAndFreed` |
| `executor` | 1 executor, 3 lists, queues of 2 | `TypeOK`, `DetachedIsQuiet`, `BoundedOvertaking`, `QueuedTasksRun` |
| `executor_wakeup` | 1 executor, 1 list | `AddedTasksRun` without recurring work (violated) |
| `scheduler` | 3 nodes, 2 pool threads, 6 declarations | `IInv`, `ConflictingNodesExclude`, `RunsInPlace`, `ReturnsWhenDone`, `HangMeansWaiting`, `ExecuteEnds` |
| `event_scheduler` | 3 tasks, 3 ticks | `OnTime`, `KeptUnlessTied`, `ImplementsTimers`, `DestructorReturns` |
| `ws_server` | 2 connections of 1 player, 1 request each | `NetStateFollowsMap`, `NoOrphanTimers`, `ConfirmedStay`, `NoLimbo` |
| `ws_server_ghost` | the same | `ConnectedMeansOpen` (violated) |
| `game_sync` | 2 connections, 2 sessions, 2 parsers, cache of 1 | `TwoSessionsExplained`, `RefusalExplained`, `BaseIsLastAck`, `ShowsServerStates` |
| `snapshots` | 1 entity, 2 values, both libraries | `NoGhosts`, `OmissionsExplained`, `ReconcileFollows` |
| `client_connection` | the answer and 2 messages of the game | `TypeOK`, `Connectedness`, `SceneMeansAccepted`, `CrashExplained`, `LossExplained`, `ResolvesUnless` |

Where a theorem states the type invariant of a module, no run repeats it, but for
`executor`, whose `TypeOK` also relates the two ends of every attachment.

Every property of a passing run has a mutant: a plausible slip in the code,
written next to the definition it replaces (`(* mutant: ... *)`), that breaks it.

### What the violated runs show

1. `promise_consume`: `consume` on a promise that already has a value schedules
   the consuming task at once. It can overtake callbacks accepted before, which
   then read a moved-out value; the comment in `resolve_inner` excludes that.
   The contract, and so `ImplementsContract`, asks for the order only of a
   consumer accepted while the promise was pending.
2. `executor_wakeup`: `notify_task_added` does not hold the mutex of the
   condition variable, so its notification is lost between scan and sleep. The
   property looks only at lists that were empty once they were attached and
   `add_task_list` had notified: what stays in them came through `add_task`.
   (`add_task_list` notifies without the mutex too, with the same effect on
   tasks that were in the list before.)
3. `ws_server_ghost`: a connection closes while its player is being verified;
   the callback enters it in `player_connections_` and reports the player
   connected, with no close to come.

### What the passing runs say of defects

Some properties hold because they name their exceptions, each of which is
something the code does and the run reaches (without it the property fails):

- `final_promise_` of a combiner may be resolved twice, the "double-resolve bug in
  here somewhere" of the comment at `promise_combiner.h:218`. `ResultReadable`
  and `ImplementsAll` show that the refused second value is its only effect.
- `KeptUnlessTied`: the event scheduler's set is ordered by time point alone, so
  the second of two tasks with equal time points is never inserted, and its caller
  gets an id for it all the same. That tie is the only way to lose a task.
- `RefusalExplained`: a diff is useless to the client for five reasons. The server
  did not notice that the client is another one; the client discarded the base
  while preloading; more full snapshots were under way than the cache holds; the
  diff has overtaken its base; or its base is itself a diff that was refused. In the
  last two the server takes the base to be acknowledged since the last
  acknowledgement outlives the session it was given in, or because one that was
  queued behind the confirmation of the next client is taken for that client's.
- `TwoSessionsExplained`, `ShowsServerStates`: ids start over with every session, and
  the client keeps what it has, so a client that hears of two sessions may mix
  their contents and show something the server never had. There are two ways to
  that: a session that had begun, or was beginning, when its connection was
  entered (a player who reconnects within a frame gets messages of the old
  session); and, on one and the same connection, a not-ready ping that arrives
  late and takes the ready flag back (`net_event_organizer.cc:213`), after which the
  next ping starts another session. While a client has heard of one session only,
  it shows states the server had.
- `BaseIsLastAck`: the base of a diff is a snapshot of the session under way with the
  id of the last acknowledgement. That acknowledgement may have been given in an
  earlier session, or the client may have dropped the base since: what comes of
  either is in `RefusalExplained`.
- `HangMeansWaiting`: the hang assertion may trip in a healthy frame, namely while a
  pool thread is late with a task it has taken from the list, be it bookkeeping of
  the frame, or has just put one on the caller's.
- `ReconcileFollows`: a slot that is new in the snapshot is compared with an empty
  `Maybe` and may be left out of the registry; every other slot follows.
- `Connectedness`: after a close that meets the callback of the failed promise,
  `WsClient` may say `MisconfiguredConnection` and `NetClient` `Disconnected`, or the
  other way round (both are not healthy); and the scene never hears that the
  connection is healthy.
- `OmissionsExplained`, `NoGhosts`: a diff may leave out a component its base did not
  have, because the comparison reads an empty `Maybe`; the successor library's
  deletion of a location erases the waypoints, and the location stays.
- `ResolvesUnless`, `CrashExplained`, `LossExplained`: an attempt to connect never
  ends if it fails before `connect` has stored the promise, or the answer has a
  foreign magic number; `on_connect_promise_` may be null where it is used, while
  `connect` has not returned or after a close; messages of the game are lost until
  the answer is read and the scene made.

### Bounds, and why they are enough

- *Promise*: the two race pairs (registration against resolution, counting
  against settling) need two callbacks and two workers on one list; the second
  list and the main worker give the order between lists, the second consumer and
  resolver the refusals. The proof covers all sizes.
- *Combiner*: three inputs are one resolved before `combine`, one that races it
  and one after. The fields treat inputs alike.
- *Executor*: three lists are the fewest for which erasing from the middle moves
  a list over the round-robin index. One executor suffices as executors share
  only the queues, and tasks may be taken and added at any time.
  A queue of `MaxQueue` stands for any longer one: a pop from it may leave it
  full. `overtaken` counts the tasks of all other lists together that run before
  the list has its turn, and starts over when a list is attached or detached; it
  stays below the number of lists, which is what the property says.
- *Scheduler*: three nodes give chains, forks and joins, and a pair of nodes with
  and without a path of length two. One type suffices, as conflicts are per
  type. Six declarations are the six accesses.
- *Event scheduler*: three tasks over three time points give equal, adjacent and
  separate times, with `Poll = 2` ticks between (the loop's 25 ms) and a delay of
  one tick. `End` lets each task run its course.
- *WsServer*: two connections of one player are a session and its reconnect.
  Players share nothing but the map, and connections of different players do not
  touch each other's entries, which the proof confirms for any number.
  `MaxRequests = 1` is what the clients send; `ConfirmedStay` is stated for that.
- *GameSync*: two connections and two sessions are what it takes to mix them.
  `CacheSize = 1` is the smallest cache that evicts, `FullEvery = 2` and `DiffEvery = 1`
  give frames with a full snapshot, a diff and nothing, two parsers let two
  messages change places. `MaxSent = 4` bounds the sum of session and id, so the
  first session has ids 0 to 3 and the second 0 to 2: a base, a diff on it and
  another full snapshot. The game thread waits while `MaxWire = 2` messages are
  under way, which only delays it. The theorems hold for every value of these. The
  fifth reason of `RefusalExplained` needs more messages under
  way than this: the attempt to prove the property without it failed at that
  case, and TLC reaches it with `FullEvery = 4`,
  `DiffEvery = 0`, `MaxSent = 5`, `MaxWire = 4`. The bounds bring the game to a
  stop, so deadlock is not checked.
- *SnapshotDiff*: slots of different entities do not touch each other, so one
  entity that dies and returns is enough; two values tell an old one from a new
  one. All its properties are proved for any entities and values.
- *ClientConnection*: the answer and two messages are the fewest of which two can
  overtake the answer and each other. Every message has a task of its own, every
  task a thread, so no bound hides an interleaving of these.

### Fairness, and why the code justifies it

Threads are scheduled (weak fairness of each thread's next step), callbacks and
tasks return, and locks are released by their holders. Beyond that:
`CombinerLiveSpec` and `EcsScheduler!LiveSpec` assume that a promise
handed out gets a value (rule 2 of `promise.h`); `ExecutorThread!RecurringSpec`
assumes that work keeps arriving on some list, as it does each frame, while
`LiveSpec` does not, which is where the lost wakeup shows. In `EventScheduler`
time passes. In `WsServer` nobody has to send, answer or close: only the two
threads run and timers fire, which is `TimerContract`'s own fairness. In
`EcsScheduler` the pool need not help at all. In `ClientConnection` the library
reports the end of every attempt to open a socket, and the server answers a
request or the connection closes, which is `NoLimbo` of `WsServer`; nobody has to
send messages of the game, and no fairness makes an open connection fail.
`GameSync` and `SnapshotDiff` state safety only and need none.

Deadlock is checked in every run but `game_sync`, whose bounds on snapshots and
messages stop the server. Models that come to an end have a `Finished` step for exactly
the states in which nothing is left to do; `snapshots` never stops.

## 4. Proofs

`PromiseProofs`, from `CallsAssumption` and `ListsAssumption` (calls, workers and
special values differ; each callback has a list):

- `PromiseInvariant`: `Spec => []IInv`. `ImplementsContract` alone is not
  inductive: that the counter reaches zero only when all callbacks have run
  depends on where each callback is (queue, list, worker, done), on one place at
  a time (`PlacesInv`, `ProgressInv`), on who holds which mutex (`MutexInv`), on
  nothing being scheduled before the value is set (`PendingInv`), on there being
  one consumer (`ConsumerInv`), and on the counter matching the callbacks
  outstanding while anyone may still depend on it (`CountInv`). There is one lemma
  per conjunct, with one step per action.
- `PromiseTyped`, `PromiseLockOrder`, and `PromiseRefinement`: initial states map
  to initial states of `PromiseContract`, and each step to one of its steps or a
  stutter.

`EcsSchedulerProofs`, from `SchedulerAssumption`:

- `SchedulerInvariant`: strict dependencies are transitively closed
  (`GraphInv`); a node has left `"waiting"` only in a validated graph and with
  its strict dependencies done (`StartedInv`); the combination of all nodes is
  resolved after all (`AllInv`); roots have left `"waiting"`, a pass that found the
  frame done has worked, and without a pool the main thread's list is empty once
  the caller has emptied it (`PassInv`).
- From it `SchedulerExcludes`: of two conflicting nodes one strictly depends on
  the other, by validation, and so cannot have started before the other was
  done; `SchedulerRunsInPlace`, `SchedulerReturns`, `SchedulerTyped`; and
  `SchedulerHangs`: when both lists are empty and the frame is not done, the first
  node that is not done has its dependencies done, so it is under way, or a pool
  thread has its task in hand, or its task waits on the main thread's list, where
  only the pool can have put it. A task in a thread's hands stays the task that was
  taken (`HeldInv`), since only that thread moves its owner on.

`WsServerProofs`, from `WsServerAssumption` (each connection has a player):

- `ServerInvariant`: the maps and the game's view (`PlayersInv`,
  `NetStateFollowsMap`), entries and their timers (`TimerInv`), and the requests
  under way (`WorkInv`, `SentInv`). The last two are needed because a request's
  timer is armed by a task that was queued long before: that its number is one
  the connection has sent, and its timer still idle, is what makes the entry name
  the right timer.
- From it `ServerTyped`, `ServerNetState`, `ServerTimers`.
- `ServerStaged`: the request of a connection that sent one is in one place at a
  time (listener, task list, questions, main thread, or confirmed), and its
  connection has left the map of the stage before. From both `ServerConfirmed`,
  the race of a timeout with the confirmation.

`PromiseProofs` also has the combiner, from `KeysAssumption`:

- `CombinerInvariant`: an input whose callback has passed the lock is marked and its
  entry stays (`MarkInv`), `combine`'s steps come in their order (`CombineInv`), and
  `final_result_` is moved from once, by a call that saw everything marked
  (`ResultInv`). The last part is what excludes a callback inside the loop when
  the result's destructor clears the map.
- From it `CombinerTyped`, `CombinerClearsAlone`, `CombinerReadable`,
  `CombinerOutlivesCallbacks`, and `CombinerRefinement`: the combiner implements
  `PromiseAll`.

`ExecutorThreadProofs`, from `ExecutorAssumption`, for any number of executors and
lists and queues without a limit in effect:

- `ExecutorInvariant`: where a scan is and whose task runs (`ScanInv`), and for every
  list how much of the current round is left: if a list is `o` slots ahead it was
  overtaken less than `Len - o` times, and while a task runs the round is the one
  that begins behind its list (`Due`). `BoundedOvertaking` alone is not
  inductive, as it does not say where the list is. The lemmas on `%` before it show
  that moving the index renumbers the slots and skips none.
- From it `ExecutorTyped`, `DetachedQuiet`, `OvertakingBounded`.

`EventSchedulerProofs`, from `TimeAssumption` (in which the delay of the thread is no
longer than one sleep, 25 ms; beyond that lateness would need another bound):

- `EventInvariant`: a task is in one place (`SetInv`), the loop takes only what is
  due (`DueInv`), its thread keeps its deadlines (`LoopInv`), and the time it next
  looks is near enough to every task's time point (`LateInv`), which is what `OnTime`
  needs and does not say.
- From it `EventTyped`, `EventsOnTime`, `EventsKept`, and `TimersSafe`: every step is a
  step of `TimerContract` or a stutter. `ImplementsTimers` also has fairness, which
  stays with TLC.

`GameSyncProofs`, from `GameSyncAssumption`, for any intervals, cache, parsers and bounds:

- `SyncInvariant`: the ids the server keeps are an interval from an acknowledged one
  (`SentInv`), every message names a state the server had (`MessageInv`), and the
  cache holds sessions the client has heard of, or a mixture if these are two
  (`CacheInv`).
- From it `SyncTyped`; `SyncSessions`, which needs that the server begins one more session
  at most while a client is connected and nobody takes the ready flag back, and
  that the player stays all the while what a session needs (`SessionInv`); `SyncBases` (that the least kept id is the last ack needs the
  interval); and `SyncRefinement`: the composition implements `Replica`.
- `DeliveryInvariant`: as long as a connection has lost nothing to preloading, every
  snapshot the server took since the client came is known to it (stored, dropped
  from the cache, or refused) or on its way, on the main thread's list or the wire
  (`TakenInv`); the base of a diff is known or ahead of it (`TasksInv`, `WireInv`). The
  first part is needed because the base of the next diff may be any of them, the
  order because messages leave the list as they entered it and overtake each
  other only between the parsing threads, where overtaking is one of the reasons.
- From it `SyncRefusals`.

`SnapshotDiffProofs`, from `SnapshotDiffAssumption`:

- `DiffInvariant`: both the current snapshot and the acknowledged base are copies, the
  client's of the server's (`Copies`): nothing held by a dead entity, every value
  the server's or missing, and the time never lost. The base is needed since the
  next diff is applied to it, the dead entities because their ids return.
- From it `DiffTyped`, `DiffsLeaveNoGhosts`, `DiffOmits`, `DiffReconciles`: every property of
  the run.

`ClientConnectionProofs`, from `ConnectionAssumption` (messages and the threads of
the socket differ), for any set of messages:

- `ConnectionInvariant`: which thread may be in which list of accesses (`JobInv`; the
  lists have names, and lemmas say how each goes on), what precedes what in the
  life of the socket (`SocketInv`), who may have given the promise its value and
  cleared it (`PromiseInv`), and what `WsClient` and the game believe (`BeliefInv`).
  `Connectedness` is not inductive: after the handler of the end has set `state_`, a
  task with the server's answer can make the client healthy again. That it cannot
  keep it so rests on the promise: the handler has cleared it unless it came
  before it was stored (`missed`), so that task dereferences null. Therefore the
  last two parts are claimed of the states before a crash.
- `ConnectionAgrees` needs more (lemma `Beliefs`): while the connection is not closed,
  all threads that have something to tell have the same, `WsClient`'s state, so
  `NetClient` ends with what belongs to it (`ToldInv`); and whoever tells anything once
  there is a scene tells the end of the connection, which is no news to the scene
  (`SeenInv`).
- From it `ConnectionTyped`, `ConnectionAgrees`, `SceneAccepted`, `CrashesExplained`,
  `LossesExplained`: every property of the run but the one under fairness.

**Only model-checked**: everything under fairness (`AcceptedCallbacksRun`,
`DeliveredAndFreed`, `QueuedTasksRun`, `ExecuteEnds`, `DestructorReturns`,
`NoLimbo`, `ResolvesUnless`, and the fairness part of `ImplementsTimers`), since the
prover handles neither liveness under fairness nor `ENABLED`. Every invariant and
every action property of a passing run is a theorem.

## 5. Assumptions and what is left out

- A `TaskList` is a vector behind a mutex, so it is first in first out; memory is
  sequentially consistent between accesses the models order, and an unlocked
  field is read and written as a whole.
- Allocation succeeds and callbacks do not throw, except `websocketpp`'s `close`.
- Each executor attaches a list at most once (all callers do) and its owner is a
  thread other than the executor.
- `unsafe_sync_move`, the data in results, messages and components, log output.
- `WsServer`: starting and stopping the endpoint and sending messages.
- `GameSync`: a second player (the server is configured with one, and
  `try_connect_player` refuses others), movement commands and pongs, the game's
  content. `shutdown` resolves at once and stops nothing.
- `ClientConnection`: the API request, the web variant, a second `connect` on one
  client (no caller), rendering and loading. The last callback of loading
  (`pve_scene_load.cc:143-170`) writes the world on another thread while the main
  thread may read it: a data race within the registry.
- **Not modelled.** The *reliable packet protocol* (`reliable.cc`) is a port of
  reliable.io that nothing uses and that cannot be linked: `store_fragment_data` has
  no definition. `next_packet_sequence` never advances, `test_insert` is the
  negation of its original, the number of fragments is a sum instead of a
  quotient, and ack bits are cut to 16; there is no behaviour to check before
  these are settled. *Gameplay* is floating-point geometry. The *containers* of
  `igcore` are sequential and their unit tests reach them; the operations the models
  use (`delete_at`, `trim_front`, `insert_or_update`) are in those models.
  *Rendering, GPU, asset, navigation mesh, map editor and platform code* is drawing,
  third-party calls and I/O; *vendored and generated code* (half of `igasync`'s
  lines are moodycamel's queue) is not this project's. The *older game server,
  scheduler and netsync* are not wired into any program.
- `PROJECT.json` lists the hazards no property covers, each with the reason.

## 6. Plan

1. Two expected players in `GameSync`, once the server is configured with more than
   one, and the web client as a second variant of `ClientConnection`.
2. The reliable protocol when it is finished: sequence buffers, ack bits and
   fragments with 16-bit numbers, against reference definitions.
