# llm-orch in TLA+

llm-orch is an HTTP gateway that starts, shares and stops local LLM backends
("instances": one child process each).  This directory holds TLA+ models of its
core logic, TLC configurations that check them on small instances, and proofs
that TLAPS checks.  `PROJECT.json` ties every definition to the lines it models.

1. [The system](#1-the-system)
2. [Modules](#2-modules)
3. [Runs](#3-runs)
4. [Proofs](#4-proofs)
5. [What the code does that a reader may not expect](#5-what-the-code-does-that-a-reader-may-not-expect)
6. [Not modelled, and the plan](#6-not-modelled-and-the-plan)

## 1. The system

| Component | State | Operations | Hard behaviours |
|---|---|---|---|
| Slots (`instance.rs`) | per instance: state, `in_flight`, `child`, port, fingerprint | `try_acquire`, `SlotGuard::drop`, `mark_ready` | a slot is selected under the registry lock and taken under the instance lock; guards travel through channels whose receiver may be gone |
| Request queue (`scheduler.rs` `enqueue`, `wake_one`, `remove_queued`, `drain_queue_if_no_instances`) | per model: deque of oneshot senders | park, wake, re-park, time out, drain | wake-ups run concurrently in the parking request, the release task and the spawn task; an entry in a waker's hands is in nobody's queue |
| Instance lifecycle (`try_spawn`, `remove_instance_impl`, `unregister_instance`, `handle_crash`, `reap_drained`, `shutdown_all`; `backend.rs`) | registry, children, crash counts, blocked models | spawn, poll, discard, drain, reap, crash, shut down | several removers of one instance; an instance retired while it loads becomes Ready; reloads in the middle of a spawn |
| Candidate selection (`acquire_for_candidates`, `should_spawn`) | a request's position in its list of models | choose an instance, wait for a spawn, make room, or queue | state read before an await is used after it |
| GPU selection (`select_gpus_inner`) | none: devices and VRAM follow from the registry | pick devices for a spawn | one card has a number in two namespaces; asked for outside the spawn semaphore, too |
| Make-room (`plan_make_room`, `execute_make_room`) | the plan | plan victims, remove them, spawn | the plan is not revalidated while it is executed |
| Autoscaler (`evaluate_autoscale`) | metrics, hysteresis clocks | sample, scale up and down, evict, reap | decisions from samples taken before awaits |
| Port allocator (`port_alloc.rs`) | set of leased ports, scan position | allocate, free, change the range | u16 wrap-around; probes race with other processes |
| Keep-alive (`keepalive.rs`) | reference counts; task table | acquire, release, stop_all | counts and tasks have separate locks |
| Configuration (`config.rs`) | none | load, validate | which boundaries the scheduler relies on |
| Configuration reload (`reload.rs`, `watcher.rs`, `main.rs`, `reconcile_config`) | running configuration, key table, last mtimes, watcher, event channel | debounce, gate, load, reconcile, swap, follow | files change while a reload is under way; events are lost; two files depend on one another |
| HTTP handlers and SSE forwarding (`handlers.rs`) | slot guard, line buffer, `[DONE]` seen, newest chunk | resolve, acquire, wait, forward, record, drop | chunks split anywhere; every wait has its own timeout, or none; the client leaves mid-stream |
| API keys (`apikeys.rs`, `server.rs`) | key table | parse, authenticate | replaced by reloads |
| GPU readers (`gpu.rs`, `nvidia.rs`), logging, HTTP client, stub backend, packaging | - | - | I/O and formatting |

How they interact.  A handler calls `get_or_spawn`; it ends with a `SlotGuard`
that the response stream owns.  Dropping the guard decrements `in_flight` and
sends the model's name on the release channel; the release task (`main.rs`)
answers each event with `wake_one` and `reap_drained`.  A spawn task, detached
and one per model, registers an instance, polls it, compares its configuration
with the running one and wakes a waiter.  The autoscaler reaps and removes on a
timer, the reload loop retires and unloads, a monitor per instance reports
crashes to the crash task.  All of them meet in the registry, the queues and the
instances, each under a lock of its own.

What makes the components correct:

- slots: a counter equals the guards in existence, never exceeds the limit, and
  no guard is stranded;
- queue: a waiter has exactly one entry until it has its answer, and every
  request is answered;
- lifecycle: a port is freed once; an instance that is retired or dead is in
  somebody's hands; a model is blocked for crashes and for nothing else;
- selection, make-room, autoscaler: no card is given more than it has, no model
  exceeds its cap, no request is interrupted by a removal;
- ports: two leases never coincide and stay in the configured range;
- keep-alive: the count of a GPU is the number of instances on it, and the task
  runs while there are any;
- reload: no edit is forgotten, a reload replaces everything or nothing, keys come
  with the configuration that names them, and what is in force can be served;
- forwarding: what is forwarded is what arrived, once, in order; a truncation is
  visible; a silent backend does not hold a slot for good.

## 2. Modules

| Module | Models |
|---|---|
| `SlotQueue` | one model's slots and queue, and every task that moves either |
| `SlotPool` | what that promises its clients: a bounded pool of slots |
| `InstanceLifecycle` | one model's instances as processes: spawns, crashes, removals, reloads, shutdown, ports |
| `GpuSelect` | `select_gpus_inner` as operators: occupancy, VRAM by PCI slot, capacities, ranking |
| `Fleet` | the instances of all models on all GPUs, `spawn_feasible` |
| `Scaling` | requests with several candidates, make-room, spawns and the autoscaler on one fleet |
| `ScalingHistory` | the same, watched by a history: which instances came back from a removal |
| `PortAlloc` | the port allocator, its users, and the sockets around it |
| `PortAllocHistory` | the same, watched by a history: what a scan has tried, whether the operating system has chosen |
| `KeepAlive` | reference counts and tasks per GPU, and the reload's rebuild |
| `KeepAliveHistory` | the same, watched by a history: whom a manager has counted, and which overlaps there were |
| `ConfigRules` | `Config::load` and `validate`, and what the scheduler relies on |
| `ConfigReload` | watcher, debounce, channel, gates, reload task |
| `SseForwarder` | the stream wrapper that turns bytes into events |
| `StubBackend` | what the stub backend, and one that sends comments, streams |
| `Forwarding` | one exchange at any endpoint: slot, waits, timeouts, stream, record |
| `MC...` | constants and symmetry for TLC |
| `...Proofs` | theorems (section 4) |

`SlotQueue` and `InstanceLifecycle` look at the same functions of `scheduler.rs`
from two sides: the first has the requests and their wake-ups and treats an
instance's process as a flag, the second has processes, ports, crashes and
configurations and treats requests as a counter of at most one.  `Scaling` has
many models and takes from the first what `SlotPool` promises (a queue is a wait
for a free slot) and from the second that a removal is a sequence of steps.
`PortAlloc` and `KeepAlive` are called by `try_spawn` and `unregister_instance`
under locks of their own; `InstanceLifecycle` has the table of leases and leaves
the scan to `PortAlloc`.

### SlotQueue

One action per critical section.  The tasks and their program counters:

- **Requests** (`pc`): `GetOrSpawn` (`acquire_for_candidates` with one
  candidate), `SpawnWaited` (the bounded wait in `spawn_and_acquire`),
  `TakeSlot` (`try_acquire`), `Enqueue`, then `Receive`, `ReceiveClosed`,
  `Timeout` followed by `RemoveQueued`, and `Finish` or `Disconnect`, which drop
  the guard.
- **Wakers** (`task`, `hand`, `pick`): `wake_one` as `WakePop`, `WakeFind`,
  `WakeTake`, `WakeSend`, `WakeRepark`.  It runs in the parking request, in the
  release task and in the spawn task; all three may be in it at once.
- **Release task**: `ReceiveRelease`, `wake_one`, then `ReapDrained` and
  `ReapNext`.  **Autoscaler**: the same reap, on its timer.
- **Spawn task**: `SpawnRegister` or `SpawnRefused`, `SpawnReady` or
  `SpawnFailed`, `SpawnCheck`.  `EnsureSpawn` keeps it single-flight.
- **Removals**: `RemoveInstance` (unload, scale-down, make-room),
  `RetireStale`, `UnloadModel`/`UnloadNext`/`RemoveModel` (a reload that drops
  the model), `HandleCrash`; each leads through `Unlist`, `DrainCheck` and
  `DrainQueue`, which are `unregister_instance` and
  `drain_queue_if_no_instances` cut where the locks are.

`guard[r]` is the `SlotGuard` in the channel or handler of `r`, `Closed` once
its sender was dropped.  `releases` counts the events in the release channel,
which are all the same for one model.  `removal[i]` is how far the removal of
`i` has come.

Abstractions.  Load metrics and VRAM decide whether a request may spawn: both
answers are allowed (`SpawnOrQueue`).  `find_ready_instance` locks the instances
one after the other; `LeastLoaded` is one look, and the later `try_acquire`
checks again.  A model is not added back after a reload removed it, and an
instance that was removed does not return: a new spawn is a new element of
`Instances`.  A request has one candidate and make-room is off.

### InstanceLifecycle

- **Spawn task** (`spawn.pc`): wanted, a port leased, registered and polled
  (`poll`), Ready and compared with the configuration in force (`check`), or
  cleaned up after a process that died or was too slow (`clean`), after which the
  crash is counted and the model blocked (`block`) in critical sections of their
  own.  `spawn.took` says whether the task got the child to shut it down.
- **Removals**: a removal belongs to no task here.  `BeginRemoval` sets Failed
  and takes the child if it is still there; `Kill`, `Unregister` and `FreePort`
  follow, and the sets `killing`, `unlisting` and `freeing` say which instances
  are at which step.  An admin, the reload, the release task, the autoscaler, the
  crash task and the shutdown all come through there, so two of them at one
  instance is a normal state.
- **Crashes**: a process may end by itself at any time; its monitor reports it
  (`reported`) unless it believes a removal is under way, and the crash task
  removes the instance under the same belief.  `crashes` is the counter the code
  keeps, `deaths` the history of what really happened.
- **Reload** (`reload.pc`): unload the instances of a removed model, retire those
  with another configuration, swap, unblock, forget the crashes: one step each.
  `model_configs` and `cmd_aliases` are swapped under two locks; `Swap` is one
  step, so no spawn of the model compares itself with the models of the one
  configuration and the aliases of the other.  No property a run passes depends on it.
- **Unblock** (`unblocks`): `admin_unblock` looks whether the model is blocked
  (`UnblockModel`), then `unblock_model` clears the flag (`ClearFlag`) and forgets
  the crashes (`ForgetCrashes`) under two locks.  Any number of operators may be
  between these steps, and a spawn or a count may come in there.
- **Shutdown** (`mode`): drain, stop what is left, down.

Configurations are compared by fingerprint, so `Versions` are model values.

### GpuSelect, Fleet, Scaling

`GpuSelect` has no state.  A *view* is what a configuration says (sections,
device maps, limits), a *fleet* maps instances to model and devices.  Of the
places in a model's pool, `Candidates` are those whose device fits; `Ahead` ranks
them (least occupied, most free, lowest number, then by place, because the code's
sort is stable), by the set of those in front of each; `SelectGpus` takes as many
as the model needs, in that order, or none.  `Placeable` is `spawn_feasible`'s
question, whether there would be any.  `ConfigRules` uses it on an idle machine,
`Scaling` on the one that runs.

`Scaling`:

- **Requests** (`pc`, `round`, `at`): `PassA`, `Consider` (the passes of
  `prefer_loaded`, and `prefer_order`), `SpawnWaited`, `PlanMakeRoom`,
  `ExecuteMakeRoom`, `AwaitDrained`, `Park`, `Served`, `GiveUp`, `Finish`.  The
  plan is made victim by victim in one critical section's view of the fleet and
  carried out victim by victim, with everything else in between.
- **Spawn task** per model: `TrySpawn` checks cap and memory again and registers,
  `serial` while it has the semaphore, `loading` when a slow load has given it
  back, `cleaning` after a failure.
- **Autoscaler**: `NextModel`, the reaping, then `ScaleUp`, `Shrink` with
  `ShrinkNext` per instance, or `Leave`.
- **Workers** (`todo`, `hand`): whoever removes instances has a list and one
  instance in hand; `Terminate` is `shutdown_child`, `Unregister` what follows.

Load averages, ages, cooldowns and protection windows are left open: a decision
that depends on them may go either way.  `select_gpus_inner` takes several locks
one after the other and is one step here: registrations are serialised by the
spawn semaphore, and a removal in between only frees memory.

### ConfigRules, ConfigReload

`Parsed` is what serde reads, `Valid` every rule of `validate`; a command line is
a sequence of words of which it matters whether they are the offload flag and
what number they carry, if any.  `OffloadDecl` is the code's enum.
`Serviceable` is what the rest of the program relies on: on an idle machine every
model can be placed, and a model without devices stays on the CPU.

`ConfigReload`: `Edit` writes or removes a file at any time; `Broadcast` is the
debounce task, with events in any order and a channel that drops the oldest; the
reload task is `Receive` or `Lagged`, then `Stat`, `Load`, `LoadKeys`,
`Reconcile`, `Swap` for the configuration, `KeyStat`, `KeyLoad` for the keys, and
`Follow`, which rebuilds the watcher when the configuration names another key
file.  An mtime is the time of the edit, so those of two edits differ.  At the
start the configuration is one that loads, because `main` ends otherwise; the key
files contain anything or are not there, and without keys that load the store is
empty (`FailClosed`).  Four histories: `refused` and `missed` say when nothing can
be promised of an edit, `before` is what was in force when a reload began, and
`crossed` says that the keys were reloaded from the file the watcher followed when
the configuration named another already.

### SseForwarder, StubBackend, Forwarding

A stream is a script of blocks; item `2k-1` is the text of block `k` and item
`2k` its blank line, so a chunk that ends anywhere ends behind some item.
`ForwardEvent`, `ReceiveChunk`, `PollPending`, `StreamError`, `StreamEnd` and
`IdleTimeout` are the branches of one call of `poll_next`.  `Forwarding` puts the
handler around it: an endpoint is a set of ways to forward (`Ways`), a way says
which timeout bounds each wait, what is recorded and what can be streamed.
The properties compare the client's events with the backend's stream by counting:
the event of block `k` is event number `Cardinality(EventsOf(k))`.

### PortAlloc

The lock is held over a whole scan (`holder`), but one iteration is one step
(`ScanPort`), because sockets change between two probes: `listening` are the
backends that have bound their port, `others` the ports bound by anybody else.
`MaxPort` is 65535 in the code; `Advance` wraps behind it.  `Free` stands for
every path that gives a port back; a second remover may do so while the process
is still shutting down, and then the socket counts among `others`.

### KeepAlive

Every instance has two actors, its spawn task and its remover, and the reload is
a third kind.  An actor registers (or unregisters) its instance, fetches the
manager in force (`Fetch`), counts (`Acquire`, `Release`), and then starts or
stops the task (`StartTask`, `StopTask`); each of these is a critical section of
its own.  `SwapDevices`, `Rebuild`, `Replace` and `ListInstances` are the parts
of `reconcile_config` that keep-alive sees: a new map of PCI slots, then, if the
keep_alive section changed, a new manager and counts made afresh.  An instance
occupies one GPU; with several, the code repeats the same calls.  `Admin` names
what may happen: `overlap` lets spawns and removals interleave, `race` lets a
reload run while they are under way, `early` lets a removal precede the first
count, `remap` lets a reload change the map of slots and keep the manager.  The
code prevents none of it, so the run and the proofs allow all four; `Admin` only
serves to find the shortest counterexample of a claim.

The code does not keep its counts exact in every such overlap (section 5).
`KeepAliveHistory` therefore records where it may not: `astray` are the GPUs of an
instance that was unlisted before it was counted (`OvertakesCount`), that was
listed between a manager's replacement and its rebuild (`CountedTwice`), that was
between listing and fetching when the manager was replaced (`BetweenListAndFetch`),
or that was moved to another slot while it was in use (`Moved`); `tangled` are
those on which two actors were between the count and the task at once.  The
properties say that there is no other way to a wrong count or a wrong task, and
`EveryUserCounted`, without any exception, that a rebuild forgets nobody.  None of
the exceptions is there for convenience: without any one of them TLC finds the
property violated.

## 3. Runs

| Run | Question | Bounds |
|---|---|---|
| `entries` | is a waiter ever lost, queued twice, or left with a slot it cannot use? | 3 requests, 1 instance with 1 slot, depth 2, unloads and crashes |
| `turnover` | do counters match guards, and do clients see a pool (`ImplementsPool`), while instances replace one another? | 2 requests, 2 instances with 1 slot, a reload |
| `liveness` | is every request answered and every retired instance reaped? | 2 requests, 1 instance, stale configurations, the autoscaler |
| `ports` | is a port ever leased twice or lost, is a scan exhaustive, and does it stay in the range in force, across reloads to and from the ephemeral mode? | 3 spawns, 2 overlapping ranges, ports 0..4 |
| `keepalive` | which overlaps of spawns, removals and reloads lead a count or a task astray, and does a rebuild ever forget an instance? | 2 instances, 2 GPUs, 2 managers, everything in `Admin` |
| `lifecycle` | is a port freed once, a model blocked for crashes only and at their limit, and an unroutable or dead instance always attended to? | 2 instances over time, 2 ports, 2 configurations, cap 1, limit 2, 3 outside events |
| `scaling` | does a plan or list that has gone stale ever oversubscribe a card, exceed a cap or end a process that serves? | 2 models, 3 cards, 3 instances over time, 2 requests, 2 turns of the autoscaler |
| `reload` | is an edit forgotten, is a reload all or nothing, do keys and configuration belong together, can what is in force be served? | 6 configurations, 3 key files' contents or none, 2 key paths with anything at the start, 3 edits, a channel of 1 |
| `forward` | is anything lost, doubled, silently truncated or falsely recorded, and does the slot come back? | every endpoint and stream of the stub backend, 2 content blocks, chunks that end anywhere |

Why these bounds are enough for the questions asked.

- A wake-up race needs one waker that holds a waiter, one that finds the queue
  empty or holds another, and one request that frees or takes the slot: three
  requests on one slot.  A turnover needs the instance that leaves and the one
  that arrives.  The limit of one slot makes contention immediate; the proofs
  hold for any limit.  In `SlotQueue`, `Admin` names the administrative events a
  run allows, because together they multiply the states without adding
  interactions; every event is allowed in some run, and the proofs hold for
  every subset.
- Ports: a range of two or three ports has a first, a last and a position behind
  the last, which is what the scan distinguishes.  They end below `MaxPort`: the
  wrap at 65535, where the code leaves the range, is in `PortAlloc_LeaseInRange`
  only.  Keep-alive: a race needs one instance that leaves a GPU and one that lands
  on it; the second GPU shows that they do not mix, the second manager is the one
  that replaces.  Three managers (4.4 million states), and three instances on one GPU
  (2.3 million), showed nothing else.
- Lifecycle: what goes wrong takes an instance and its successor, which may get
  the port of the first; three events are a reload, a crash and a removal, or two
  crashes, which is the limit, and an unblock.  Four events (2.5 million states) showed
  nothing else.
- Scaling: the large model needs two cards, which have numbers in both
  namespaces, the small one may be on all three; so there are evictions of one
  and of two victims, a spawn that fits before and not after another, and a
  victim that becomes busy.  `Surplus` is the set of models the autoscaler evaluates, and
  `MaxTurns` how often.
- Reload: two edits make a file change under a reload, the third makes another
  edit's event overflow the channel.
- Forwarding: two content blocks make a chunk with a part of one, one, and more
  than one; what the code distinguishes is the block at hand and whether it is the
  last.

A run whose name starts with `refute_` states what a comment says, and TLC finds
a behaviour of the code that contradicts it:

| Run | What the code does |
|---|---|
| `refute_HeadWaiterServed` | `wake_one` found no slot; before it re-parks its waiter a slot comes free, by a release or a spawn, whose own `wake_one` finds the queue empty, as may that of a newcomer.  The waiter sits beside a free slot until the next release or its timeout. |
| `refute_NeverInterrupted` | a scale-down removes an idle instance without asking whether it is Ready.  One that is still loading answers its health poll while it is shut down, `mark_ready` overwrites Failed, and a request is served by a process that is being killed. |
| `refute_OutdatedIsGone` | a reload unloads the instances of a removed model, then swaps the configurations.  A spawn that registers and compares in between leaves a Ready instance of a model nobody knows; neither the autoscaler nor an unload, which go by the configuration, remove it. |

### Configurations that are kept beside the runs

They belong to claims that the code does not keep, too, and are started by hand
(`tlc -config X.cfg M`); each ends with a counterexample.

| Configuration (module) | What it shows |
|---|---|
| `SlotQueue_QueueIsFIFO` (`MCSlotQueueOrder`) | two wakers re-park the waiters they popped in the order they popped them: the later one ends up first |
| `SlotQueue_NoStrandedWaiter` (`MCSlotQueue`) | the last instance's drain misses the waiter in a waker's hands, which is then parked behind nothing and waits out its time |
| `SlotQueue_ReapedIdle` (`MCSlotQueue`) | an instance retired while it loads is listed as drained, becomes Ready, takes a request, and is killed |
| `PortAlloc_LeaseInRange` (`MCPortAlloc`) | a range that ends with 65535: the scan wraps to port 0, which every probe finds free |
| `KeepAlive_TaskFollowsCount` (`MCKeepAlive`) | a release that counted to zero stops the task an acquire has found running since |
| `KeepAlive_ReferencesReturned` (`MCKeepAlive`) | a reload of the devices makes an instance release another slot than it acquired |
| `Scaling_NamedOnce` (`MCScaling`) | a pool that names one card twice passes `validate`; a model of two GPUs gets that card for both, which has room for one (`NoOversubscription` without the hypothesis of `MemorySuffices`) |
| `Scaling_UnlistedIsDead` (`MCScaling`) | the second of two removers finds no child and unregisters the instance while its process still shuts down, although `unregister_instance` says the caller "must already have terminated (or reaped) the child process" |
| `Reload_KeysOfConfig` (`MCReload`) | events were lost, the configuration has moved to another key file, and the same pass reloads the keys from the old path |
| `Reload_KeysFollowed` (`MCReload`) | an edit of the new key file after it was loaded and before the watcher was rebuilt is not noticed |
| `Forwarding_SlotReturned` (`MCForwarding`) | the body of an error response is awaited without a time limit, although "a hung backend must not hold the slot while silent" |
| `Forwarding_CompleteIsClean` (`MCForwarding`) | the response API has no `[DONE]`, so a stream that was complete ends with a "truncated" error event |

### Fairness

`SlotQueue`: weak fairness of every task: tokio runs every task that can run,
timers fire, backends answer or time out, `shutdown_child` is bounded by its
timeouts.  Nothing is assumed of clients (`Disconnect`), of operators, of
crashes, or of a spawn's success (`SpawnRegister` and `SpawnRefused` compete).
`RequestStep` is fair as a whole: a request that waits may always be answered by
its own timer, which is all that the code guarantees.

`Forwarding`: timers fire, the handler runs, and a client that stays reads.  The
backend is fair only where it does not hang; `Hangs` lists the waits where it may
be silent for ever, in `forward` all those for which the code has a time limit
(`LimitedWaits`).  A client that neither reads nor hangs up keeps its slot: the
code has no write timeout, so `SlotReturned` assumes there is none of that kind.

The kept configurations of `KeepAlive` and `Scaling` are of the specifications with
history, like the runs.  The other modules have safety properties only.  A request in `Scaling` may wait
for ever only in the queue, whose liveness is that of `SlotQueue`.

## 4. Proofs

The proofs hold for any sets and limits, from the named assumptions of the
modules.  What is listed here is proved for every step of the specification;
types are part of every inductive invariant.

**`SlotQueueProofs`**: `TypeCorrect`, `SlotsConserved`, `NeverOverCapacity`,
`NoSlotLeaks`, `EntriesUnique`, `WaitersKept`, `QueueImplementsPool` (every step
of `SlotQueue` is a grant, a departure or a stutter of `SlotPool`). The inductive
invariant is the conjunction of the type invariant, `Shape`, `Entries`,
`SlotConservation` and `CapacityRespected`.

- `Shape` relates program counters, hands and selections: who is inside
  `wake_one`, and that a task which is about to take a slot has selected an
  instance.  Without it neither the guards in transit nor the popped entries can
  be counted.
- `Entries` is `EntryUnique`, `WaiterHasEntry` and `NoLeakedSlot` with the facts
  they rest on.  They support one another: a send cannot overwrite a guard
  because the receiver has none as long as its entry exists, and that needs the
  entry to be unique.
- `SlotConservation` counts: `inFlight[i]` is the number of requests that own a
  guard for `i` plus the number of wakers that carry one.  It also shows that the
  saturating decrement in `release_slot` never saturates, which is why the type
  invariant (`inFlight` a natural number) needs it.

**`LifecycleProofs`**, for any number of instances, ports, configurations and
events:

- `LifecycleTypes`: every variable keeps its type, the counter of crashes its
  limit;
- `OnlyCrashesBlock` (`DeathsCounted`): a model is blocked after as many deaths
  as the limit says.  What is counted has died, and while the spawn task has a
  dead process in hand the count is still below the deaths;
- `CrashLimitBlocks`: at the limit the model is blocked.  `LimitBlocks` has three
  exceptions, one for each pair of locks the code takes one after the other: the
  spawn task counts and then blocks, a reload lifts the block and then forgets, and
  so does an admin's unblock.  It is inductive with the types.  That several
  operators unblock at once needs the number of those between the two locks, not a
  flag;
- `LeasesAreExact` (`LeaseInv`): the table of leases is the ports of the
  instances that are registered or about to be freed, and of the spawn task.
  `LeaseShape` says that an instance in `freeing` has left the registry, which is
  what makes a second remover harmless, and `Present` that an absent instance is
  in nobody's hands, so that a registration collides with nothing;
- `NothingOrphaned` (`OrphanInv`): an instance that is Failed, or whose process
  has ended, has somebody who removes it.  `ChildFollows` says that the child is
  with its handle or with a removal, `SpawnFollows` that what loads is the spawn
  task's, `ReloadFollows` what the reload task is about to put in force,
  `FailedFollows` and `DeadFollows` treat the two cases.

**`ReloadProofs`**, for any files, paths, capacity of the channel and number of
edits:

- `ReloadTypes`;
- `ReloadIsAtomic`: a reload of the configuration replaces configuration, manager
  and keys, or nothing.  It is a property of the step that ends a reload, and rests
  on an invariant (`SoFar`) that says at each step of the reload task which of the
  three it has replaced since `before`;
- `KeysStayWithConfig` (`Belong`): the keys are those of the file the configuration
  in force names, or about to be, or `crossed`;
- `NoEditForgotten` (`ConfigInv`): `GateKnows` says that the recorded mtime
  belongs to what is in force unless the file has changed since, `TaskKnows` the
  same of what the reload task has in hand, and `Settles` that a configuration
  that is not in force has an event under way or a task at it.  That an event
  cannot vanish needs lemmas on the channel: the newest events of `queue \o
  order` contain every path that is not counted as lost;
- `NoKeysForgotten` (`KeysInv`): the same for the key file, as long as the
  watcher follows it and `missed` has not recorded an edit it could not see;
- `ValidServes`: what `validate` accepts can be served (`Serviceable`), for any
  parsed configuration, any number of models and any pools.  It has two parts.
  For a model without devices, the code scans the command line it has extended by
  the flag and a zero, and must find those (`CpuStaysOnCpu`).  For one with
  devices, every device of its pool has a slot (`PoolsKnown`) and fits on an idle
  machine (`RoomyFits`), so all are candidates; the pool is long enough
  (`PoolRules`); and distinct devices have distinct slots (`DeviceRules`);
- `AlwaysServiceable`: what the reload task has read, what the manager has and
  what is in force has passed `validate` (`ValidInv`), whatever is edited or
  refused, and so can be served.  Both theorems except what `Serviceable` excepts:
  models on devices without a devices section, with too little or unknown memory,
  or with a pool that names a device twice.

**`PortAllocProofs`**, for any ranges, spawns and width of a port:

- `PortTypes`: the scan position is a u16 wherever it wraps;
- `RangeLeasesTracked`: without the ephemeral mode leases are distinct and the
  table of used ports is exactly the ports held.  The invariant needs that the
  spawn whose scan holds the lock has no port yet (`ScanShape`);
- `TrackedUntilOsChooses`: with the ephemeral mode, too, all this holds until the
  operating system has chosen a port;
- `LeasesInRange`: if no range ends with the last port, a scan stays in the range
  in force.  The invariant is that the position is in the range or just behind
  it, and it is what fails at 65535;
- `ScansAreExhaustive`: under the same assumption, a scan that gives up has tried
  every port of its range.  The invariant says which: those between where the
  scan began and where it is, around the end of the range or not.

**`KeepAliveProofs`**, for any number of instances, GPUs and managers:

- `KeepAliveTypes`: no count drops below zero, whatever overlaps;
- `CountsAreOccupancy`: nothing but the overlaps that `astray` records makes the
  count of a GPU differ from the number of instances on it, in any interleaving of
  spawns, removals and reloads.  The invariant counts the instances between their
  two critical sections, on either side, and those that a rebuild has still to
  reach; actors that hold the clone of a replaced manager must be seen not to touch
  the one in force;
- `ReloadForgetsNobody`: every listed instance has been counted by the manager in
  force, is about to be, or is on the rebuild's list.  A spawn task that goes on
  with the old manager is no exception, because it listed its instance first;
- `TasksFollowCounts`: a task runs exactly if its GPU has references, unless two
  actors were about to start or stop that task at once.  The invariant lets the two
  differ while exactly one actor is between count and task, and says which way.

None of them has a hypothesis about what overlaps.

**`ScalingProofs`**, for any models, instances, requests, configurations and
turns:

- `CapsHold` (`CapInv`): no model exceeds its cap.  `CapRespected` is not
  inductive: an instance that is Failed while it loads does not count, and
  becomes Ready.  `Counted` therefore counts the instance of a spawn that loads
  whatever its state, and the cap holds because a spawn registers only when none
  of its model is loading.  `StepKind` divides the steps into those that take
  away, those that register, and those that make Ready, so that the argument has
  three cases and not thirty;
- `RemovalsSpareRequests`: no process ends while it serves a request, unless
  `mark_ready` overwrote Failed after its removal had begun (`revived`;
  `refute_NeverInterrupted` shows one).  Whoever takes a child takes that of an idle
  instance (`IdleInv`), and until the process has ended the instance is Failed and
  takes no request, or has been revived.  `SlotsCounted` says that the counters count the requests,
  `LoadingIdle` that nobody is served by an instance that has not been Ready, and
  `ReapableIdle` that what a reaper has listed is still Failed and idle, or has
  lost its child to another.  That no request takes a slot there needs that only
  what loads becomes Ready, and that a loading instance with a child is not
  Failed;
- `TypeCorrect` (`TypeInv`): the types of plans, lists, counters and devices.
  They are not a formality: a counter that does not fall below zero needs
  `SlotsCounted`, that a child nobody has taken is alive needs `RemovalTypes`,
  and that an instance's devices are of its model's pool (`DeviceTypes`) needs to
  know what `SelectGpus` returns;
- `NeverTwiceOnACard` (`SpreadOut`): it is inductive with the types, because
  `Fits` looks at every registered instance of the model, whatever its state;
- `MemorySuffices`: a registration adds to a card what was free there, and every
  other step only takes away.  The hypothesis `NamedOnce` says that a pool names
  no device twice and a namespace no slot twice.  The second is a rule of
  `validate`; the first is not, and without it the theorem is false: a model of
  two GPUs with the pool `[0, 0]` gets one card twice, and its memory was
  compared with what is free there once.

**`GpuSelectProofs`** has the lemmas `ScalingProofs` and `ValidServes` rest on,
for any view and any fleet, and one theorem: `PacksInOrder` says that what is
selected is what sorting the candidates and taking the first gives.  The device
in place `n` is that of a candidate with exactly the first `n - 1` in front of
it (`FirstInFront`), so none that was left out comes before one that was taken.
`Selected`: the result of `SelectGpus` is a sequence of devices of the pool,
taken from different candidates, as many as the model needs or none.  It needs
that the ranking has exactly one candidate in each place (`Ranking`, from
`AheadOrders`: `Ahead` is a strict total order).  `UsedWithOneMore` and
`UsedByFewer`: the memory used on a card grows by what the new instance declares,
and shrinks when instances go.  Sums are folds over sets; `TableExists` shows
that the partial sums the fold chooses exist for every finite set, by a smallest
set that has none (`SmallestSet`).  This is an induction over a finite set in the
only form the provers can instantiate.  From the module: `TotalAssumption`, and
`WellFormed` views, which `Fleet` assumes of its configuration
(`FleetAssumption`) and `ReloadProofs` derives from `Parsed` and `ModelRules`
(`ViewIsWellFormed`).

**`ForwardingProofs`**, for streams of any length, chunks that break anywhere,
any endpoint, timeouts and hangs:

- `TypeCorrect`: received, drained and forwarded items stay in step;
- `InOrder`, `NoSilentTruncation`, `RecordsAreTrue` (`StreamInv`): while a stream
  is open, exactly the events of its first `n` blocks have been forwarded, where
  `n` is half of what was drained (`At`, `OpenInv`); the code has seen `[DONE]`
  only if it was among them, and it keeps token counts only if the usage block
  was.  When the stream has ended, the last event says how.  `ScriptInv` is about
  the backend: `[DONE]` comes last, and behind the usage comes nothing with data
  but `[DONE]`; the code relies on it when it keeps one chunk only.

Only model-checked: liveness (`EveryRequestAnswered`, `RetiredLeaves`,
`SlotReturned`), which rests on fairness and is outside the prover's reach.
Every safety property that a passing run checks is a theorem, some of them under
a hypothesis named above: `LeasesInRange`, `ScansAreExhaustive` and
`MemorySuffices`.

## 5. What the code does that a reader may not expect

The models have these behaviours; they were found by stating their absence, and
no run is kept for them unless section 3 lists it.

Queue and instances:

- a waiter in a waker's hands is not counted against the depth, so a re-park can
  make the queue longer than its limit, and a waiter that times out meanwhile is
  re-parked after its own `remove_queued` missed it;
- `drain_queue_if_no_instances` lets go of the registry before it clears the
  queue, and may fail the waiters of the next instance;
- a fresh instance is Ready before its configuration is compared, so the one
  that is discarded may be serving;
- a model stays blocked although a spawn under way when it was blocked succeeds:
  the counter is cleared on success (`src/src/scheduler.rs:1440`), the block is not;
- `handle_crash` has a branch for crashes before the first output, which a
  monitor, started after the instance was Ready, never reaches;
- the command line is resolved with the aliases in force and fingerprinted with
  those in force a little later; the models take both at once.

Selection and scaling:

- a scale-down counts instances that are Failed and about to go, so it may leave
  fewer than the comment says;
- of two requests that make room at once each may drain one of two duplicates,
  and the model is left with none ("never leave a model without a serving
  instance");
- instances spawned under an older configuration are counted with the VRAM of
  the new one;
- `vram_limit_mb` of a number holds for the Vulkan and the ROCm device of that
  number, even where they are different cards.

Configuration:

- validation accepts Vulkan pools without a `devices` section, models larger than
  their cards, and cards that report no memory: such models can never be placed.
  `Serviceable` names these exceptions;
- it accepts a pool that names a device twice, too, and a model of two GPUs may
  then be given one card for both, with room for one.  `Serviceable` excepts such
  pools, and `MemorySuffices` assumes there are none;
- a file whose mtime has not changed is skipped, edits between the first load and
  the start of the watcher are missed, and a configuration refused because of its
  key file is not tried again when only the key file is mended.

Forwarding:

- a block without data directly before `[DONE]`, in the last chunk, hides the
  `[DONE]` when the end of the stream is polled next;
- an error after `[DONE]` still counts as a completion;
- legacy completions and embeddings that are aggregated leave no record, and
  speech streams are recorded with no tokens;
- aggregates that fail leave a line of the request in the debug log and none of a response.

Ports and keep-alive:

- in ephemeral mode a port whose backend has not bound it yet may be leased again:
  `LeasesTracked` holds only until the operating system chooses a port, which is
  what `TrackedWithoutOs` says;
- although `unregister_instance` and `try_spawn` rely on reference counting to make
  "concurrent spawn/remove interleavings safe" (`src/src/scheduler.rs:1330`), it does
  not in these: an instance removed between its registration and its acquire leaves
  a reference for ever; one registered before and counted after a rebuild is counted
  twice; one that is unlisted while the manager is replaced has the new manager
  release a reference of another's; one whose slot is changed by a reload gives back
  another slot's.  Starts and stops of one task may overtake one another
  (`KeepAlive_TaskFollowsCount`);
- a spawn task or a remover with a clone of the manager that a reload replaced may
  leave a task running there, which nothing stops any more.

## 6. Not modelled, and the plan

- The readers of sysfs and nvidia-smi (`gpu.rs`, `nvidia.rs`): what they report is
  the constant `Total`.  Logging, the HTTP client, packaging, routing, YAML and
  JSON shapes, environment variables of a backend: no state that a property
  could be about.
- The lookup of a request's API key is one map access; what key files must
  satisfy and when they come into force is in `ConfigReload`.
- The net for instances stranded in Loading (`evaluate_autoscale`, last part)
  catches panics of the spawn task, and the models have none.
- The periodic command of keep-alive, instances on several GPUs there, and its
  `stop_all` at shutdown.
- Processes that survive SIGKILL for a while (uninterruptible sleep).
- Start-up is straight-line code: it ends the program if the configuration does not
  load, and goes on with an empty store of keys, which denies every request, if the
  key file does not; `ConfigReload` begins there.  It also goes on without a watcher
  if none can be built, and then reloads nothing; the model assumes that it was built,
  and that nothing was edited between the first load and then.
- `Scaling` has no crashes and no reloads, and `InstanceLifecycle` one model; the
  two together exceed what TLC can enumerate.

The plan had eight modules after the first three; `InstanceLifecycle`,
`GpuSelect`, `MakeRoom`, `Autoscale` and `Acquire` (one module, `Scaling`, because they
race with one another), `ConfigReload`, `SseForwarder` (with `Forwarding`) and the
key files (in `ConfigReload`) are there.  What is left, in the order of what it adds:

1. a liveness property of `InstanceLifecycle`: that what `NoOrphan` says is attended to is gone
   in the end;
2. a proof that `Scaling` keeps what `SlotPool` promises, as `SlotQueue` does;
3. several GPUs per instance in `KeepAlive`, and its `stop_all`;
4. crashes in `Scaling`, once the number of its states allows it.
