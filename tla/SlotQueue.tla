------------------------------ MODULE SlotQueue ------------------------------
(***************************************************************************)
(* One model of the instance manager: the slots of its instances, its      *)
(* queue of parked requests, and every task that moves a slot or a queue   *)
(* entry.                                                                  *)
(*                                                                         *)
(* A request first looks for a free slot, may wait for a spawn, and parks  *)
(* on the queue when nothing can serve it.  wake_one hands a free slot to  *)
(* the head of the queue; it runs in the parking request itself, in the    *)
(* release task and in the spawn task, on different threads, and takes     *)
(* the queue lock, the registry lock and an instance lock one after the    *)
(* other.  Each critical section is one action here, so that the windows   *)
(* between the locks are behaviours of the specification.                  *)
(*                                                                         *)
(* Instances come and go: they are spawned, retired, drained, reaped and   *)
(* crash.  Only what the slots and the queue can see of that is kept; the  *)
(* child processes and ports are module InstanceLifecycle's subject.       *)
(***************************************************************************)
EXTENDS Integers, Sequences, FiniteSets

CONSTANTS
  Requests,      \* the requests for this model; each one is made once
  Instances,     \* the instances that may ever be spawned; none comes back
  ReleaseTask,   \* the task that consumes the release channel
  SpawnTask,     \* the model's (single) detached spawn task
  Autoscaler,    \* the autoscaler loop
  Reloader,      \* the task that applies a new configuration
  MaxConcurrent, \* slots per instance
  QueueDepth,    \* parked requests allowed before a 429
  MaxInstances,  \* cap on routable instances
  Admin,         \* what may happen besides requests; bounds the behaviours
  None, Closed   \* "nothing" and "the oneshot sender was dropped"

Wakers  == Requests \cup {ReleaseTask, SpawnTask}
Workers == Wakers \cup {Autoscaler, Reloader}
Reapers == {ReleaseTask, Autoscaler}

ASSUME RequestsAssumption  == IsFiniteSet(Requests) /\ IsFiniteSet(Instances)
ASSUME LimitsAssumption    == /\ MaxConcurrent \in Nat
                              /\ QueueDepth \in Nat
                              /\ MaxInstances \in Nat
ASSUME AdminAssumption     == Admin \subseteq {"unload", "stale", "crash", "reload", "autoscale"}
ASSUME TasksAssumption     == /\ {ReleaseTask, SpawnTask, Autoscaler, Reloader} \cap Requests = {}
                              /\ ReleaseTask \notin {SpawnTask, Autoscaler, Reloader}
                              /\ SpawnTask \notin {Autoscaler, Reloader}
                              /\ Autoscaler # Reloader
ASSUME SentinelsAssumption == /\ None \notin Instances \cup Workers
                              /\ Closed \notin Instances
                              /\ None # Closed

VARIABLES
  configured, \* is the model (still) in the running configuration?
  registry,   \* the instances listed for the model
  istate,     \* instance -> absent, loading, ready or failed
  removal,    \* instance -> progress of remove_instance_impl / unregister_instance
  inFlight,   \* instance -> its in-flight counter
  queue,      \* the parked entries, head first
  pc,         \* request -> where its handler is
  guard,      \* request -> the slot guard in its channel or owned by its handler
  task,       \* worker -> where its wake_one call, or the task around it, is
  hand,       \* worker -> the entry it has popped
  pick,       \* worker -> the instance it has selected, spawns or removes
  doomed,     \* worker -> the instances it has listed and will remove
  releases    \* release events not yet received

instVars == <<registry, istate, removal>>
slotVars == <<inFlight, releases>>
wakeVars == <<task, hand, pick>>
planVars == <<configured, doomed>>
vars == <<configured, registry, istate, removal, inFlight, queue, pc, guard,
          task, hand, pick, doomed, releases>>

Waiting  == {"new", "take", "spawning", "retry", "enqueue", "parked", "removing"}
Answered == {"served", "full", "noinst", "timeout", "gone"}
PCs      == Waiting \cup {"serving"} \cup Answered
Tasks    == {"idle", "start", "pop", "find", "take", "send", "repark",  \* wake_one
             "reap", "reaping", "unloading",        \* release task, autoscaler, reload
             "starting", "loading", "check", "cleaning"}               \* spawn task
Removals == {"none", "stopping", "unlisted", "drain", "done"}

TypeOK ==
  /\ configured \in BOOLEAN
  /\ registry \in SUBSET Instances
  /\ istate \in [Instances -> {"absent", "loading", "ready", "failed"}]
  /\ removal \in [Instances -> Removals]
  /\ inFlight \in [Instances -> Nat]
  /\ queue \in Seq(Requests)
  /\ pc \in [Requests -> PCs]
  /\ guard \in [Requests -> Instances \cup {None, Closed}]
  /\ task \in [Workers -> Tasks]
  /\ hand \in [Workers -> Requests \cup {None}]
  /\ pick \in [Workers -> Instances \cup {None}]
  /\ doomed \in [Workers -> SUBSET Instances]
  /\ releases \in Nat

Init ==
  /\ configured = TRUE
  /\ registry = {}
  /\ istate = [i \in Instances |-> "absent"]
  /\ removal = [i \in Instances |-> "none"]
  /\ inFlight = [i \in Instances |-> 0]
  /\ queue = <<>>
  /\ pc = [r \in Requests |-> "new"]
  /\ guard = [r \in Requests |-> None]
  /\ task = [w \in Workers |-> "idle"]
  /\ hand = [w \in Workers |-> None]
  /\ pick = [w \in Workers |-> None]
  /\ doomed = [w \in Workers |-> {}]
  /\ releases = 0

-----------------------------------------------------------------------------
(* Slots. *)

\* Mutant: off by one at the limit.
HasCapacityOffByOne(i) == istate[i] = "ready" /\ inFlight[i] <= MaxConcurrent

HasCapacity(i) == istate[i] = "ready" /\ inFlight[i] < MaxConcurrent

\* find_ready_instance: the least loaded of the listed instances with room.
\* (The scan locks one instance after the other; here it is one look.)
LeastLoaded ==
  {i \in registry : /\ HasCapacity(i)
                    /\ \A j \in registry : HasCapacity(j) => inFlight[i] <= inFlight[j]}

AcquireSlot(i) == /\ inFlight' = [inFlight EXCEPT ![i] = @ + 1]
                  /\ UNCHANGED releases

\* Mutant: a guard that can be cloned releases once per clone.
ReleaseSlotTwice(i) == /\ inFlight' = [inFlight EXCEPT ![i] = @ - 2]
                       /\ releases' = releases + 2

\* Dropping a guard frees the slot and posts a release event.
ReleaseSlot(i) == /\ inFlight' = [inFlight EXCEPT ![i] = @ - 1]
                  /\ releases' = releases + 1

\* Mutant: the guard is forgotten, not dropped.
DropGuardLeaks(r) == guard' = [guard EXCEPT ![r] = None] /\ UNCHANGED slotVars

\* Whatever r's channel or handler owns is dropped with it.
DropGuard(r) ==
  /\ guard' = [guard EXCEPT ![r] = None]
  /\ \/ guard[r] \in Instances /\ ReleaseSlot(guard[r])
     \/ guard[r] \notin Instances /\ UNCHANGED slotVars

Routable == \E i \in registry : istate[i] # "failed"

-----------------------------------------------------------------------------
(* A request: acquire_for_candidates with a single candidate. *)

Goto(r, l) == pc' = [pc EXCEPT ![r] = l]

\* ensure_spawn joins the spawn in flight or starts one.
EnsureSpawn == task' = [task EXCEPT ![SpawnTask] = IF @ = "idle" THEN "starting" ELSE @]

\* should_spawn and spawn_feasible read load metrics and VRAM: either answer
\* is possible.
SpawnOrQueue(r) ==
  \/ Goto(r, "spawning") /\ EnsureSpawn
  \/ Goto(r, "enqueue") /\ UNCHANGED task

GetOrSpawn(r) ==
  /\ pc[r] = "new"
  /\ \/ ~configured /\ Goto(r, "noinst") /\ UNCHANGED <<task, pick>>
     \/ /\ configured
        /\ \E i \in LeastLoaded : pick' = [pick EXCEPT ![r] = i]
        /\ Goto(r, "take")
        /\ UNCHANGED task
     \/ configured /\ LeastLoaded = {} /\ SpawnOrQueue(r) /\ UNCHANGED pick
  /\ UNCHANGED <<planVars, instVars, slotVars, queue, guard, hand>>

\* The spawn ended, or the bound on waiting for it ran out: look once more.
SpawnWaited(r) ==
  /\ pc[r] = "spawning"
  /\ \/ /\ \E i \in LeastLoaded : pick' = [pick EXCEPT ![r] = i]
        /\ Goto(r, "retry")
     \/ LeastLoaded = {} /\ Goto(r, "enqueue") /\ UNCHANGED pick
  /\ UNCHANGED <<planVars, instVars, slotVars, queue, guard, task, hand>>

\* try_acquire checks again under the instance lock: the selected instance
\* may have been filled or retired since.
TakeSlot(r) ==
  /\ pc[r] \in {"take", "retry"}
  /\ \/ /\ HasCapacity(pick[r])
        /\ AcquireSlot(pick[r])
        /\ guard' = [guard EXCEPT ![r] = pick[r]]
        /\ Goto(r, "serving")
        /\ UNCHANGED task
     \/ /\ ~HasCapacity(pick[r])
        /\ \/ pc[r] = "take" /\ SpawnOrQueue(r)
           \/ pc[r] = "retry" /\ Goto(r, "enqueue") /\ UNCHANGED task
        /\ UNCHANGED <<slotVars, guard>>
  /\ pick' = [pick EXCEPT ![r] = None]
  /\ UNCHANGED <<planVars, instVars, queue, hand>>

\* The registry lock is held over the check and the push; the wake_one that
\* follows starts once both locks are released.
Enqueue(r) ==
  /\ pc[r] = "enqueue"
  /\ \/ ~Routable /\ Goto(r, "noinst") /\ UNCHANGED <<queue, task>>
     \/ /\ Routable /\ Len(queue) >= QueueDepth
        /\ Goto(r, "full")
        /\ UNCHANGED <<queue, task>>
     \/ /\ Routable /\ Len(queue) < QueueDepth
        /\ queue' = Append(queue, r)
        /\ Goto(r, "parked")
        /\ task' = [task EXCEPT ![r] = "start"]
  /\ UNCHANGED <<planVars, instVars, slotVars, guard, hand, pick>>

\* A parked request waits for its channel once its own wake_one has returned.
Awaits(r) == pc[r] = "parked" /\ task[r] = "idle"

Receive(r) ==
  /\ Awaits(r)
  /\ guard[r] \in Instances
  /\ Goto(r, "serving")
  /\ UNCHANGED <<planVars, instVars, slotVars, queue, guard, wakeVars>>

ReceiveClosed(r) ==
  /\ Awaits(r)
  /\ guard[r] = Closed
  /\ Goto(r, "noinst")
  /\ guard' = [guard EXCEPT ![r] = None]
  /\ UNCHANGED <<planVars, instVars, slotVars, queue, wakeVars>>

\* Mutant: the channel is awaited without a time limit.
TimeoutNever(r) == Awaits(r) /\ FALSE

\* The wait budget runs out.  The receiver is dropped first, with the guard a
\* wake_one may just have put there; the entry is removed afterwards.
Timeout(r) ==
  /\ Awaits(r)
  /\ Goto(r, "removing")
  /\ DropGuard(r)
  /\ UNCHANGED <<planVars, instVars, queue, wakeVars>>

Without(k) == SubSeq(queue, 1, k - 1) \o SubSeq(queue, k + 1, Len(queue))

RemoveQueued(r) ==
  /\ pc[r] = "removing"
  /\ \/ \E k \in 1..Len(queue) : queue[k] = r /\ queue' = Without(k)
     \/ (\A k \in 1..Len(queue) : queue[k] # r) /\ UNCHANGED queue
  /\ Goto(r, "timeout")
  /\ UNCHANGED <<planVars, instVars, slotVars, guard, wakeVars>>

\* The client hangs up: the handler is dropped where it awaits.  Nothing
\* removes its entry from the queue.
Disconnect(r) ==
  /\ pc[r] = "spawning" \/ Awaits(r)
  /\ Goto(r, "gone")
  /\ DropGuard(r)
  /\ UNCHANGED <<planVars, instVars, queue, wakeVars>>

\* The response ends (or the client leaves, or the backend fails).
Finish(r) ==
  /\ pc[r] = "serving"
  /\ Goto(r, "served")
  /\ DropGuard(r)
  /\ UNCHANGED <<planVars, instVars, queue, wakeVars>>

-----------------------------------------------------------------------------
(* wake_one, one action per critical section. *)

\* wake_one returns to its caller: the parked request awaits its channel, the
\* release task goes on to reap_drained, the spawn task ends.
WakeReturns(w) ==
  /\ task' = [task EXCEPT ![w] = IF w = ReleaseTask THEN "reap" ELSE "idle"]
  /\ hand' = [hand EXCEPT ![w] = None]
  /\ pick' = [pick EXCEPT ![w] = None]

\* Mutant: the head is read and left in the queue.
PoppedPeek == queue

Popped == Tail(queue)

WakePop(w) ==
  /\ task[w] \in {"start", "pop"}
  /\ LET unknown == task[w] = "start" /\ ~configured
     IN \/ (unknown \/ queue = <<>>) /\ WakeReturns(w) /\ UNCHANGED queue
        \/ /\ ~unknown /\ queue # <<>>
           /\ hand' = [hand EXCEPT ![w] = Head(queue)]
           /\ queue' = Popped
           /\ task' = [task EXCEPT ![w] = "find"]
           /\ UNCHANGED pick
  /\ UNCHANGED <<planVars, instVars, slotVars, pc, guard>>

WakeFind(w) ==
  /\ task[w] = "find"
  /\ \/ /\ \E i \in LeastLoaded : pick' = [pick EXCEPT ![w] = i]
        /\ task' = [task EXCEPT ![w] = "take"]
     \/ /\ LeastLoaded = {}
        /\ task' = [task EXCEPT ![w] = "repark"]
        /\ UNCHANGED pick
  /\ UNCHANGED <<planVars, instVars, slotVars, queue, pc, guard, hand>>

WakeTake(w) ==
  /\ task[w] = "take"
  /\ \/ /\ HasCapacity(pick[w])
        /\ AcquireSlot(pick[w])
        /\ task' = [task EXCEPT ![w] = "send"]
     \/ /\ ~HasCapacity(pick[w])
        /\ task' = [task EXCEPT ![w] = "repark"]
        /\ UNCHANGED slotVars
  /\ UNCHANGED <<planVars, instVars, queue, pc, guard, hand, pick>>

\* Mutant: the send does not notice that the receiver is gone.
ReceiverAliveAlways(r) == TRUE

\* oneshot::Sender::send succeeds as long as the receiver exists.
ReceiverAlive(r) == pc[r] = "parked"

\* The guard goes into the waiter's channel.  A waiter that has left has
\* dropped its receiver: the guard comes back, is dropped, and wake_one tries
\* the next entry.
WakeSend(w) ==
  /\ task[w] = "send"
  /\ \/ /\ ReceiverAlive(hand[w])
        /\ guard' = [guard EXCEPT ![hand[w]] = pick[w]]
        /\ WakeReturns(w)
        /\ UNCHANGED slotVars
     \/ /\ ~ReceiverAlive(hand[w])
        /\ ReleaseSlot(pick[w])
        /\ task' = [task EXCEPT ![w] = "pop"]
        /\ hand' = [hand EXCEPT ![w] = None]
        /\ pick' = [pick EXCEPT ![w] = None]
        /\ UNCHANGED guard
  /\ UNCHANGED <<planVars, instVars, queue, pc>>

\* Mutant: a waiter that cannot be served is dropped from the queue.
WakeReparkLoses(w) ==
  /\ task[w] = "repark"
  /\ WakeReturns(w)
  /\ UNCHANGED <<planVars, instVars, slotVars, queue, pc, guard>>

WakeRepark(w) ==
  /\ task[w] = "repark"
  /\ queue' = <<hand[w]>> \o queue
  /\ WakeReturns(w)
  /\ UNCHANGED <<planVars, instVars, slotVars, pc, guard>>

-----------------------------------------------------------------------------
(* The release task: receive an event, wake_one, reap_drained. *)

ReceiveRelease ==
  /\ task[ReleaseTask] = "idle"
  /\ releases > 0
  /\ releases' = releases - 1
  /\ task' = [task EXCEPT ![ReleaseTask] = "start"]
  /\ UNCHANGED <<planVars, instVars, inFlight, queue, pc, guard, hand, pick>>

-----------------------------------------------------------------------------
(* Removing instances: reap_drained, which the release task and the autoscaler *)
(* call, and the unloads of a reload.  Each lists the instances first and then *)
(* removes them one after the other, awaiting each removal.                   *)

\* Force mode.  Marking the instance Failed and taking its child happen in one
\* critical section; if a removal already runs, that one's outcome stands.
BeginRemoval(i) ==
  /\ istate' = [istate EXCEPT ![i] = "failed"]
  /\ removal' = [removal EXCEPT ![i] = IF @ = "none" THEN "stopping" ELSE @]

\* Drain mode: a busy instance only becomes unroutable.
DrainInstance(i) ==
  \/ /\ inFlight[i] > 0
     /\ istate' = [istate EXCEPT ![i] = "failed"]
     /\ UNCHANGED removal
  \/ inFlight[i] = 0 /\ BeginRemoval(i)

Drained == {i \in registry : istate[i] = "failed" /\ inFlight[i] = 0}

\* Mutant: the tasks find nothing to reap.
ReapDrainedSkips(w) ==
  /\ task[w] = "reap"
  /\ task' = [task EXCEPT ![w] = "idle"]
  /\ UNCHANGED <<planVars, instVars, slotVars, queue, pc, guard, hand, pick>>

\* The autoscaler calls it in every cycle, for a configured model.
ReapDrained(w) ==
  /\ \/ task[w] = "reap"
     \/ /\ w = Autoscaler /\ task[w] = "idle"
        /\ "autoscale" \in Admin /\ configured /\ Drained # {}
  /\ doomed' = [doomed EXCEPT ![w] = Drained]
  /\ task' = [task EXCEPT ![w] = IF Drained = {} THEN "idle" ELSE "reaping"]
  /\ UNCHANGED <<configured, instVars, slotVars, queue, pc, guard, hand, pick>>

\* The instance may have become Ready, and busy, since it was listed.
ReapNext(w) ==
  /\ task[w] = "reaping"
  /\ pick[w] = None
  /\ \E i \in doomed[w] :
       /\ BeginRemoval(i)
       /\ pick' = [pick EXCEPT ![w] = i]
       /\ doomed' = [doomed EXCEPT ![w] = @ \ {i}]
  /\ UNCHANGED <<configured, registry, slotVars, queue, pc, guard, task, hand>>

\* The removal is over once the instance has left the registry: whoever finds
\* the child taken unregisters it at once, and the other finds it gone.
Removed(w) ==
  /\ task[w] \in {"reaping", "unloading", "cleaning"}
  /\ pick[w] \in Instances \ registry
  /\ pick' = [pick EXCEPT ![w] = None]
  /\ task' = [task EXCEPT ![w] = IF @ = "unloading" \/ doomed[w] # {} THEN @ ELSE "idle"]
  /\ UNCHANGED <<planVars, instVars, slotVars, queue, pc, guard, hand>>

\* A reload whose configuration lacks the model unloads its instances ...
UnloadModel ==
  /\ "reload" \in Admin
  /\ task[Reloader] = "idle"
  /\ configured
  /\ doomed' = [doomed EXCEPT ![Reloader] = registry]
  /\ task' = [task EXCEPT ![Reloader] = "unloading"]
  /\ UNCHANGED <<configured, instVars, slotVars, queue, pc, guard, hand, pick>>

UnloadNext ==
  /\ task[Reloader] = "unloading"
  /\ pick[Reloader] = None
  /\ \E i \in doomed[Reloader] :
       /\ DrainInstance(i)
       /\ pick' = [pick EXCEPT ![Reloader] = IF inFlight[i] = 0 THEN i ELSE None]
       /\ doomed' = [doomed EXCEPT ![Reloader] = @ \ {i}]
  /\ UNCHANGED <<configured, registry, slotVars, queue, pc, guard, task, hand>>

\* ... and swaps it in.  An instance registered meanwhile is left over.
RemoveModel ==
  /\ task[Reloader] = "unloading"
  /\ doomed[Reloader] = {}
  /\ pick[Reloader] = None
  /\ configured' = FALSE
  /\ task' = [task EXCEPT ![Reloader] = "idle"]
  /\ UNCHANGED <<doomed, instVars, slotVars, queue, pc, guard, hand, pick>>

\* unload_model in the admin handler, make-room, the autoscaler's scale-down
\* and eviction (IfIdle mode removes an idle instance just so): each has listed
\* the instance some time before.
RemoveInstance(i) ==
  /\ "unload" \in Admin
  /\ istate[i] # "absent"
  /\ DrainInstance(i)
  /\ UNCHANGED <<planVars, registry, slotVars, queue, pc, guard, wakeVars>>

\* reconcile_config: the spawn configuration changed.
RetireStale(i) ==
  /\ "stale" \in Admin
  /\ configured /\ task[Reloader] = "idle"
  /\ i \in registry
  /\ istate[i] # "failed"
  /\ istate' = [istate EXCEPT ![i] = "failed"]
  /\ UNCHANGED <<planVars, registry, removal, slotVars, queue, pc, guard, wakeVars>>

-----------------------------------------------------------------------------
(* The spawn task. *)

BeingSpawned(i) == task[SpawnTask] \in {"loading", "check"} /\ pick[SpawnTask] = i

ActiveInstances == {i \in registry : istate[i] # "failed"}

\* Over the cap, or no port, no GPU, no process.
SpawnRefused ==
  /\ task[SpawnTask] = "starting"
  /\ task' = [task EXCEPT ![SpawnTask] = "idle"]
  /\ UNCHANGED <<planVars, instVars, slotVars, queue, pc, guard, hand, pick>>

SpawnRegister(i) ==
  /\ task[SpawnTask] = "starting"
  /\ istate[i] = "absent"
  /\ Cardinality(ActiveInstances) < MaxInstances
  /\ istate' = [istate EXCEPT ![i] = "loading"]
  /\ registry' = registry \cup {i}
  /\ task' = [task EXCEPT ![SpawnTask] = "loading"]
  /\ pick' = [pick EXCEPT ![SpawnTask] = i]
  /\ UNCHANGED <<planVars, removal, slotVars, queue, pc, guard, hand>>

\* The health poll answers.  mark_ready does not look at the state: an instance
\* retired while it loaded, or whose process is still shutting down, is Ready
\* again.
SpawnReady ==
  LET i == pick[SpawnTask]
  IN /\ task[SpawnTask] = "loading"
     /\ istate' = [istate EXCEPT ![i] = "ready"]
     /\ task' = [task EXCEPT ![SpawnTask] = "check"]
     /\ UNCHANGED <<planVars, registry, removal, slotVars, queue, pc, guard, hand, pick>>

\* The spawn task removes its instance itself, and ends when that is done.
DiscardSpawn ==
  /\ BeginRemoval(pick[SpawnTask])
  /\ task' = [task EXCEPT ![SpawnTask] = "cleaning"]
  /\ UNCHANGED pick

SpawnFailed ==
  /\ task[SpawnTask] = "loading"
  /\ DiscardSpawn
  /\ UNCHANGED <<planVars, registry, slotVars, queue, pc, guard, hand>>

\* The fingerprint check: keep the instance and wake a waiter, or, when a
\* reload changed the model meanwhile, discard it.
SpawnCheck ==
  /\ task[SpawnTask] = "check"
  /\ \/ /\ configured
        /\ task' = [task EXCEPT ![SpawnTask] = "start"]
        /\ pick' = [pick EXCEPT ![SpawnTask] = None]
        /\ UNCHANGED <<istate, removal>>
     \/ ~configured /\ DiscardSpawn
     \/ "stale" \in Admin /\ DiscardSpawn
  /\ UNCHANGED <<planVars, registry, slotVars, queue, pc, guard, hand>>

-----------------------------------------------------------------------------
(* Crashes, and leaving the registry. *)

\* handle_crash: a monitored instance died.  Its requests still hold guards.
HandleCrash(i) ==
  /\ "crash" \in Admin
  /\ istate[i] = "ready"
  /\ removal[i] = "none"
  /\ ~BeingSpawned(i)
  /\ BeginRemoval(i)
  /\ UNCHANGED <<planVars, registry, slotVars, queue, pc, guard, wakeVars>>

\* unregister_instance leaves the registry, ...
Unlist(i) ==
  /\ removal[i] = "stopping"
  /\ registry' = registry \ {i}
  /\ removal' = [removal EXCEPT ![i] = "unlisted"]
  /\ UNCHANGED <<planVars, istate, slotVars, queue, pc, guard, wakeVars>>

\* ... then drain_queue_if_no_instances reads the registry, lets go of it, ...
DrainCheck(i) ==
  /\ removal[i] = "unlisted"
  /\ removal' = [removal EXCEPT ![i] = IF registry = {} THEN "drain" ELSE "done"]
  /\ UNCHANGED <<planVars, registry, istate, slotVars, queue, pc, guard, wakeVars>>

\* ... and clears the queue: every parked sender is dropped.
DrainQueue(i) ==
  /\ removal[i] = "drain"
  /\ removal' = [removal EXCEPT ![i] = "done"]
  /\ guard' = [r \in Requests |->
                 IF pc[r] = "parked" /\ \E k \in 1..Len(queue) : queue[k] = r
                 THEN Closed ELSE guard[r]]
  /\ queue' = <<>>
  /\ UNCHANGED <<planVars, registry, istate, slotVars, pc, wakeVars>>

-----------------------------------------------------------------------------
RequestStep(r) ==
  \/ GetOrSpawn(r) \/ SpawnWaited(r) \/ TakeSlot(r) \/ Enqueue(r)
  \/ Receive(r) \/ ReceiveClosed(r) \/ Timeout(r) \/ RemoveQueued(r) \/ Finish(r)

WakeStep(w) ==
  WakePop(w) \/ WakeFind(w) \/ WakeTake(w) \/ WakeSend(w) \/ WakeRepark(w)

ReapStep(w) == ReapDrained(w) \/ ReapNext(w)

ReleaseStep == ReceiveRelease \/ ReapStep(ReleaseTask)

UnloadStep == UnloadNext \/ RemoveModel

SpawnStep == SpawnRefused \/ SpawnReady \/ SpawnFailed \/ SpawnCheck

RemovalStep(i) == Unlist(i) \/ DrainCheck(i) \/ DrainQueue(i)

\* Every request has its answer: nothing has to happen any more.
AllAnswered == (\A r \in Requests : pc[r] \in Answered) /\ UNCHANGED vars

Next ==
  \/ \E r \in Requests : RequestStep(r) \/ Disconnect(r)
  \/ \E w \in Wakers : WakeStep(w)
  \/ ReleaseStep
  \/ ReapStep(Autoscaler)
  \/ UnloadModel \/ UnloadStep
  \/ SpawnStep
  \/ \E w \in Workers : Removed(w)
  \/ \E i \in Instances :
       \/ SpawnRegister(i) \/ RemovalStep(i)
       \/ RemoveInstance(i) \/ RetireStale(i) \/ HandleCrash(i)
  \/ AllAnswered

\* The runtime schedules every task that can run, timers fire, backends end
\* their responses.  Clients need not disconnect and operators need not act.
Fairness ==
  /\ \A r \in Requests : WF_vars(RequestStep(r))
  /\ \A w \in Wakers : WF_vars(WakeStep(w))
  /\ WF_vars(ReleaseStep)
  /\ WF_vars(ReapStep(Autoscaler))
  /\ WF_vars(UnloadStep)
  /\ WF_vars(SpawnStep)
  /\ \A w \in Workers : WF_vars(Removed(w))
  /\ \A i \in Instances : WF_vars(RemovalStep(i))

Spec == Init /\ [][Next]_vars /\ Fairness

-----------------------------------------------------------------------------
(* Properties. *)

\* The guards that exist for a slot of i: those a request's channel or handler
\* owns, and those a wake_one has acquired and not sent yet.
Holders(i)  == {r \in Requests : guard[r] = i}
Carriers(i) == {w \in Wakers : task[w] = "send" /\ pick[w] = i}

\* The in-flight counter is the number of guards in existence: no slot is lost
\* or released twice, whatever races between wake_one, a timeout, a disconnect
\* and a retirement (instance.rs: "exactly one guard per acquired slot").
SlotConservation ==
  \A i \in Instances : inFlight[i] = Cardinality(Holders(i)) + Cardinality(Carriers(i))

\* No instance ever serves more requests than it has slots, although slots are
\* selected under one lock and acquired under another.
CapacityRespected == \A i \in Instances : inFlight[i] <= MaxConcurrent

\* A guard sent to a waiter that is giving up is never stranded: only a request
\* that is parked or being served owns one (scheduler.rs: "accounting stays
\* balanced").
NoLeakedSlot ==
  \A r \in Requests : guard[r] \in Instances => pc[r] \in {"parked", "serving"}

InQueue(r) == \E k \in 1..Len(queue) : queue[k] = r
InHand(r)  == \E w \in Wakers : hand[w] = r

\* No request has two entries, in the queue or popped by a wake_one: it could
\* otherwise be handed a second slot.
EntryUnique ==
  /\ \A j, k \in 1..Len(queue) : queue[j] = queue[k] => j = k
  /\ \A v, w \in Wakers : hand[v] = hand[w] /\ hand[v] # None => v = w
  /\ \A w \in Wakers : ~InQueue(hand[w])

\* A waiter is never forgotten: as long as it has neither a guard nor a closed
\* channel, its entry is in the queue or in the hands of a wake_one, and once
\* it has either, its entry is gone.
WaiterHasEntry ==
  \A r \in Requests :
    /\ pc[r] = "parked" /\ guard[r] = None => InQueue(r) \/ InHand(r)
    /\ guard[r] # None => ~InQueue(r) /\ ~InHand(r)

\* Every request is answered: with a slot, or with an error within its budget.
EveryRequestAnswered == \A r \in Requests : pc[r] = "new" ~> pc[r] \in Answered

\* A retired instance does not stay in limbo: its last release event, or the
\* next autoscaler cycle, has it reaped, unless it was still loading and the
\* health poll brings it back.
RetiredLeaves ==
  \A i \in Instances :
    (i \in registry /\ istate[i] = "failed") ~> (i \notin registry \/ istate[i] = "ready")

\* What clients see of all this is a bounded pool of slots.
Phase == [r \in Requests |-> IF guard[r] \in Instances THEN "serving"
                             ELSE IF pc[r] \in Answered \cup {"removing"} THEN "left"
                             ELSE "waiting"]
Slot  == [r \in Requests |-> IF guard[r] \in Instances THEN guard[r] ELSE None]
Pool  == INSTANCE SlotPool WITH phase <- Phase, slot <- Slot

\* The tasks above implement SlotPool: a request is granted at most one slot,
\* once, and only while the instance has one to give.
ImplementsPool == Pool!Spec

-----------------------------------------------------------------------------
(* What comments and tests of the code say, and the code does not do: each of  *)
(* these is refuted by a run.                                                *)

Waking(w) == task[w] \in {"start", "pop", "find", "take", "send", "repark"}

\* scheduler.rs, enqueue: "if capacity exists, the head waiter gets served".
\* A waiter in the queue of a model with a free slot has a wake-up coming.
HeadWaiterServed ==
  (configured /\ LeastLoaded # {} /\ \E r \in Requests : InQueue(r) /\ pc[r] = "parked")
    => releases > 0 \/ task[SpawnTask] # "idle" \/ \E w \in Wakers : Waking(w)

\* scheduler.rs, enqueue: a waiter pushed before the last instance leaves is
\* cleared by the drain, it is not parked behind nothing.
NoStrandedWaiter ==
  registry = {} => \/ \E i \in Instances : removal[i] \in {"unlisted", "drain"}
                   \/ ~\E r \in Requests : InQueue(r) /\ pc[r] = "parked"

\* scheduler.rs, force_remove_instance: "normal removal paths must never interrupt
\* client requests".  What reap_drained kills has none.
ReapedIdle ==
  [][\A w \in Reapers : ReapNext(w) => inFlight[pick'[w]] = 0]_vars
=============================================================================
