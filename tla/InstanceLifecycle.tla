--------------------------- MODULE InstanceLifecycle ---------------------------
(***************************************************************************)
(* The instances of one model as processes: spawn, readiness, crash,       *)
(* removal and shutdown, with the port each of them leases, the counter    *)
(* that blocks a model whose processes die before they answer, and the     *)
(* events that change the model's configuration or remove it.             *)
(*                                                                         *)
(* Whoever removes an instance (the spawn task, an admin, a reload, the    *)
(* release task, the autoscaler, the crash task, the shutdown) goes        *)
(* through the same steps: take the child, end the process, unregister,    *)
(* free the port.  Any two of them may be at the same instance; a removal  *)
(* is known by the step it has reached, and not by the task it belongs to. *)
(* A task that lists instances to remove them one by one lists and takes   *)
(* them in one step here; module Scaling has the time in between.          *)
(***************************************************************************)
EXTENDS Integers, FiniteSetsExt

CONSTANTS
  Instances, Ports,
  Versions,     \* what can be configured for the model
  MaxInstances,
  CrashLimit,
  MaxEvents,    \* a bound: what comes from outside (Event)
  None

ASSUME LifecycleAssumption ==
  /\ MaxInstances \in Nat \ {0} /\ CrashLimit \in Nat \ {0} /\ MaxEvents \in Nat
  /\ Versions # {} /\ None \notin Versions \cup Instances \cup Ports

VARIABLES
  state,    \* instance -> absent, loading, ready or failed
  built,    \* instance -> the configuration it was spawned with
  port,     \* instance -> its port
  listed,   \* the registry
  child,    \* instances whose handle owns the child process
  alive,    \* instances whose process runs
  inFlight, \* instance -> requests it serves
  reported, \* instances whose monitor task has reported an exit
  leased,   \* the ports in use, as the allocator has them
  spawn,    \* the spawn task: where it is, and what it works on
  crashes,  \* consecutive pre-output crashes counted
  blocked,  \* the flag
  unblocks, \* admin unblocks about to clear the flag, and about to forget the crashes
  deaths,   \* history: processes that died by themselves since one was ready
  config,   \* the configuration in force, if the model has one
  reload,   \* the reload in progress: where it is, and what it will put in force
  events,   \* how much has come from outside
  released, \* a release event is pending
  killing, unlisting, freeing,  \* instances at each step of a removal
  mode      \* up, draining, stopping or down

instVars  == <<state, built, port, listed, child, alive, inFlight>>
crashVars == <<crashes, blocked, unblocks>>
removing  == <<killing, unlisting, freeing>>
vars == <<instVars, reported, leased, spawn, crashVars, deaths, config, reload, events,
          released, removing, mode>>

Idle == [pc |-> "idle", inst |-> None, cfg |-> None, port |-> None,
         took |-> FALSE, exited |-> FALSE]

TypeOK ==
  /\ state \in [Instances -> {"absent", "loading", "ready", "failed"}]
  /\ built \in [Instances -> Versions \cup {None}]
  /\ port \in [Instances -> Ports \cup {None}]
  /\ child \subseteq Instances /\ alive \subseteq Instances /\ listed \subseteq Instances
  /\ inFlight \in [Instances -> 0..1]
  /\ leased \subseteq Ports
  /\ spawn \in [pc : {"idle", "wanted", "port", "poll", "check", "clean", "block"},
                inst : Instances \cup {None}, cfg : Versions \cup {None},
                port : Ports \cup {None}, took : BOOLEAN, exited : BOOLEAN]
  /\ crashes \in 0..CrashLimit /\ blocked \in BOOLEAN /\ deaths \in 0..CrashLimit
  /\ unblocks \in [clear : Nat, forget : Nat]
  /\ config \in Versions \cup {None}
  /\ reload \in [pc : {"idle", "unload", "retire", "swap", "unblock", "forget"},
                 to : Versions \cup {None}]
  /\ events \in 0..MaxEvents
  /\ released \in BOOLEAN
  /\ UNION {reported, killing, unlisting, freeing} \subseteq Instances
  /\ mode \in {"up", "draining", "stopping", "down"}

Init ==
  /\ state = [i \in Instances |-> "absent"]
  /\ built = [i \in Instances |-> None] /\ port = [i \in Instances |-> None]
  /\ listed = {} /\ child = {} /\ alive = {}
  /\ inFlight = [i \in Instances |-> 0]
  /\ reported = {}
  /\ leased = {}
  /\ spawn = Idle
  /\ crashes = 0 /\ blocked = FALSE /\ deaths = 0
  /\ unblocks = [clear |-> 0, forget |-> 0]
  /\ config \in Versions
  /\ reload = [pc |-> "idle", to |-> None] /\ events = 0
  /\ released = FALSE
  /\ killing = {} /\ unlisting = {} /\ freeing = {}
  /\ mode = "up"

Running == mode # "down"

\* A request, a process that ends, an operator's command, a signal.
Event == events < MaxEvents /\ events' = events + 1

-----------------------------------------------------------------------------
(* The steps of a removal. *)

\* What the steps of one removal leave alone.
Elsewhere ==
  UNCHANGED <<reported, leased, spawn, crashVars, deaths, config, reload, events, released,
              mode>>

\* Failed, and the child taken by whoever comes first; it is shut down.
BeginRemoval(set) ==
  /\ child' = child \ set
  /\ killing' = killing \cup (set \cap child)
  /\ unlisting' = unlisting \cup (set \ child)
  /\ UNCHANGED freeing

Fail(set) == state' = [i \in Instances |-> IF i \in set THEN "failed" ELSE state[i]]

\* shutdown_child: SIGTERM, then SIGKILL.
Kill(i) ==
  /\ Running /\ i \in killing
  /\ alive' = alive \ {i}
  /\ killing' = killing \ {i} /\ unlisting' = unlisting \cup {i}
  /\ UNCHANGED <<state, built, port, listed, child, inFlight, freeing>> /\ Elsewhere

\* Mutant: an instance that is already gone is cleaned up once more.
GoesOn(i) == TRUE

\* unregister_instance: whoever finds it in the registry goes on.
Registered(i) == i \in listed

Unlist(i) ==
  /\ Running /\ i \in unlisting
  /\ listed' = listed \ {i}
  /\ unlisting' = unlisting \ {i}
  /\ freeing' = IF Registered(i) THEN freeing \cup {i} ELSE freeing
  /\ UNCHANGED <<state, built, port, child, alive, inFlight, killing>> /\ Elsewhere

FreePort(i) ==
  /\ Running /\ i \in freeing
  /\ leased' = leased \ {port[i]}
  /\ freeing' = freeing \ {i}
  /\ UNCHANGED <<instVars, reported, spawn, crashVars, deaths, config, reload, events,
                 released, killing, unlisting, mode>>

Drained == {i \in listed : state[i] = "failed" /\ inFlight[i] = 0}

\* reap_drained: on a release event, and in every cycle of the autoscaler, which
\* looks at configured models only.
ReapDrained ==
  /\ Running
  /\ \/ released /\ released' = FALSE
     \/ config # None /\ Drained # {} /\ UNCHANGED released
  /\ BeginRemoval(Drained)
  /\ UNCHANGED <<state, built, port, listed, alive, inFlight, reported, leased, spawn,
                 crashVars, deaths, config, reload, events, mode>>

\* unload_model: a busy instance becomes unroutable, and is left to the reapers.
Unload ==
  /\ Fail(listed)
  /\ BeginRemoval({i \in listed : inFlight[i] = 0})

-----------------------------------------------------------------------------
(* The spawn task. *)

\* ensure_spawn, for a request, an admin or the autoscaler; the autoscaler, which
\* only adds to what there is, does not ask whether the model is blocked.
EnsureSpawn ==
  /\ mode \in {"up", "draining"}
  /\ spawn.pc = "idle"
  /\ config # None
  /\ ~blocked \/ listed # {}
  /\ spawn' = [Idle EXCEPT !.pc = "wanted", !.cfg = config]
  /\ UNCHANGED <<instVars, reported, leased, crashVars, deaths, config, reload, events,
                 released, removing, mode>>

Active == {i \in listed : state[i] # "failed"}

\* Below the cap, a port is leased.  The probe of a port may pass although the
\* process of an instance that is gone is about to bind it, or has yet to end.
LeasePort ==
  /\ Running /\ spawn.pc = "wanted"
  /\ \/ /\ Cardinality(Active) < MaxInstances
        /\ \E p \in Ports \ leased :
             /\ leased' = leased \cup {p}
             /\ spawn' = [spawn EXCEPT !.pc = "port", !.port = p]
     \/ /\ Cardinality(Active) >= MaxInstances \/ Ports \subseteq leased
        /\ spawn' = Idle
        /\ UNCHANGED leased
  /\ UNCHANGED <<instVars, reported, crashVars, deaths, config, reload, events,
                 released, removing, mode>>

\* No command, not enough GPUs, or no process: the port is given back.
SpawnRefused ==
  /\ Running /\ spawn.pc = "port"
  /\ leased' = leased \ {spawn.port}
  /\ spawn' = Idle
  /\ UNCHANGED <<instVars, reported, crashVars, deaths, config, reload, events,
                 released, removing, mode>>

Register ==
  /\ Running /\ spawn.pc = "port"
  /\ \E i \in Instances :
       /\ state[i] = "absent"
       /\ state' = [state EXCEPT ![i] = "loading"]
       /\ built' = [built EXCEPT ![i] = spawn.cfg]
       /\ port' = [port EXCEPT ![i] = spawn.port]
       /\ listed' = listed \cup {i} /\ child' = child \cup {i} /\ alive' = alive \cup {i}
       /\ spawn' = [Idle EXCEPT !.pc = "poll", !.inst = i]
  /\ UNCHANGED <<inFlight, reported, leased, crashVars, deaths, config, reload, events,
                 released, removing, mode>>

\* mark_ready, whatever the state was.
PollReady ==
  /\ Running /\ spawn.pc = "poll" /\ spawn.inst \in alive
  /\ state' = [state EXCEPT ![spawn.inst] = "ready"]
  /\ spawn' = [spawn EXCEPT !.pc = "check"]
  /\ UNCHANGED <<built, port, listed, child, alive, inFlight, reported, leased, crashVars,
                 deaths, config, reload, events, released, removing, mode>>

\* Mutant: a child that somebody else has taken counts as one that has exited.
ChildExitedOrTaken(i) == i \notin child \/ i \notin alive

\* try_wait is asked of a child that the handle still owns.
ChildExited(i) == i \in child /\ i \notin alive

\* The process has exited, or the timeout is over.
PollFails ==
  /\ Running /\ spawn.pc = "poll"
  /\ \E exited \in BOOLEAN :
       /\ exited => ChildExited(spawn.inst)
       /\ spawn' = [spawn EXCEPT !.pc = "clean", !.exited = exited, !.took = spawn.inst \in child]
  /\ Fail({spawn.inst}) /\ BeginRemoval({spawn.inst})
  /\ UNCHANGED <<built, port, listed, alive, inFlight, reported, leased, crashVars, deaths,
                 config, reload, events, released, mode>>

\* The instance is compared with the configuration in force, before its monitor
\* starts and the crashes are forgotten.
SpawnCheck ==
  /\ Running /\ spawn.pc = "check"
  /\ \/ /\ built[spawn.inst] = config
        /\ crashes' = 0 /\ deaths' = 0
        /\ spawn' = Idle
        /\ UNCHANGED <<state, child, removing>>
     \/ /\ built[spawn.inst] # config
        /\ Fail({spawn.inst}) /\ BeginRemoval({spawn.inst})
        /\ spawn' = [spawn EXCEPT !.pc = "clean", !.took = spawn.inst \in child]
        /\ UNCHANGED <<crashes, deaths>>
  /\ UNCHANGED <<reported, built, port, listed, alive, inFlight, leased, blocked, unblocks, config,
                 reload, events, released, mode>>

\* Mutant: the limit itself is still allowed.
OverLimit(n) == n > CrashLimit

AtLimit(n) == n >= CrashLimit

\* The spawn task waits for its own removal: a child taken by another is shut down
\* by that one.
Cleaned ==
  /\ spawn.inst \notin unlisting \cup freeing
  /\ spawn.took => spawn.inst \notin killing

\* After the removal a dead process is counted, ...
NoteCrash ==
  /\ Running /\ spawn.pc = "clean" /\ Cleaned
  /\ \/ /\ ~spawn.exited
        /\ spawn' = Idle
        /\ UNCHANGED crashes
     \/ /\ spawn.exited
        /\ crashes' = Min({crashes + 1, CrashLimit})
        /\ spawn' = IF AtLimit(crashes + 1) THEN [spawn EXCEPT !.pc = "block"] ELSE Idle
  /\ UNCHANGED <<instVars, reported, leased, blocked, unblocks, deaths, config, reload,
                 events, released, removing, mode>>

\* ... and at the limit the model is blocked.
BlockModel ==
  /\ Running /\ spawn.pc = "block"
  /\ blocked' = TRUE
  /\ spawn' = Idle
  /\ UNCHANGED <<instVars, reported, leased, crashes, unblocks, deaths, config, reload,
                 events, released, removing, mode>>

-----------------------------------------------------------------------------
(* Processes and requests. *)

\* A process ends by itself.
Exit(i) ==
  /\ Running /\ i \in alive \cap child /\ Event
  /\ alive' = alive \ {i}
  /\ deaths' = IF spawn.pc = "poll" /\ spawn.inst = i
               THEN Min({deaths + 1, CrashLimit}) ELSE deaths
  /\ UNCHANGED <<state, built, port, listed, child, inFlight, reported, leased, spawn,
                 crashVars, config, reload, released, removing, mode>>

\* Mutant: the monitor believes that a managed removal sees to a busy instance.
WatchedIfIdle(i) == state[i] = "ready" /\ i \in child /\ spawn.inst # i /\ inFlight[i] = 0

\* The monitor starts with the end of the spawn task and quits when a managed
\* removal has begun.
Watched(i) == state[i] = "ready" /\ i \in child /\ spawn.inst # i

Monitor(i) ==
  /\ Running /\ Watched(i) /\ i \notin alive \cup reported
  /\ reported' = reported \cup {i}
  /\ UNCHANGED <<instVars, leased, spawn, crashVars, deaths, config, reload, events,
                 released, removing, mode>>

\* The crash task: nothing if a removal came first; else the process has been
\* reaped and the rest is done.  A monitored instance has been Ready, so that no
\* pre-output crash is counted here.
HandleCrash ==
  /\ Running
  /\ \E i \in reported :
       /\ reported' = reported \ {i}
       /\ \/ state[i] = "failed" /\ UNCHANGED <<state, child, unlisting>>
          \/ /\ state[i] # "failed"
             /\ Fail({i})
             /\ child' = child \ {i}
             /\ unlisting' = unlisting \cup {i}
  /\ UNCHANGED <<built, port, listed, alive, inFlight, leased, spawn, crashVars, deaths,
                 config, reload, events, released, killing, freeing, mode>>

Serve(i) ==
  /\ mode = "up" /\ Event
  /\ i \in listed /\ state[i] = "ready" /\ inFlight[i] = 0
  /\ inFlight' = [inFlight EXCEPT ![i] = 1]
  /\ UNCHANGED <<state, built, port, listed, child, alive, reported, leased, spawn,
                 crashVars, deaths, config, reload, released, removing, mode>>

\* Mutant: the guard is dropped, and the handler releases the slot as well.
ReleaseSlotTwice(i) == inFlight' = [inFlight EXCEPT ![i] = @ - 2]

ReleaseSlot(i) == inFlight' = [inFlight EXCEPT ![i] = @ - 1]

Finish(i) ==
  /\ Running /\ inFlight[i] > 0
  /\ ReleaseSlot(i)
  /\ released' = TRUE
  /\ UNCHANGED <<state, built, port, listed, child, alive, reported, leased, spawn,
                 crashVars, deaths, config, reload, events, removing, mode>>

-----------------------------------------------------------------------------
(* Administration, reload and shutdown. *)

\* admin_unload
UnloadModel ==
  /\ mode = "up" /\ Event
  /\ config # None /\ listed # {}
  /\ Unload
  /\ UNCHANGED <<built, port, listed, alive, inFlight, reported, leased, spawn, crashVars,
                 deaths, config, reload, released, mode>>

\* admin_unblock asks for the flag, ...
UnblockModel ==
  /\ mode = "up" /\ config # None /\ blocked /\ Event
  /\ unblocks' = [unblocks EXCEPT !.clear = @ + 1]
  /\ UNCHANGED <<instVars, reported, leased, spawn, crashes, blocked, deaths, config, reload,
                 released, removing, mode>>

\* ... unblock_model clears it, ...
ClearFlag ==
  /\ Running /\ unblocks.clear > 0
  /\ blocked' = FALSE
  /\ unblocks' = [clear |-> unblocks.clear - 1, forget |-> unblocks.forget + 1]
  /\ UNCHANGED <<instVars, reported, leased, spawn, crashes, deaths, config, reload, events,
                 released, removing, mode>>

\* ... and forgets the crashes, under another lock.
ForgetCrashes ==
  /\ Running /\ unblocks.forget > 0
  /\ crashes' = 0
  /\ unblocks' = [unblocks EXCEPT !.forget = @ - 1]
  /\ UNCHANGED <<instVars, reported, leased, spawn, blocked, deaths, config, reload, events,
                 released, removing, mode>>

\* reconcile_config: ...
BeginReload ==
  /\ Running /\ reload.pc = "idle" /\ Event
  /\ \E c \in Versions \cup {None} :
       /\ c # config
       /\ reload' = [pc |-> IF c = None THEN "unload" ELSE "retire", to |-> c]
  /\ UNCHANGED <<instVars, reported, leased, spawn, crashVars, deaths, config, released,
                 removing, mode>>

\* ... the instances of a removed model are unloaded, which may take a while;
UnloadRemoved ==
  /\ Running /\ reload.pc = "unload"
  /\ Unload
  /\ reload' = [reload EXCEPT !.pc = "swap"]
  /\ UNCHANGED <<built, port, listed, alive, inFlight, reported, leased, spawn, crashVars,
                 deaths, config, events, released, mode>>

\* those of a changed one are retired: they finish their requests;
RetireStale ==
  /\ Running /\ reload.pc = "retire"
  /\ Fail({i \in Active : built[i] # reload.to})
  /\ reload' = [reload EXCEPT !.pc = "swap"]
  /\ UNCHANGED <<built, port, listed, child, alive, inFlight, reported, leased, spawn,
                 crashVars, deaths, config, events, released, removing, mode>>

\* then the configuration is swapped, the aliases of commands right after the models
\* and under a lock of their own: one step here, so that no spawn compares itself with
\* the models of the one and the aliases of the other; ...
Swap ==
  /\ Running /\ reload.pc = "swap"
  /\ config' = reload.to
  /\ reload' = [reload EXCEPT !.pc = "unblock"]
  /\ UNCHANGED <<instVars, reported, leased, spawn, crashVars, deaths, events, released,
                 removing, mode>>

\* ... the blocks are lifted, and the crashes forgotten.
ClearBlocks ==
  /\ Running
  /\ \/ /\ reload.pc = "unblock"
        /\ blocked' = FALSE
        /\ reload' = [reload EXCEPT !.pc = "forget"]
        /\ UNCHANGED crashes
     \/ /\ reload.pc = "forget"
        /\ crashes' = 0
        /\ reload' = [pc |-> "idle", to |-> None]
        /\ UNCHANGED blocked
  /\ UNCHANGED <<instVars, reported, leased, spawn, unblocks, deaths, config, events,
                 released, removing, mode>>

\* A signal: no new connections.
StopServer ==
  /\ mode = "up" /\ Event
  /\ mode' = "draining"
  /\ UNCHANGED <<instVars, reported, leased, spawn, crashVars, deaths, config, reload,
                 released, removing>>

\* The connections have drained, or the timeout is over and they are aborted.
\* shutdown_all: what is registered, busy or not.
ShutdownAll ==
  /\ mode = "draining"
  /\ mode' = "stopping"
  /\ Fail(listed) /\ BeginRemoval(listed)
  /\ UNCHANGED <<built, port, listed, alive, inFlight, reported, leased, spawn, crashVars,
                 deaths, config, reload, events, released>>

\* main returns: what is left dies with its handle (kill_on_drop), and nothing
\* is kept.
Stop ==
  /\ mode = "stopping" /\ UNION {killing, unlisting, freeing} = {}
  /\ mode' = "down"
  /\ alive' = {} /\ child' = {} /\ listed' = {} /\ leased' = {} /\ reported' = {}
  /\ state' = [i \in Instances |-> "absent"]
  /\ built' = [i \in Instances |-> None] /\ port' = [i \in Instances |-> None]
  /\ inFlight' = [i \in Instances |-> 0]
  /\ spawn' = Idle /\ reload' = [pc |-> "idle", to |-> None]
  /\ crashes' = 0 /\ blocked' = FALSE /\ deaths' = 0 /\ released' = FALSE
  /\ unblocks' = [clear |-> 0, forget |-> 0]
  /\ UNCHANGED <<config, events, removing>>

-----------------------------------------------------------------------------
RemovalStep(i) == Kill(i) \/ Unlist(i) \/ FreePort(i)

SpawnStep ==
  \/ LeasePort \/ SpawnRefused \/ Register \/ PollReady \/ PollFails
  \/ SpawnCheck \/ NoteCrash \/ BlockModel

ReloadStep == UnloadRemoved \/ RetireStale \/ Swap \/ ClearBlocks

ShutdownStep == ShutdownAll \/ Stop

\* The process has ended, or waits for what comes next.
Rest == (mode = "down" \/ events = MaxEvents) /\ UNCHANGED vars

Next ==
  \/ ReapDrained
  \/ \E i \in Instances : RemovalStep(i) \/ Exit(i) \/ Monitor(i) \/ Serve(i) \/ Finish(i)
  \/ EnsureSpawn \/ SpawnStep
  \/ HandleCrash \/ UnloadModel
  \/ UnblockModel \/ ClearFlag \/ ForgetCrashes
  \/ BeginReload \/ ReloadStep
  \/ StopServer \/ ShutdownStep \/ Rest

Spec == Init /\ [][Next]_vars

-----------------------------------------------------------------------------
(* Properties. *)

\* An instance holds its lease from the registration to the free after it is
\* unregistered.
Holders == listed \cup freeing

SpawnPorts == IF spawn.pc = "port" THEN {spawn.port} ELSE {}

\* Whoever removes an instance, and however many do: its port is freed once, and
\* never after it is another's ("must happen exactly once per instance").
PortsExact ==
  /\ leased = {port[i] : i \in Holders} \cup SpawnPorts
  /\ \A i \in Holders : port[i] \notin SpawnPorts
  /\ \A i, j \in Holders : i # j => port[i] # port[j]

\* A model is blocked after CrashLimit processes have died by themselves, with no
\* success in between: never for slow loads, or for instances that were removed
\* while they loaded.
BlockedForCrashes == [][~blocked /\ blocked' => deaths = CrashLimit]_vars

\* At the limit it is blocked: the flag is cleared by an admin or a reload only, each of
\* which then forgets the crashes.  In between, the counter is at the limit and spawns
\* are let through: that they are two steps apart is all that may come between.
LimitBlocks ==
  crashes = CrashLimit /\ spawn.pc # "block" =>
    blocked \/ reload.pc = "forget" \/ unblocks.forget > 0

\* Somebody is at the instance: its spawn task, its monitor, the crash task, a
\* removal in progress, or a reaper, for whom the autoscaler's next cycle, a
\* release event or a request that will send one is enough.
Attended(i) ==
  \/ i \in {spawn.inst} \cup reported \cup killing \cup unlisting
  \/ Watched(i)
  \/ /\ state[i] = "failed"
     /\ config # None \/ reload.to # None \/ released \/ inFlight[i] > 0

\* An instance that is unroutable, or whose process has ended, never stays in the
\* registry for want of a task that removes it, whoever gave up on it because he
\* believed another to be at it (monitor_instance_exit, handle_crash).
NoOrphan ==
  \A i \in listed : state[i] = "failed" \/ i \notin alive => Attended(i)

-----------------------------------------------------------------------------
(* What comments of the code say, and the code does not do. *)

\* scheduler.rs, reconcile_config: it "unloads instances of models that no longer
\* exist", and retires those with another configuration: when it is over, what is
\* routable has the configuration in force, or is about to be looked at or removed.
OutdatedIsGone ==
  reload.pc = "idle" =>
    \A i \in listed :
      state[i] = "ready" /\ built[i] # config => i \in {spawn.inst} \cup killing \cup unlisting
===============================================================================
