------------------------------ MODULE KeepAlive ------------------------------
(***************************************************************************)
(* The keep-alive manager, the instances that hold references to it, and   *)
(* the reload that replaces it.                                            *)
(*                                                                         *)
(* A GPU in use has a background task.  acquire and release count the      *)
(* users of a GPU under one lock and start or stop its task under another; *)
(* the spawn task and the remover of an instance, each on a thread of its  *)
(* own, first list (unlist) the instance, then fetch the manager in force, *)
(* then call it.  Every one of these is a step here.                       *)
(***************************************************************************)
EXTENDS Integers, FiniteSets

CONSTANTS
  Instances,   \* each is spawned once, and occupies one GPU
  Gpus,        \* PCI slots
  MaxManagers, \* bound on the managers that are ever built
  Admin        \* which operations may overlap, and which reloads may happen

ASSUME KeepAliveAssumption ==
  /\ IsFiniteSet(Instances)
  /\ MaxManagers \in Nat \ {0}
  /\ Admin \subseteq {"overlap", "race", "early", "remap"}

Managers == 1..MaxManagers

Spawner(i) == <<"spawn", i>>
Remover(i) == <<"remove", i>>
Reloader   == <<"reload">>
Actors     == {Spawner(i) : i \in Instances} \cup {Remover(i) : i \in Instances} \cup {Reloader}

VARIABLES
  slot,    \* instance -> the PCI slot its GPU index maps to
  listed,  \* the registry
  current, \* the manager in force; 0: keep-alive is not configured
  made,    \* managers built so far
  count,   \* manager -> GPU -> references
  running, \* manager -> the GPUs in its task table
  pc,      \* actor -> where it is
  mgr,     \* actor -> the manager it has fetched
  target,  \* actor -> the GPU it is about to start or stop the task of
  todo     \* the listed instances the reload has still to count

ManagerVars == <<count, running>>
vars == <<slot, listed, current, made, count, running, pc, mgr, target, todo>>

TypeOK ==
  /\ slot \in [Instances -> Gpus]
  /\ listed \in SUBSET Instances
  /\ made \in Managers
  /\ current \in 0..made
  /\ count \in [Managers -> [Gpus -> Nat]]
  /\ running \in [Managers -> SUBSET Gpus]
  /\ pc \in [Actors -> {"idle", "fetch", "acquire", "release", "start", "stop",
                        "swapped", "clear", "list", "done"}]
  /\ mgr \in [Actors -> 0..MaxManagers]
  /\ target \in [Actors -> Gpus]
  /\ todo \in SUBSET Instances

Init ==
  /\ slot \in [Instances -> Gpus]
  /\ listed = {}
  /\ current = 1
  /\ made = 1
  /\ count = [m \in Managers |-> [g \in Gpus |-> 0]]
  /\ running = [m \in Managers |-> {}]
  /\ pc = [a \in Actors |-> "idle"]
  /\ mgr = [a \in Actors |-> 0]
  /\ target \in [Actors -> Gpus]
  /\ \A a, b \in Actors : target[a] = target[b]
  /\ todo = {}

-----------------------------------------------------------------------------
\* Nobody is inside an operation.
Quiet == \A a \in Actors : pc[a] \in {"idle", "done"}

\* Bounds: without "overlap" a spawn or a removal begins when nobody is inside an
\* operation, and without "race" a reload has the manager to itself.
InstanceMayBegin ==
  /\ "overlap" \in Admin \/ Quiet
  /\ "race" \in Admin \/ pc[Reloader] = "idle"

ReloadMayBegin == pc[Reloader] = "idle" /\ ("race" \in Admin \/ Quiet)

Goto(a, l) == pc' = [pc EXCEPT ![a] = l]

\* What an actor goes on to after acquire or release.
After(a, rest) ==
  IF a # Reloader THEN "done" ELSE IF rest = {} THEN "idle" ELSE "acquire"

\* The keepalive lock is write-locked while a reload replaces the manager.
Replacing == pc[Reloader] = "clear"

\* try_spawn registers the instance ...
Register(i) ==
  /\ InstanceMayBegin
  /\ pc[Spawner(i)] = "idle"
  /\ listed' = listed \cup {i}
  /\ Goto(Spawner(i), "fetch")
  /\ UNCHANGED <<slot, current, made, ManagerVars, mgr, target, todo>>

\* ... and unregister_instance takes it out.  Without "early" the spawn task
\* has counted it by then.
Unregister(i) ==
  /\ InstanceMayBegin
  /\ i \in listed
  /\ "early" \in Admin \/ pc[Spawner(i)] = "done"
  /\ listed' = listed \ {i}
  /\ Goto(Remover(i), "fetch")
  /\ UNCHANGED <<slot, current, made, ManagerVars, mgr, target, todo>>

\* Both clone the manager in force.
Fetch(a, l) ==
  /\ pc[a] = "fetch"
  /\ ~Replacing
  /\ mgr' = [mgr EXCEPT ![a] = current]
  /\ Goto(a, IF current = 0 THEN "done" ELSE l)
  /\ UNCHANGED <<slot, listed, current, made, ManagerVars, target, todo>>

-----------------------------------------------------------------------------
\* KeepAliveManager::acquire counts, ...
Acquire(a, i) ==
  /\ pc[a] = "acquire"
  /\ count' = [count EXCEPT ![mgr[a]][slot[i]] = @ + 1]
  /\ target' = [target EXCEPT ![a] = slot[i]]
  /\ todo' = IF a = Reloader THEN todo \ {i} ELSE todo
  /\ Goto(a, IF count[mgr[a]][slot[i]] = 0 THEN "start" ELSE After(a, todo'))
  /\ UNCHANGED <<slot, listed, current, made, running, mgr>>

\* ... and starts the task for the first reference, unless one runs.
StartTask(a) ==
  /\ pc[a] = "start"
  /\ running' = [running EXCEPT ![mgr[a]] = @ \cup {target[a]}]
  /\ Goto(a, After(a, todo))
  /\ UNCHANGED <<slot, listed, current, made, count, mgr, target, todo>>

\* Mutant: the count of the last reference is left at one.
CountDownKeepsOne(m, g) ==
  count' = [count EXCEPT ![m][g] = IF @ > 1 THEN @ - 1 ELSE @]

\* A release without an acquire is only logged.
CountDown(m, g) ==
  count' = [count EXCEPT ![m][g] = IF @ > 0 THEN @ - 1 ELSE 0]

\* Mutant: the count is looked at after it has been lowered.
LastReferenceLate(m, g) == count[m][g] \in {1, 2}

LastReference(m, g) == count[m][g] = 1

\* KeepAliveManager::release counts, and stops the task of the last reference.
Release(a, i) ==
  LET g == slot[i]
  IN /\ pc[a] = "release"
     /\ CountDown(mgr[a], g)
     /\ Goto(a, IF LastReference(mgr[a], g) THEN "stop" ELSE "done")
     /\ target' = [target EXCEPT ![a] = g]
     /\ UNCHANGED <<slot, listed, current, made, running, mgr, todo>>

StopTask(a) ==
  /\ pc[a] = "stop"
  /\ running' = [running EXCEPT ![mgr[a]] = @ \ {target[a]}]
  /\ Goto(a, "done")
  /\ UNCHANGED <<slot, listed, current, made, count, mgr, target, todo>>

-----------------------------------------------------------------------------
(* reconcile_config. *)

\* The actors between count and task hold the map of slots.
MapInUse == \E a \in Actors \ {Reloader} : pc[a] \in {"start", "stop"}

\* The devices section is swapped in; instances of models whose own section is
\* unchanged live on.  The keep_alive section may have changed, too.  Without
\* "remap" the map of slots changes only together with it.
SwapDevices ==
  /\ ReloadMayBegin
  /\ ~MapInUse
  /\ slot' \in [Instances -> Gpus]
  /\ \/ made < MaxManagers /\ Goto(Reloader, "swapped")
     \/ (slot' = slot \/ "remap" \in Admin) /\ UNCHANGED pc
  /\ UNCHANGED <<listed, current, made, ManagerVars, mgr, target, todo>>

\* stop_all cancels the tasks ...
StopTasks == running' = [m \in Managers |-> IF m = current THEN {} ELSE running[m]]

Rebuild ==
  /\ pc[Reloader] = "swapped"
  /\ StopTasks
  /\ Goto(Reloader, "clear")
  /\ UNCHANGED <<slot, listed, current, made, count, mgr, target, todo>>

\* ... and then forgets the counts; the new manager, if the configuration has
\* one, takes its place.
Replace ==
  /\ pc[Reloader] = "clear"
  /\ count' = [m \in Managers |-> IF m = current THEN [g \in Gpus |-> 0] ELSE count[m]]
  /\ \/ current' = made + 1 /\ made' = made + 1
     \/ current # 0 /\ current' = 0 /\ made' = made
  /\ Goto(Reloader, "list")
  /\ UNCHANGED <<slot, listed, running, mgr, target, todo>>

\* Mutant: those whose spawn task is still under way are left to it.
CountedAfreshIfSpawned ==
  IF current = 0 THEN {} ELSE {i \in listed : pc[Spawner(i)] = "done"}

\* The instances that are listed now are counted afresh.
CountedAfresh == IF current = 0 THEN {} ELSE listed

ListInstances ==
  /\ pc[Reloader] = "list"
  /\ mgr' = [mgr EXCEPT ![Reloader] = current]
  /\ todo' = CountedAfresh
  /\ Goto(Reloader, IF todo' = {} THEN "idle" ELSE "acquire")
  /\ UNCHANGED <<slot, listed, current, made, ManagerVars, target>>

-----------------------------------------------------------------------------
SpawnStep(i) ==
  \/ Register(i) \/ Fetch(Spawner(i), "acquire")
  \/ Acquire(Spawner(i), i) \/ StartTask(Spawner(i))

RemoveStep(i) ==
  \/ Unregister(i) \/ Fetch(Remover(i), "release")
  \/ Release(Remover(i), i) \/ StopTask(Remover(i))

ReloadStep ==
  \/ SwapDevices \/ Rebuild \/ Replace \/ ListInstances
  \/ \E i \in todo : Acquire(Reloader, i)
  \/ StartTask(Reloader)

\* Every instance has come and gone.
Finished == Quiet /\ (\A i \in Instances : pc[Remover(i)] = "done") /\ UNCHANGED vars

Next == (\E i \in Instances : SpawnStep(i) \/ RemoveStep(i)) \/ ReloadStep \/ Finished

Spec == Init /\ [][Next]_vars

-----------------------------------------------------------------------------
(* Properties.  Each speaks of the moments when nobody is inside an operation. *)

Users(g) == {i \in listed : slot[i] = g}

\* keepalive.rs: "The task runs while the count is > 0. [...] a stop can never
\* take effect while a new instance has just landed on the GPU."
TaskFollowsCount ==
  Quiet /\ current # 0 => \A g \in Gpus : g \in running[current] <=> count[current][g] > 0

\* Every reference is given back: no instance, no references (keepalive.rs:
\* "released exactly once when the instance is unregistered").
ReferencesReturned ==
  Quiet /\ listed = {} /\ current # 0 => \A g \in Gpus : count[current][g] = 0
=============================================================================
