--------------------------- MODULE LifecycleProofs ---------------------------
(* Theorems about InstanceLifecycle, for any instances, ports, caps and limits. *)
EXTENDS InstanceLifecycle, TLAPS

\* The lesser of a number and a limit.
LEMMA MinOfTwo ==
  ASSUME NEW n \in Nat, NEW limit \in Nat
  PROVE  Min({n, limit}) = IF n <= limit THEN n ELSE limit
<1>1. \E x \in {n, limit} : \A y \in {n, limit} : x =< y
  OBVIOUS
<1>2. Min({n, limit}) \in {n, limit} /\ \A y \in {n, limit} : Min({n, limit}) =< y
  BY <1>1 DEF Min
<1>. QED
  BY <1>2

-----------------------------------------------------------------------------
\* The instances, the removals, and what waits for a task.
InstTypes ==
  /\ state \in [Instances -> {"absent", "loading", "ready", "failed"}]
  /\ built \in [Instances -> Versions \cup {None}]
  /\ port \in [Instances -> Ports \cup {None}]
  /\ child \subseteq Instances /\ alive \subseteq Instances /\ listed \subseteq Instances
  /\ inFlight \in [Instances -> 0..1]
  /\ leased \subseteq Ports
  /\ reported \subseteq Instances /\ killing \subseteq Instances
  /\ unlisting \subseteq Instances /\ freeing \subseteq Instances

\* The counters, the configuration and the process.
OtherTypes ==
  /\ crashes \in 0..CrashLimit /\ deaths \in 0..CrashLimit
  /\ unblocks \in [clear : Nat, forget : Nat]
  /\ config \in Versions \cup {None}
  /\ reload \in [pc : {"idle", "unload", "retire", "swap", "unblock", "forget"},
                 to : Versions \cup {None}]
  /\ events \in 0..MaxEvents
  /\ mode \in {"up", "draining", "stopping", "down"}

Flags == blocked \in BOOLEAN /\ released \in BOOLEAN

\* A spawn that leases a port has one, and a spawn that waits has an instance.
SpawnTypes ==
  /\ spawn \in [pc : {"idle", "wanted", "port", "poll", "check", "clean", "block"},
                inst : Instances \cup {None}, cfg : Versions \cup {None},
                port : Ports \cup {None}, took : BOOLEAN, exited : BOOLEAN]
  /\ spawn.pc = "port" => spawn.port \in Ports
  /\ spawn.pc \in {"poll", "check", "clean", "block"} => spawn.inst \in Instances

Shape == InstTypes /\ OtherTypes /\ Flags /\ SpawnTypes

LEMMA ShapeIsTyped == Shape => TypeOK
  BY DEF Shape, InstTypes, OtherTypes, Flags, SpawnTypes, TypeOK

LEMMA ShapeInit == Init => Shape
<1>. SUFFICES ASSUME Init PROVE Shape
  OBVIOUS
<1>. USE LifecycleAssumption DEF Init
<1>1. InstTypes
  BY DEF InstTypes
<1>2. OtherTypes
  BY DEF OtherTypes
<1>3. Flags
  BY Zenon DEF Flags
<1>4. SpawnTypes
  BY DEF SpawnTypes, Idle
<1>. QED
  BY <1>1, <1>2, <1>3, <1>4 DEF Shape

LEMMA SpawnTypesStep ==
  ASSUME Shape, [Next]_vars PROVE SpawnTypes'
<1>. USE LifecycleAssumption DEF Shape, SpawnTypes
<1>1. CASE EnsureSpawn
  BY <1>1 DEF EnsureSpawn, Idle, OtherTypes
<1>2. CASE LeasePort
  <2>1. CASE spawn' = Idle
    BY <2>1 DEF Idle
  <2>2. ASSUME NEW p \in Ports, spawn' = [spawn EXCEPT !.pc = "port", !.port = p] PROVE SpawnTypes'
    BY <2>2
  <2>. QED
    BY <1>2, <2>1, <2>2 DEF LeasePort
<1>3. CASE Register
  <2>1. PICK i \in Instances : spawn' = [Idle EXCEPT !.pc = "poll", !.inst = i]
    BY <1>3 DEF Register
  <2>. QED
    BY <2>1 DEF Idle
<1>4. CASE PollReady
  BY <1>4 DEF PollReady
<1>5. CASE PollFails
  <2>1. PICK e \in BOOLEAN : spawn' = [spawn EXCEPT !.pc = "clean", !.exited = e,
                                                    !.took = spawn.inst \in child]
    BY <1>5 DEF PollFails
  <2>2. (spawn.inst \in child) \in BOOLEAN
    OBVIOUS
  <2>. QED
    BY <1>5, <2>1, <2>2 DEF PollFails
<1>6. CASE SpawnCheck
  <2>1. CASE spawn' = Idle
    BY <2>1 DEF Idle
  <2>2. CASE spawn' = [spawn EXCEPT !.pc = "clean", !.took = spawn.inst \in child]
    <3>1. spawn.pc = "check" /\ (spawn.inst \in child) \in BOOLEAN
      BY <1>6 DEF SpawnCheck
    <3>. QED
      BY <2>2, <3>1
  <2>. QED
    BY <1>6, <2>1, <2>2 DEF SpawnCheck
<1>7. CASE NoteCrash
  <2>1. CASE spawn' = Idle
    BY <2>1 DEF Idle
  <2>2. CASE spawn' = [spawn EXCEPT !.pc = "block"]
    BY <1>7, <2>2 DEF NoteCrash
  <2>. QED
    BY <1>7, <2>1, <2>2 DEF NoteCrash
<1>8. CASE spawn' = Idle
  BY <1>8 DEF Idle
<1>9. CASE UNCHANGED spawn
  BY <1>9
<1>. QED
  BY <1>1, <1>2, <1>3, <1>4, <1>5, <1>6, <1>7, <1>8, <1>9
  DEF Next, RemovalStep, SpawnStep, ReloadStep, ShutdownStep, Rest, ReapDrained, Exit, Monitor,
      Serve, Finish, HandleCrash, UnloadModel, UnblockModel, ClearFlag, ForgetCrashes,
      BeginReload, StopServer, Kill, Unlist, FreePort, SpawnRefused, BlockModel,
      UnloadRemoved, RetireStale, Swap, ClearBlocks, ShutdownAll, Stop, Elsewhere, vars

LEMMA InstTypesStep ==
  ASSUME Shape, [Next]_vars PROVE InstTypes'
<1>. USE LifecycleAssumption DEF Shape, InstTypes, instVars, removing
<1>1. ASSUME NEW i \in Instances, Kill(i) \/ Unlist(i) \/ FreePort(i) PROVE InstTypes'
  BY <1>1 DEF Kill, Unlist, FreePort, Elsewhere
<1>2. CASE ReapDrained
  BY <1>2 DEF ReapDrained, BeginRemoval, Drained
<1>3. CASE UnloadModel \/ UnloadRemoved \/ RetireStale \/ ShutdownAll
  BY <1>3 DEF UnloadModel, UnloadRemoved, Unload, RetireStale, ShutdownAll, BeginRemoval, Fail
<1>4. CASE Stop
  BY <1>4 DEF Stop
<1>5. CASE LeasePort \/ SpawnRefused
  BY <1>5 DEF LeasePort, SpawnRefused
<1>6. CASE Register
  BY <1>6 DEF Register, SpawnTypes
<1>7. CASE PollReady
  BY <1>7 DEF PollReady, SpawnTypes
<1>13. CASE PollFails
  BY <1>13 DEF PollFails, BeginRemoval, Fail, SpawnTypes
<1>8. CASE SpawnCheck
  BY <1>8 DEF SpawnCheck, BeginRemoval, Fail, SpawnTypes
<1>9. CASE HandleCrash
  BY <1>9 DEF HandleCrash, Fail
<1>10. ASSUME NEW i \in Instances, Exit(i) \/ Monitor(i) PROVE InstTypes'
  BY <1>10 DEF Exit, Monitor
<1>11. ASSUME NEW i \in Instances, Serve(i) \/ Finish(i) PROVE InstTypes'
  BY <1>11 DEF Serve, Finish, ReleaseSlot
<1>12. CASE UNCHANGED <<instVars, reported, leased, removing>>
  BY <1>12
<1>. QED
  BY <1>1, <1>2, <1>3, <1>4, <1>5, <1>6, <1>7, <1>8, <1>9, <1>10, <1>11, <1>12, <1>13
  DEF Next, RemovalStep, SpawnStep, ReloadStep, ShutdownStep, Rest, EnsureSpawn, NoteCrash,
      BlockModel, UnblockModel, ClearFlag, ForgetCrashes, BeginReload, Swap, ClearBlocks,
      StopServer, vars

LEMMA FlagsStep ==
  ASSUME Shape, [Next]_vars PROVE Flags'
<1>1. blocked' \in {blocked, TRUE, FALSE} /\ released' \in {released, TRUE, FALSE}
  BY DEF Next, RemovalStep, SpawnStep, ReloadStep, ShutdownStep, Rest, EnsureSpawn, Kill, Unlist,
      FreePort, Elsewhere, LeasePort, SpawnRefused, Register, PollReady, PollFails, SpawnCheck,
      NoteCrash, BlockModel, Exit, Monitor, Serve, Finish, HandleCrash, ReapDrained,
      UnloadModel, UnblockModel, ClearFlag, ForgetCrashes, BeginReload, UnloadRemoved,
      RetireStale, Swap, ClearBlocks, StopServer, ShutdownAll, Stop, crashVars, vars
<1>. QED
  BY <1>1, Zenon DEF Shape, Flags

LEMMA OtherTypesStep ==
  ASSUME Shape, [Next]_vars PROVE OtherTypes'
<1>. USE LifecycleAssumption DEF Shape, OtherTypes, crashVars
<1>1. CASE NoteCrash
  <2>1. Min({crashes + 1, CrashLimit}) \in 0..CrashLimit
    BY MinOfTwo
  <2>2. crashes' \in {crashes, Min({crashes + 1, CrashLimit})}
    BY <1>1 DEF NoteCrash
  <2>. QED
    BY <1>1, <2>1, <2>2 DEF NoteCrash
<1>2. ASSUME NEW i \in Instances, Exit(i) PROVE OtherTypes'
  BY <1>2, MinOfTwo DEF Exit, Event
<1>3. CASE SpawnCheck \/ BlockModel
  BY <1>3 DEF SpawnCheck, BlockModel
<1>4. ASSUME NEW i \in Instances, Serve(i) \/ Finish(i) PROVE OtherTypes'
  BY <1>4 DEF Serve, Finish, Event
<1>5. CASE UnloadModel \/ UnblockModel \/ StopServer
  BY <1>5 DEF UnloadModel, UnblockModel, StopServer, Event
<1>6. CASE BeginReload
  BY <1>6 DEF BeginReload, Event
<1>7. CASE UnloadRemoved \/ RetireStale \/ Swap
  BY <1>7 DEF UnloadRemoved, RetireStale, Swap
<1>8. CASE ClearBlocks
  BY <1>8 DEF ClearBlocks
<1>9. CASE ShutdownAll \/ Stop \/ ReapDrained
  BY <1>9 DEF ShutdownAll, Stop, ReapDrained
<1>10. CASE ClearFlag \/ ForgetCrashes
  BY <1>10 DEF ClearFlag, ForgetCrashes
<1>11. CASE UNCHANGED <<crashes, unblocks, deaths, config, reload, events, mode>>
  BY <1>11
<1>. QED
  BY <1>1, <1>2, <1>3, <1>4, <1>5, <1>6, <1>7, <1>8, <1>9, <1>10, <1>11
  DEF Next, RemovalStep, SpawnStep, ReloadStep, ShutdownStep, Rest, EnsureSpawn, Kill, Unlist,
      FreePort, Elsewhere, LeasePort, SpawnRefused, Register, PollReady, PollFails, Monitor,
      HandleCrash, vars

\* Every variable keeps its type; in particular a slot that is released was held.
THEOREM LifecycleTypes == Spec => []TypeOK
<1>1. Shape /\ [Next]_vars => Shape'
  BY InstTypesStep, OtherTypesStep, FlagsStep, SpawnTypesStep DEF Shape
<1>. QED
  BY ShapeInit, ShapeIsTyped, <1>1, PTL DEF Spec

-----------------------------------------------------------------------------
\* At the limit of crashes the model is blocked, or the spawn task is about to block
\* it, or a reload or an admin's unblock has cleared the flag and has yet to forget the
\* crashes: each of the two takes two locks one after the other.
THEOREM CrashLimitBlocks == Spec => []LimitBlocks
<1>1. Init => LimitBlocks
  BY LifecycleAssumption DEF Init, LimitBlocks
<1>2. ASSUME Shape, LimitBlocks, [Next]_vars PROVE LimitBlocks'
  <2>. USE LifecycleAssumption DEF LimitBlocks, crashVars
  <2>1. CASE NoteCrash
    <3>1. CASE ~spawn.exited
      BY <1>2, <2>1, <3>1 DEF NoteCrash
    <3>2. CASE spawn.exited
      <4>1. crashes' = IF crashes + 1 <= CrashLimit THEN crashes + 1 ELSE CrashLimit
        BY <1>2, <2>1, <3>2, MinOfTwo DEF NoteCrash, Shape, OtherTypes
      <4>2. crashes' = CrashLimit => spawn'.pc = "block"
        BY <1>2, <2>1, <3>2, <4>1 DEF NoteCrash, AtLimit, Shape, OtherTypes, SpawnTypes
      <4>. QED
        BY <4>2
    <3>. QED
      BY <3>1, <3>2
  <2>2. CASE BlockModel
    BY <2>2 DEF BlockModel
  <2>3. CASE SpawnCheck
    BY <1>2, <2>3 DEF SpawnCheck
  <2>4. CASE ForgetCrashes \/ Stop
    BY <2>4 DEF ForgetCrashes, Stop
  <2>5. CASE ClearBlocks
    BY <2>5, <1>2 DEF ClearBlocks, Shape, OtherTypes
  <2>6. CASE BeginReload \/ UnloadRemoved \/ RetireStale \/ Swap
    BY <1>2, <2>6 DEF BeginReload, UnloadRemoved, RetireStale, Swap, Shape, OtherTypes
  <2>7. CASE EnsureSpawn \/ LeasePort \/ SpawnRefused \/ Register \/ PollReady \/ PollFails
    BY <1>2, <2>7 DEF EnsureSpawn, LeasePort, SpawnRefused, Register, PollReady, PollFails
  <2>8. CASE UnblockModel
    BY <1>2, <2>8 DEF UnblockModel, Shape, OtherTypes
  <2>9. CASE ClearFlag
    BY <1>2, <2>9 DEF ClearFlag, Shape, OtherTypes
  <2>10. CASE UNCHANGED <<crashVars, spawn, reload>>
    BY <1>2, <2>10
  <2>. QED
    BY <1>2, <2>1, <2>2, <2>3, <2>4, <2>5, <2>6, <2>7, <2>8, <2>9, <2>10
    DEF Next, RemovalStep, SpawnStep, ReloadStep, ShutdownStep, Rest, Kill, Unlist,
        FreePort, Elsewhere, ReapDrained, Exit, Monitor, Serve, Finish, HandleCrash,
        UnloadModel, StopServer, ShutdownAll, vars
<1>3. Shape /\ [Next]_vars => Shape'
  BY InstTypesStep, OtherTypesStep, FlagsStep, SpawnTypesStep DEF Shape
<1>. QED
  BY ShapeInit, <1>1, <1>2, <1>3, PTL DEF Spec

-----------------------------------------------------------------------------
\* An instance that is absent is at no step of its life.
Present == \A i \in listed \cup child \cup killing \cup unlisting \cup freeing :
             state[i] # "absent"

LEMMA PresentStep ==
  ASSUME Shape, Present, [Next]_vars PROVE Present'
<1>. USE LifecycleAssumption DEF Present, instVars, removing
<1>. InstTypes /\ SpawnTypes
  BY DEF Shape
<1>1. ASSUME NEW i \in Instances, Kill(i) \/ Unlist(i) \/ FreePort(i) PROVE Present'
  BY <1>1 DEF Kill, Unlist, FreePort, Elsewhere, Registered
<1>2. CASE ReapDrained
  BY <1>2 DEF ReapDrained, BeginRemoval, Drained
<1>3. CASE UnloadModel \/ UnloadRemoved
  BY <1>3 DEF UnloadModel, UnloadRemoved, Unload, Fail, BeginRemoval, InstTypes
<1>4. CASE ShutdownAll
  BY <1>4 DEF ShutdownAll, Fail, BeginRemoval, InstTypes
<1>5. CASE RetireStale
  BY <1>5 DEF RetireStale, Fail, InstTypes
<1>6. CASE Stop
  BY <1>6 DEF Stop
<1>7. CASE Register
  BY <1>7 DEF Register, InstTypes
<1>8. CASE PollReady
  BY <1>8 DEF PollReady, InstTypes, SpawnTypes
<1>9. CASE PollFails
  BY <1>9 DEF PollFails, Fail, BeginRemoval, InstTypes, SpawnTypes
<1>10. CASE SpawnCheck
  <2>1. CASE UNCHANGED <<state, child, removing>>
    BY <1>10, <2>1 DEF SpawnCheck
  <2>2. CASE Fail({spawn.inst}) /\ BeginRemoval({spawn.inst})
    BY <1>10, <2>2 DEF SpawnCheck, Fail, BeginRemoval, InstTypes, SpawnTypes
  <2>. QED
    BY <1>10, <2>1, <2>2 DEF SpawnCheck
<1>11. CASE HandleCrash
  BY <1>11 DEF HandleCrash, Fail, InstTypes
<1>12. CASE UNCHANGED <<state, listed, child, removing>>
  BY <1>12
<1>. QED
  BY <1>1, <1>2, <1>3, <1>4, <1>5, <1>6, <1>7, <1>8, <1>9, <1>10, <1>11, <1>12
  DEF Next, RemovalStep, SpawnStep, ReloadStep, ShutdownStep, Rest, EnsureSpawn, LeasePort,
      SpawnRefused, NoteCrash, BlockModel, Exit, Monitor, Serve, Finish,
      UnblockModel, ClearFlag, ForgetCrashes, BeginReload, Swap, ClearBlocks, StopServer, vars

-----------------------------------------------------------------------------
\* A lease is a port, and it is freed by one remover only, the one that found the
\* instance in the registry.
LeaseShape == listed \cap freeing = {} /\ \A i \in Holders : port[i] \in Ports

LeaseInv == Shape /\ Present /\ LeaseShape /\ PortsExact

\* All other steps leave holders, ports and leases alone.
LEMMA LeaseKept ==
  ASSUME LeaseInv, [Next]_vars, \A i \in Instances : ~Unlist(i) /\ ~FreePort(i),
         ~LeasePort, ~SpawnRefused, ~Register, ~Stop
  PROVE  UNCHANGED <<listed, freeing, port, leased>> /\ SpawnPorts' = SpawnPorts
<1>1. UNCHANGED <<listed, freeing, port, leased>>
  BY DEF Next, RemovalStep, SpawnStep, ReloadStep, ShutdownStep, Rest, Kill, Elsewhere, ReapDrained,
         BeginRemoval, EnsureSpawn, PollReady, PollFails, SpawnCheck, NoteCrash, BlockModel,
         Exit, Monitor, Serve, Finish, HandleCrash, UnloadModel, Unload, UnblockModel,
         ClearFlag, ForgetCrashes, BeginReload, UnloadRemoved, RetireStale, Swap,
         ClearBlocks, StopServer, ShutdownAll, instVars, removing, vars
<1>2. spawn' = spawn \/ (spawn.pc # "port" /\ spawn'.pc # "port")
  <2>. SpawnTypes
    BY DEF LeaseInv, Shape
  <2>1. CASE EnsureSpawn
    <3>1. spawn.pc = "idle" /\ spawn'.pc = "wanted"
      BY <2>1 DEF EnsureSpawn, Idle
    <3>. QED
      BY <3>1
  <2>5. CASE PollReady
    <3>1. spawn.pc = "poll" /\ spawn'.pc = "check"
      BY <2>5 DEF PollReady, SpawnTypes
    <3>. QED
      BY <3>1
  <2>6. CASE BlockModel
    BY <2>6 DEF BlockModel, Idle
  <2>2. CASE PollFails
    BY <2>2 DEF PollFails, SpawnTypes
  <2>3. CASE SpawnCheck
    <3>1. CASE spawn' = Idle
      BY <2>3, <3>1 DEF SpawnCheck, Idle
    <3>2. CASE spawn' = [spawn EXCEPT !.pc = "clean", !.took = spawn.inst \in child]
      <4>1. (spawn.inst \in child) \in BOOLEAN
        OBVIOUS
      <4>. QED
        BY <2>3, <3>2, <4>1 DEF SpawnCheck, SpawnTypes
    <3>. QED
      BY <2>3, <3>1, <3>2 DEF SpawnCheck
  <2>4. CASE NoteCrash
    BY <2>4 DEF NoteCrash, SpawnTypes, Idle
  <2>. QED
    BY <2>1, <2>2, <2>3, <2>4, <2>5, <2>6
    DEF Next, RemovalStep, SpawnStep, ReloadStep, ShutdownStep, Rest, Kill, Elsewhere, ReapDrained,
        Exit, Monitor, Serve, Finish, HandleCrash, UnloadModel, UnblockModel, ClearFlag,
        ForgetCrashes, BeginReload, UnloadRemoved, RetireStale, Swap, ClearBlocks,
        StopServer, ShutdownAll, vars
<1>. QED
  BY <1>1, <1>2 DEF SpawnPorts

LEMMA LeaseStep ==
  ASSUME LeaseInv, [Next]_vars PROVE LeaseShape' /\ PortsExact'
<1>. USE LifecycleAssumption DEF LeaseShape, PortsExact, Holders, SpawnPorts
<1>. /\ InstTypes /\ SpawnTypes /\ Present /\ LeaseShape /\ PortsExact
  BY DEF LeaseInv, Shape
<1>1. ASSUME NEW i \in Instances, Unlist(i) PROVE LeaseShape' /\ PortsExact'
  BY <1>1 DEF Unlist, Registered, Elsewhere
<1>2. ASSUME NEW i \in Instances, FreePort(i) PROVE LeaseShape' /\ PortsExact'
  BY <1>2 DEF FreePort, instVars
<1>3. CASE LeasePort
  <2>1. CASE spawn' = Idle /\ UNCHANGED leased
    BY <1>3, <2>1, ZenonT(40) DEF LeasePort, Idle, instVars, removing
  <2>2. ASSUME NEW p \in Ports \ leased, leased' = leased \cup {p},
               spawn' = [spawn EXCEPT !.pc = "port", !.port = p]
        PROVE  LeaseShape' /\ PortsExact'
    <3>1. /\ UNCHANGED <<listed, freeing, port>> /\ spawn.pc = "wanted"
          /\ spawn'.pc = "port" /\ spawn'.port = p
      BY <1>3, <2>2 DEF LeasePort, instVars, removing, SpawnTypes
    <3>. QED
      BY <2>2, <3>1
  <2>. QED
    BY <1>3, <2>1, <2>2 DEF LeasePort
<1>4. CASE SpawnRefused
  BY <1>4 DEF SpawnRefused, Idle, instVars, removing, SpawnTypes
<1>5. CASE Register
  <2>1. PICK i \in Instances :
          /\ state[i] = "absent"
          /\ port' = [port EXCEPT ![i] = spawn.port]
          /\ listed' = listed \cup {i}
          /\ spawn' = [Idle EXCEPT !.pc = "poll", !.inst = i]
    BY <1>5 DEF Register
  <2>2. i \notin Holders /\ spawn.port \in Ports /\ spawn'.pc = "poll" /\ spawn.pc = "port"
    BY <1>5, <2>1 DEF Register, Present, SpawnTypes, Idle
  <2>3. \A j \in Instances : port'[j] = IF j = i THEN spawn.port ELSE port[j]
    BY <2>1 DEF InstTypes
  <2>4. Holders' = Holders \cup {i} /\ UNCHANGED <<freeing, leased>>
    BY <1>5, <2>1 DEF Register, removing
  <2>. QED
    BY <2>1, <2>2, <2>3, <2>4 DEF InstTypes
<1>6. CASE Stop
  BY <1>6 DEF Stop, Idle, removing
<1>7. CASE UNCHANGED <<listed, freeing, port, leased>> /\ SpawnPorts' = SpawnPorts
  BY <1>7
<1>. QED
  BY <1>1, <1>2, <1>3, <1>4, <1>5, <1>6, <1>7, LeaseKept

\* However many tasks remove one instance, and whatever else happens meanwhile: the
\* allocator's table is exactly the ports of the instances that are registered or
\* about to be freed, and of the spawn that has just leased one.
THEOREM LeasesAreExact == Spec => []PortsExact
<1>1. Init => LeaseInv
  BY ShapeInit, LifecycleAssumption
  DEF Init, LeaseInv, Present, LeaseShape, PortsExact, Holders, SpawnPorts, Idle
<1>2. LeaseInv /\ [Next]_vars => LeaseInv'
  BY InstTypesStep, OtherTypesStep, FlagsStep, SpawnTypesStep, PresentStep, LeaseStep
  DEF LeaseInv, Shape
<1>3. LeaseInv => PortsExact
  BY DEF LeaseInv
<1>. QED
  BY <1>1, <1>2, <1>3, PTL DEF Spec

-----------------------------------------------------------------------------
\* The spawn task and the instance it is at.
SpawnFollows ==
  /\ spawn.pc \in {"idle", "wanted", "port"} => spawn.inst = None
  /\ spawn.pc = "check" => state[spawn.inst] \in {"ready", "failed"}
  /\ spawn.pc \in {"clean", "block"} => state[spawn.inst] = "failed"
  /\ \A i \in listed : state[i] = "loading" => spawn.inst = i /\ spawn.pc = "poll"

LEMMA SpawnFollowsStep ==
  ASSUME Shape, SpawnFollows, [Next]_vars PROVE SpawnFollows'
<1>. USE LifecycleAssumption DEF SpawnFollows
<1>. InstTypes /\ SpawnTypes
  BY DEF Shape
<1>0. ASSUME NEW set, Fail(set), UNCHANGED spawn, listed' \subseteq listed PROVE SpawnFollows'
  <2>1. \A i \in Instances : state'[i] = IF i \in set THEN "failed" ELSE state[i]
    BY <1>0 DEF Fail
  <2>. QED
    BY <1>0, <2>1 DEF SpawnTypes, InstTypes
<1>1. CASE EnsureSpawn
  BY <1>1 DEF EnsureSpawn, Idle, instVars
<1>2. CASE LeasePort
  <2>1. UNCHANGED <<state, listed>> /\ spawn.pc = "wanted"
    BY <1>2 DEF LeasePort, instVars
  <2>2. spawn' = Idle \/ (spawn'.pc = "port" /\ spawn'.inst = spawn.inst)
    BY <1>2 DEF LeasePort, SpawnTypes
  <2>. QED
    BY <2>1, <2>2 DEF Idle
<1>3. CASE SpawnRefused
  BY <1>3 DEF SpawnRefused, Idle, instVars
<1>4. CASE Register
  <2>1. PICK i \in Instances :
          /\ state[i] = "absent" /\ state' = [state EXCEPT ![i] = "loading"]
          /\ listed' = listed \cup {i}
          /\ spawn' = [Idle EXCEPT !.pc = "poll", !.inst = i]
    BY <1>4 DEF Register
  <2>2. spawn.pc = "port" /\ spawn'.pc = "poll" /\ spawn'.inst = i
    BY <1>4, <2>1 DEF Register, Idle
  <2>. QED
    BY <2>1, <2>2 DEF InstTypes
<1>5. CASE PollReady
  <2>1. spawn.pc = "poll" /\ spawn'.pc = "check" /\ spawn'.inst = spawn.inst
    BY <1>5 DEF PollReady, SpawnTypes
  <2>. QED
    BY <1>5, <2>1 DEF PollReady, InstTypes, SpawnTypes
<1>6. CASE PollFails
  <2>1. spawn.pc = "poll" /\ spawn'.pc = "clean" /\ spawn'.inst = spawn.inst
    BY <1>6 DEF PollFails, SpawnTypes
  <2>. QED
    BY <1>6, <2>1 DEF PollFails, Fail, InstTypes, SpawnTypes
<1>7. CASE SpawnCheck
  <2>1. CASE spawn' = Idle /\ UNCHANGED state
    BY <1>7, <2>1 DEF SpawnCheck, Idle, InstTypes, SpawnTypes
  <2>2. CASE Fail({spawn.inst}) /\ spawn' = [spawn EXCEPT !.pc = "clean", !.took = spawn.inst \in child]
    <3>1. spawn.pc = "check" /\ spawn'.pc = "clean" /\ spawn'.inst = spawn.inst
      BY <1>7, <2>2 DEF SpawnCheck, SpawnTypes
    <3>. QED
      BY <1>7, <2>2, <3>1 DEF SpawnCheck, Fail, InstTypes, SpawnTypes
  <2>. QED
    BY <1>7, <2>1, <2>2 DEF SpawnCheck
<1>8. CASE NoteCrash
  <2>1. UNCHANGED <<state, listed>> /\ spawn.pc = "clean"
    BY <1>8 DEF NoteCrash, instVars
  <2>2. CASE spawn' = Idle
    BY <2>1, <2>2 DEF Idle
  <2>3. CASE spawn' = [spawn EXCEPT !.pc = "block"]
    BY <2>1, <2>3 DEF SpawnTypes
  <2>. QED
    BY <1>8, <2>2, <2>3 DEF NoteCrash
<1>9. CASE BlockModel
  BY <1>9 DEF BlockModel, Idle, instVars
<1>10. CASE Stop
  BY <1>10 DEF Stop, Idle
<1>11. CASE UNCHANGED <<state, spawn>> /\ listed' \subseteq listed
  BY <1>11
<1>. QED
  BY <1>0, <1>1, <1>2, <1>3, <1>4, <1>5, <1>6, <1>7, <1>8, <1>9, <1>10, <1>11
  DEF Next, RemovalStep, SpawnStep, ReloadStep, ShutdownStep, Rest, Kill, Unlist, FreePort, Elsewhere,
      ReapDrained, Exit, Monitor, Serve, Finish, HandleCrash, UnloadModel, Unload,
      UnblockModel, ClearFlag, ForgetCrashes, BeginReload, UnloadRemoved, RetireStale, Swap,
      ClearBlocks, StopServer, ShutdownAll, instVars, vars

\* The reload task and the configuration it brings.
ReloadFollows ==
  /\ reload.pc \in {"idle", "unload"} => reload.to = None
  /\ reload.pc = "retire" => reload.to # None
  /\ reload.pc \in {"unblock", "forget"} => config = reload.to

LEMMA ReloadFollowsStep ==
  ASSUME Shape, ReloadFollows, [Next]_vars PROVE ReloadFollows'
<1>. USE LifecycleAssumption DEF ReloadFollows
<1>. OtherTypes
  BY DEF Shape
<1>1. CASE BeginReload
  BY <1>1 DEF BeginReload, OtherTypes
<1>2. CASE UnloadRemoved \/ RetireStale \/ Swap
  BY <1>2 DEF UnloadRemoved, RetireStale, Swap, OtherTypes
<1>3. CASE ClearBlocks
  BY <1>3 DEF ClearBlocks, OtherTypes
<1>4. CASE Stop
  BY <1>4 DEF Stop
<1>5. CASE UNCHANGED <<reload, config>>
  BY <1>5
<1>. QED
  BY <1>1, <1>2, <1>3, <1>4, <1>5
  DEF Next, RemovalStep, SpawnStep, ReloadStep, ShutdownStep, Rest, Kill, Unlist, FreePort, Elsewhere,
      EnsureSpawn, LeasePort, SpawnRefused, Register, PollReady, PollFails, SpawnCheck,
      NoteCrash, BlockModel, ReapDrained, Exit, Monitor, Serve, Finish, HandleCrash,
      UnloadModel, UnblockModel, ClearFlag, ForgetCrashes, StopServer, ShutdownAll, vars

-----------------------------------------------------------------------------
InRemoval(i) == i \in killing \cup unlisting

\* The child of a registered instance is with its handle or with a removal.
ChildFollows == \A i \in listed : i \in child \/ InRemoval(i)

\* An instance that is unroutable is being removed, or will be reaped: by the
\* autoscaler as long as its model is configured, or by a release.
FailedFollows ==
  \A i \in listed :
    state[i] = "failed" =>
      \/ InRemoval(i) \/ inFlight[i] > 0 \/ released
      \/ config # None /\ ~(reload.pc = "swap" /\ reload.to = None)
      \/ reload.to # None

\* An instance whose process has ended, and which nobody has failed, will be.
DeadFollows ==
  \A i \in listed :
    state[i] # "failed" /\ i \notin alive =>
      i = spawn.inst \/ i \in reported \/ InRemoval(i) \/ Watched(i)

OrphanInv ==
  Shape /\ Present /\ SpawnFollows /\ ReloadFollows /\ ChildFollows /\ FailedFollows /\ DeadFollows

LEMMA ChildFollowsStep ==
  ASSUME Shape, ChildFollows, [Next]_vars PROVE ChildFollows'
<1>. USE LifecycleAssumption DEF ChildFollows, InRemoval, instVars, removing
<1>. InstTypes
  BY DEF Shape
<1>1. ASSUME NEW set, BeginRemoval(set), UNCHANGED listed PROVE ChildFollows'
  BY <1>1 DEF BeginRemoval
<1>2. ASSUME NEW i \in Instances, Kill(i) \/ Unlist(i) \/ FreePort(i) PROVE ChildFollows'
  BY <1>2 DEF Kill, Unlist, FreePort
<1>3. CASE Register
  BY <1>3 DEF Register
<1>4. CASE HandleCrash
  BY <1>4 DEF HandleCrash
<1>5. CASE Stop
  BY <1>5 DEF Stop
<1>6. CASE UNCHANGED <<listed, child, killing, unlisting>>
  BY <1>6
<1>. QED
  BY <1>1, <1>2, <1>3, <1>4, <1>5, <1>6
  DEF Next, RemovalStep, SpawnStep, ReloadStep, ShutdownStep, Rest, EnsureSpawn, LeasePort,
      SpawnRefused, PollReady, PollFails, SpawnCheck, NoteCrash, BlockModel, ReapDrained, Exit,
      Monitor, Serve, Finish, UnloadModel, Unload, UnblockModel, ClearFlag, ForgetCrashes,
      BeginReload, UnloadRemoved, RetireStale, Swap, ClearBlocks, StopServer, ShutdownAll, vars

LEMMA FailedFollowsStep ==
  ASSUME OrphanInv, [Next]_vars PROVE FailedFollows'
<1>. USE LifecycleAssumption DEF FailedFollows, InRemoval, instVars, removing, crashVars
<1>. InstTypes /\ SpawnTypes /\ OtherTypes /\ FailedFollows /\ ChildFollows /\ ReloadFollows
  BY DEF OrphanInv, Shape
<1>1. ASSUME NEW i \in Instances, Kill(i) \/ Unlist(i) \/ FreePort(i) PROVE FailedFollows'
  BY <1>1 DEF Kill, Unlist, FreePort, Elsewhere
<1>2. CASE ReapDrained
  BY <1>2 DEF ReapDrained, BeginRemoval, Drained, InstTypes
<1>3. CASE UnloadModel
  BY <1>3 DEF UnloadModel, Unload, BeginRemoval, InstTypes
<1>4. CASE UnloadRemoved
  BY <1>4 DEF UnloadRemoved, Unload, BeginRemoval, InstTypes
<1>5. CASE ShutdownAll
  BY <1>5 DEF ShutdownAll, BeginRemoval
<1>6. CASE RetireStale
  BY <1>6 DEF RetireStale, ReloadFollows, OtherTypes
<1>0. ASSUME NEW i \in Instances, Fail({i}), BeginRemoval({i}),
             UNCHANGED <<listed, inFlight, released, config, reload>>
      PROVE  FailedFollows'
  <2>1. \A j \in Instances \ {i} : state'[j] = state[j]
    BY <1>0 DEF Fail
  <2>. QED
    BY <1>0, <2>1 DEF BeginRemoval, InstTypes
<1>7. CASE PollFails
  BY <1>0, <1>7 DEF PollFails, SpawnTypes
<1>8. CASE SpawnCheck
  BY <1>0, <1>8 DEF SpawnCheck, SpawnTypes
<1>9. CASE HandleCrash
  <2>1. PICK i \in Instances :
          \/ UNCHANGED <<state, unlisting>>
          \/ /\ state' = [j \in Instances |-> IF j \in {i} THEN "failed" ELSE state[j]]
             /\ unlisting' = unlisting \cup {i}
    BY <1>9 DEF HandleCrash, InstTypes, Fail
  <2>. QED
    BY <1>9, <2>1 DEF HandleCrash, InstTypes
<1>10. CASE Register
  BY <1>10 DEF Register, InstTypes
<1>11. CASE PollReady
  BY <1>11 DEF PollReady, InstTypes, SpawnTypes
<1>12. ASSUME NEW i \in Instances, Serve(i) PROVE FailedFollows'
  BY <1>12 DEF Serve, InstTypes
<1>13. ASSUME NEW i \in Instances, Finish(i) PROVE FailedFollows'
  BY <1>13 DEF Finish
<1>14. CASE BeginReload
  BY <1>14 DEF BeginReload, OtherTypes, ReloadFollows
<1>15. CASE Swap
  BY <1>15 DEF Swap, OtherTypes
<1>16. CASE ClearBlocks
  BY <1>16 DEF ClearBlocks, OtherTypes, ReloadFollows
<1>17. CASE Stop
  BY <1>17 DEF Stop
<1>18. CASE UNCHANGED <<listed, state, killing, unlisting, inFlight, released, config, reload>>
  BY <1>18
<1>. QED
  BY <1>1, <1>2, <1>3, <1>4, <1>5, <1>6, <1>7, <1>8, <1>9, <1>10, <1>11, <1>12, <1>13, <1>14,
     <1>15, <1>16, <1>17, <1>18
  DEF Next, RemovalStep, SpawnStep, ReloadStep, ShutdownStep, Rest, EnsureSpawn, LeasePort,
      SpawnRefused, NoteCrash, BlockModel, Exit, Monitor, UnblockModel, ClearFlag,
      ForgetCrashes, StopServer, vars

LEMMA DeadFollowsStep ==
  ASSUME OrphanInv, [Next]_vars PROVE DeadFollows'
<1>. USE LifecycleAssumption DEF DeadFollows, InRemoval, Watched, instVars, removing
<1>. InstTypes /\ SpawnTypes /\ SpawnFollows /\ ChildFollows /\ DeadFollows
  BY DEF OrphanInv, Shape
<1>0. ASSUME NEW set \in SUBSET Instances, BeginRemoval(set), Fail(set) \/ UNCHANGED state,
             UNCHANGED <<listed, alive, reported, spawn>>
      PROVE  DeadFollows'
  BY <1>0 DEF BeginRemoval, Fail, InstTypes
<1>1. ASSUME NEW i \in Instances, Kill(i) \/ Unlist(i) \/ FreePort(i) PROVE DeadFollows'
  BY <1>1 DEF Kill, Unlist, FreePort, Elsewhere
<1>2. CASE ReapDrained
  BY <1>0, <1>2 DEF ReapDrained, Drained, InstTypes
<1>3. CASE UnloadModel \/ UnloadRemoved \/ ShutdownAll
  BY <1>3 DEF UnloadModel, UnloadRemoved, ShutdownAll, Unload, BeginRemoval, Fail, InstTypes
<1>4. CASE RetireStale
  BY <1>4 DEF RetireStale, Fail, InstTypes
<1>5. CASE EnsureSpawn
  BY <1>5 DEF EnsureSpawn, Idle, SpawnFollows
<1>6. CASE LeasePort
  <2>1. spawn.pc = "wanted" /\ spawn.inst = None
    BY <1>6 DEF LeasePort, SpawnFollows
  <2>2. spawn' = Idle \/ spawn'.inst = spawn.inst
    BY <1>6 DEF LeasePort, SpawnTypes
  <2>3. spawn'.inst = None
    BY <2>1, <2>2 DEF Idle
  <2>. QED
    BY <1>6, <2>1, <2>3 DEF LeasePort
<1>7. CASE SpawnRefused
  BY <1>7 DEF SpawnRefused, Idle, SpawnFollows
<1>8. CASE Register
  BY <1>8 DEF Register, Idle, SpawnFollows, InstTypes, SpawnTypes
<1>9. CASE PollReady
  BY <1>9 DEF PollReady, InstTypes, SpawnTypes
<1>10. CASE PollFails
  BY <1>10 DEF PollFails, BeginRemoval, Fail, InstTypes, SpawnTypes
<1>11. CASE SpawnCheck
  <2>1. CASE spawn' = Idle /\ UNCHANGED <<state, child, removing>>
    <3>1. /\ UNCHANGED <<listed, alive, reported>> /\ spawn'.inst = None
          /\ state[spawn.inst] \in {"ready", "failed"}
      BY <1>11, <2>1 DEF SpawnCheck, SpawnFollows, Idle
    <3>2. ASSUME NEW i \in listed, state[i] # "failed", i \notin alive
          PROVE  i \in reported \/ InRemoval(i) \/ (state[i] = "ready" /\ i \in child)
      <4>1. CASE i = spawn.inst
        BY <3>1, <3>2, <4>1 DEF ChildFollows
      <4>2. CASE i # spawn.inst
        BY <3>2, <4>2
      <4>. QED
        BY <4>1, <4>2
    <3>3. None \notin listed
      BY DEF InstTypes
    <3>. QED
      BY <2>1, <3>1, <3>2, <3>3
  <2>2. CASE /\ Fail({spawn.inst}) /\ BeginRemoval({spawn.inst})
             /\ spawn' = [spawn EXCEPT !.pc = "clean", !.took = spawn.inst \in child]
    <3>1. spawn'.inst = spawn.inst
      BY <2>2 DEF SpawnTypes
    <3>. QED
      BY <1>11, <2>2, <3>1 DEF SpawnCheck, BeginRemoval, Fail, InstTypes, SpawnTypes
  <2>. QED
    BY <1>11, <2>1, <2>2 DEF SpawnCheck
<1>12. CASE NoteCrash
  BY <1>12 DEF NoteCrash, SpawnTypes, SpawnFollows, Idle
<1>13. CASE BlockModel
  BY <1>13 DEF BlockModel, SpawnFollows, Idle
<1>14. CASE HandleCrash
  BY <1>14 DEF HandleCrash, Fail, InstTypes
<1>15. ASSUME NEW i \in Instances, Exit(i) PROVE DeadFollows'
  <2>1. i \in listed => state[i] \in {"loading", "ready", "failed"}
    BY DEF OrphanInv, Present, InstTypes
  <2>. QED
    BY <1>15, <2>1 DEF Exit, SpawnFollows, InstTypes
<1>16. CASE Stop
  BY <1>16 DEF Stop
<1>17. CASE UNCHANGED <<listed, state, alive, child, spawn, killing,
unlisting>> /\ reported \subseteq reported'
  BY <1>17
<1>. QED
  BY <1>1, <1>2, <1>3, <1>4, <1>5, <1>6, <1>7, <1>8, <1>9, <1>10, <1>11, <1>12, <1>13, <1>14,
     <1>15, <1>16, <1>17
  DEF Next, RemovalStep, SpawnStep, ReloadStep, ShutdownStep, Rest, Monitor, Serve, Finish,
      UnblockModel, ClearFlag, ForgetCrashes, BeginReload, Swap, ClearBlocks, StopServer, vars

\* Whoever gives up on an instance because he believes another to be at it, is
\* right: nothing that is unroutable or dead stays in the registry for want of a
\* task that removes it.
THEOREM NothingOrphaned == Spec => []NoOrphan
<1>1. Init => OrphanInv
  <2>1. ASSUME Init PROVE SpawnFollows /\ ReloadFollows
    BY <2>1 DEF Init, SpawnFollows, ReloadFollows, Idle
  <2>2. ASSUME Init PROVE Present /\ ChildFollows /\ FailedFollows /\ DeadFollows
    BY <2>2 DEF Init, Present, ChildFollows, FailedFollows, DeadFollows
  <2>. QED
    BY ShapeInit, <2>1, <2>2 DEF OrphanInv
<1>2. OrphanInv /\ [Next]_vars => OrphanInv'
  BY InstTypesStep, OtherTypesStep, FlagsStep, SpawnTypesStep, PresentStep, SpawnFollowsStep,
  ReloadFollowsStep, ChildFollowsStep, FailedFollowsStep, DeadFollowsStep
  DEF OrphanInv, Shape
<1>3. OrphanInv => NoOrphan
  BY DEF OrphanInv, FailedFollows, DeadFollows, NoOrphan, Attended, InRemoval
<1>. QED
  BY <1>1, <1>2, <1>3, PTL DEF Spec

-----------------------------------------------------------------------------
(* Only crashes block. *)

\* The spawn task has seen its process end, or will.
Died ==
  \/ spawn.pc = "poll" /\ spawn.inst \in child /\ spawn.inst \notin alive
  \/ spawn.pc = "clean" /\ spawn.exited

\* What is counted has died, and one that has died is yet to be counted.
DeathsCounted ==
  /\ spawn.pc \notin {"clean", "block"} => ~spawn.exited
  /\ killing \cap child = {}
  /\ deaths < CrashLimit => crashes <= deaths /\ (Died => crashes < deaths)
  /\ spawn.pc = "block" => deaths = CrashLimit

LEMMA DeathsCountedStep ==
  ASSUME Shape, Present, DeathsCounted, [Next]_vars PROVE DeathsCounted'
<1>. USE LifecycleAssumption DEF DeathsCounted, Died, crashVars, removing
<1>. InstTypes /\ OtherTypes /\ SpawnTypes
  BY DEF Shape
<1>1. ASSUME NEW set, BeginRemoval(set), UNCHANGED <<spawn, crashes, deaths, alive>>
      PROVE  DeathsCounted'
  BY <1>1 DEF BeginRemoval
<1>2. ASSUME NEW i \in Instances, Kill(i) \/ Unlist(i) \/ FreePort(i) PROVE DeathsCounted'
  BY <1>2 DEF Kill, Unlist, FreePort, Elsewhere, instVars
<1>3. CASE Register
  BY <1>3 DEF Register, Idle, Present
<1>4. CASE PollFails
  <2>1. BeginRemoval({spawn.inst}) /\ UNCHANGED <<crashes, deaths, alive>> /\ spawn.pc = "poll"
    BY <1>4 DEF PollFails
  <2>2. PICK e \in BOOLEAN : /\ e => ChildExited(spawn.inst)
                            /\ spawn' = [spawn EXCEPT !.pc = "clean", !.exited = e,
                                                    !.took = spawn.inst \in child]
    BY <1>4 DEF PollFails
  <2>3. spawn'.pc = "clean" /\ (spawn'.exited => e)
    BY <2>2 DEF SpawnTypes
  <2>. QED
    BY <2>1, <2>2, <2>3 DEF BeginRemoval, ChildExited
<1>5. CASE SpawnCheck
  <2>1. CASE spawn' = Idle
    BY <1>5, <2>1 DEF SpawnCheck, Idle, BeginRemoval, SpawnTypes
  <2>2. CASE BeginRemoval({spawn.inst}) /\ spawn' = [spawn EXCEPT !.pc = "clean",
                                                                !.took = spawn.inst \in child]
    <3>1. spawn'.pc = "clean" /\ spawn'.exited = spawn.exited
      BY <2>2 DEF SpawnTypes
    <3>. QED
      BY <1>5, <2>2, <3>1 DEF SpawnCheck, BeginRemoval
  <2>. QED
    BY <1>5, <2>1, <2>2 DEF SpawnCheck
<1>6. CASE NoteCrash
  <2>1. CASE ~spawn.exited
    BY <1>6, <2>1 DEF NoteCrash, Idle, instVars
  <2>2. CASE spawn.exited
    BY <1>6, <2>2, MinOfTwo DEF NoteCrash, AtLimit, Idle, instVars, OtherTypes, SpawnTypes
  <2>. QED
    BY <2>1, <2>2
<1>7. ASSUME NEW i \in Instances, Exit(i) PROVE DeathsCounted'
  BY <1>7, MinOfTwo DEF Exit, OtherTypes
<1>8. CASE HandleCrash
  BY <1>8 DEF HandleCrash
<1>9. CASE EnsureSpawn \/ LeasePort \/ SpawnRefused \/ PollReady \/ BlockModel
  <2>1. CASE EnsureSpawn
    BY <2>1 DEF EnsureSpawn, Idle, instVars
  <2>2. CASE LeasePort
    <3>1. CASE spawn' = Idle
      BY <2>2, <3>1 DEF LeasePort, Idle, instVars
    <3>2. ASSUME NEW p \in Ports, spawn' = [spawn EXCEPT !.pc = "port", !.port = p]
          PROVE  DeathsCounted'
      <4>1. spawn'.pc = "port" /\ spawn'.exited = spawn.exited
        BY <3>2 DEF SpawnTypes
      <4>. QED
        BY <2>2, <4>1 DEF LeasePort, instVars
    <3>. QED
      BY <2>2, <3>1, <3>2 DEF LeasePort
  <2>3. CASE PollReady
    BY <2>3 DEF PollReady, SpawnTypes
  <2>4. CASE SpawnRefused \/ BlockModel
    BY <2>4 DEF SpawnRefused, BlockModel, Idle, instVars
  <2>. QED
    BY <1>9, <2>1, <2>2, <2>3, <2>4
<1>10. CASE ForgetCrashes \/ ClearBlocks
  BY <1>10 DEF ForgetCrashes, ClearBlocks, instVars, OtherTypes
<1>11. CASE Stop
  BY <1>11 DEF Stop, Idle
<1>12. CASE ReapDrained \/ UnloadModel \/ UnloadRemoved \/ ShutdownAll
  BY <1>1, <1>12 DEF ReapDrained, UnloadModel, UnloadRemoved, Unload, ShutdownAll
<1>13. CASE UNCHANGED <<spawn, crashes, deaths, alive, child, killing>>
  BY <1>13
<1>. QED
  BY <1>2, <1>3, <1>4, <1>5, <1>6, <1>7, <1>8, <1>9, <1>10, <1>11, <1>12, <1>13
  DEF Next, RemovalStep, SpawnStep, ReloadStep, ShutdownStep, Rest, Monitor, Serve, Finish,
      UnblockModel, ClearFlag, BeginReload, RetireStale, Swap, StopServer, instVars, vars

\* A model is blocked after CrashLimit processes have died by themselves with no
\* success in between, however the removals of others, reloads and an admin's
\* unblock interleave with the counting: slow loads and removals never block it.
THEOREM OnlyCrashesBlock == Spec => BlockedForCrashes
<1>1. Init => DeathsCounted
  BY LifecycleAssumption DEF Init, DeathsCounted, Died, Idle
<1>2. Shape /\ Present /\ DeathsCounted /\ [Next]_vars => (Shape /\ Present /\ DeathsCounted)'
  BY InstTypesStep, OtherTypesStep, FlagsStep, SpawnTypesStep, PresentStep, DeathsCountedStep DEF Shape
<1>3. DeathsCounted /\ [Next]_vars => [~blocked /\ blocked' => deaths = CrashLimit]_vars
  <2>. SUFFICES ASSUME DeathsCounted, [Next]_vars, ~blocked, blocked' PROVE deaths = CrashLimit
    OBVIOUS
  <2>1. CASE BlockModel
    BY <2>1 DEF BlockModel, DeathsCounted
  <2>2. CASE ClearFlag \/ ClearBlocks \/ Stop
    BY <2>2 DEF ClearFlag, ClearBlocks, Stop
  <2>3. CASE UNCHANGED blocked
    BY <2>3
  <2>. QED
    BY <2>1, <2>2, <2>3
    DEF Next, RemovalStep, SpawnStep, ReloadStep, ShutdownStep, Rest, Kill, Unlist, FreePort,
        Elsewhere, EnsureSpawn, LeasePort, SpawnRefused, Register, PollReady, PollFails,
        SpawnCheck, NoteCrash, ReapDrained, Exit, Monitor, Serve, Finish, HandleCrash,
        UnloadModel, UnblockModel, ForgetCrashes, BeginReload,
        UnloadRemoved, RetireStale, Swap, StopServer, ShutdownAll, crashVars, vars
<1>4. Init => Present
  BY DEF Init, Present
<1>. QED
  BY ShapeInit, <1>1, <1>2, <1>3, <1>4, PTL DEF Spec, BlockedForCrashes
===============================================================================
