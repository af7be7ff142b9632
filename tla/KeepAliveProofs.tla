--------------------------- MODULE KeepAliveProofs ---------------------------
(* Theorems about KeepAlive and its history, for any number of instances, GPUs and managers. *)
EXTENDS KeepAliveHistory, FiniteSetTheorems, TLAPS

\* A reload that replaces the manager has room for another one, and an actor
\* calls a manager that exists.
Inv ==
  /\ TypeOK
  /\ pc[Reloader] \in {"swapped", "clear"} => made < MaxManagers
  /\ \A a \in Actors : pc[a] \in {"acquire", "release", "start"} => mgr[a] \in Managers

\* Updating one count keeps the type of all.
LEMMA CountType ==
  ASSUME NEW f \in [Managers -> [Gpus -> Nat]], NEW m \in Managers, NEW g \in Gpus, NEW n \in Nat
  PROVE  /\ [f EXCEPT ![m][g] = n] \in [Managers -> [Gpus -> Nat]]
         /\ \A k \in Managers, h \in Gpus :
              [f EXCEPT ![m][g] = n][k][h] = IF k = m /\ h = g THEN n ELSE f[k][h]
<1>1. [f EXCEPT ![m][g] = n] = [f EXCEPT ![m] = [f[m] EXCEPT ![g] = n]]
  OBVIOUS
<1>2. [f[m] EXCEPT ![g] = n] \in [Gpus -> Nat]
  OBVIOUS
<1>. QED
  BY <1>1, <1>2

LEMMA ActorsDiffer ==
  /\ Reloader \in Actors
  /\ \A i \in Instances : /\ Spawner(i) \in Actors /\ Remover(i) \in Actors
                          /\ Spawner(i) # Reloader /\ Remover(i) # Reloader
  /\ \A i, j \in Instances : /\ Spawner(i) # Remover(j)
                             /\ Spawner(i) = Spawner(j) => i = j
                             /\ Remover(i) = Remover(j) => i = j
  BY DEF Actors, Spawner, Remover, Reloader

\* The manager in force is one of those built, unless there is none.
LEMMA ManagerInForce ==
  ASSUME Inv
  PROVE  /\ made \in Nat /\ current \in Nat /\ ~(current > made) /\ made \in Managers
         /\ current # 0 => current \in Managers
         /\ pc[Reloader] = "clear" => made + 1 \in Managers
<1>1. MaxManagers \in Nat /\ made \in 1..MaxManagers /\ current \in 0..made
  BY KeepAliveAssumption DEF Inv, TypeOK, Managers
<1>2. pc[Reloader] = "clear" => made < MaxManagers
  BY DEF Inv
<1>. QED
  BY <1>1, <1>2 DEF Managers

LEMMA InvInit == Init => Inv
<1>. SUFFICES ASSUME Init PROVE Inv
  OBVIOUS
<1>1. made \in Managers /\ current \in 0..made /\ mgr \in [Actors -> 0..MaxManagers]
  BY KeepAliveAssumption DEF Init, Managers
<1>2. count \in [Managers -> [Gpus -> Nat]] /\ running \in [Managers -> SUBSET Gpus]
  BY DEF Init
<1>3. pc[Reloader] = "idle" /\ \A a \in Actors : pc[a] = "idle"
  BY ActorsDiffer DEF Init
<1>. QED
  BY <1>1, <1>2, <1>3 DEF Init, Inv, TypeOK

\* Every step keeps the types: a release never counts below zero.
LEMMA InvStep == Inv /\ [Next]_vars => Inv'
<1>. SUFFICES ASSUME Inv, [Next]_vars PROVE Inv'
  OBVIOUS
<1>. USE KeepAliveAssumption DEF Inv, TypeOK, Managers, Goto, ManagerVars
<1>0. Reloader \in Actors /\ \A i \in Instances : Spawner(i) \in Actors /\ Remover(i) \in Actors
                          /\ Spawner(i) # Reloader /\ Remover(i) # Reloader
  BY ActorsDiffer
<1>1. ASSUME NEW i \in Instances, Register(i) PROVE Inv'
  BY <1>0, <1>1 DEF Register
<1>2. ASSUME NEW i \in Instances, Unregister(i) PROVE Inv'
  BY <1>0, <1>2 DEF Unregister
<1>3. ASSUME NEW a \in Actors, NEW l \in {"acquire", "release"}, Fetch(a, l) PROVE Inv'
  <2>1. current \in 0..MaxManagers /\ (current # 0 => current \in Managers)
    OBVIOUS
  <2>2. mgr' \in [Actors -> 0..MaxManagers] /\ mgr'[a] = current
    BY <1>3, <2>1 DEF Fetch
  <2>. QED
    BY <1>0, <1>3, <2>1, <2>2 DEF Fetch
<1>4. ASSUME NEW a \in Actors, NEW i \in Instances, Acquire(a, i) PROVE Inv'
  <2>1. count' = [count EXCEPT ![mgr[a]][slot[i]] = count[mgr[a]][slot[i]] + 1]
    BY <1>4 DEF Acquire
  <2>2. mgr[a] \in Managers /\ slot[i] \in Gpus /\ count[mgr[a]][slot[i]] + 1 \in Nat
    BY <1>4 DEF Acquire
  <2>3. count' \in [Managers -> [Gpus -> Nat]]
    BY <2>1, <2>2, CountType
  <2>. QED
    BY <1>0, <1>4, <2>3 DEF Acquire, After
<1>5. ASSUME NEW a \in Actors, StartTask(a) PROVE Inv'
  <2>1. running' \in [Managers -> SUBSET Gpus]
    BY <1>5 DEF StartTask
  <2>. QED
    BY <1>0, <1>5, <2>1 DEF StartTask, After
<1>6. ASSUME NEW a \in Actors, NEW i \in Instances, Release(a, i) PROVE Inv'
  <2>. DEFINE n == count[mgr[a]][slot[i]]
  <2>1. count' = [count EXCEPT ![mgr[a]][slot[i]] = IF n > 0 THEN n - 1 ELSE 0]
    BY <1>6 DEF Release, CountDown
  <2>2. mgr[a] \in Managers /\ slot[i] \in Gpus /\ (IF n > 0 THEN n - 1 ELSE 0) \in Nat
    BY <1>6 DEF Release
  <2>3. count' \in [Managers -> [Gpus -> Nat]]
    BY <2>1, <2>2, CountType
  <2>. QED
    BY <1>0, <1>6, <2>3 DEF Release
<1>7. ASSUME NEW a \in Actors, StopTask(a) PROVE Inv'
  <2>1. running' \in [Managers -> SUBSET Gpus]
    BY <1>7 DEF StopTask
  <2>. QED
    BY <1>0, <1>7, <2>1 DEF StopTask
<1>8. CASE SwapDevices
  BY <1>0, <1>8 DEF SwapDevices
<1>9. CASE Rebuild
  BY <1>0, <1>9 DEF Rebuild, StopTasks
<1>10. CASE Replace
  <2>1. count' \in [Managers -> [Gpus -> Nat]]
    BY <1>10 DEF Replace
  <2>2. made' \in Managers /\ current' \in 0..made'
    BY <1>0, <1>10 DEF Replace
  <2>. QED
    BY <1>0, <1>10, <2>1, <2>2 DEF Replace
<1>11. CASE ListInstances
  <2>1. current \in 0..MaxManagers /\ todo' \in SUBSET Instances
    BY <1>11 DEF ListInstances, CountedAfresh
  <2>2. todo' # {} => current \in Managers
    BY <1>11, <2>1 DEF ListInstances, CountedAfresh
  <2>. QED
    BY <1>0, <1>11, <2>1, <2>2 DEF ListInstances
<1>12. CASE UNCHANGED vars
  BY <1>12 DEF vars
<1>13. todo \subseteq Instances
  OBVIOUS
<1>. QED
  BY <1>0, <1>1, <1>2, <1>3, <1>4, <1>5, <1>6, <1>7, <1>8, <1>9, <1>10, <1>11, <1>12, <1>13
  DEF Next, SpawnStep, RemoveStep, ReloadStep, Finished

\* Whatever overlaps, every variable keeps its type: no reference count drops
\* below zero.
THEOREM KeepAliveTypes == Spec => []TypeOK
<1>1. Inv => TypeOK
  BY DEF Inv
<1>. QED
  BY InvInit, InvStep, <1>1, PTL DEF Spec

-----------------------------------------------------------------------------
(* The counts, whatever overlaps. *)

\* Where each actor can be, and whose manager it calls.
Phases ==
  /\ pc[Reloader] \in {"idle", "swapped", "clear", "list", "acquire", "start"}
  /\ pc[Reloader] \in {"acquire", "start"} => current # 0 /\ mgr[Reloader] = current
  /\ pc[Reloader] \notin {"acquire", "start"} => todo = {}
  /\ \A a \in Actors : mgr[a] \in 0..made
  /\ \A i \in Instances :
       /\ pc[Spawner(i)] \in {"idle", "fetch", "acquire", "start", "done"}
       /\ pc[Remover(i)] \in {"idle", "fetch", "release", "stop", "done"}
       /\ i \in listed <=> pc[Spawner(i)] # "idle" /\ pc[Remover(i)] = "idle"
       /\ pc[Remover(i)] # "idle" => pc[Spawner(i)] # "idle"

\* Each actor goes through its phases, and a manager once fetched stays built.
LEMMA PhasesStep == Inv /\ Phases /\ [Next]_vars => Phases'
<1>. SUFFICES ASSUME Inv, Phases, [Next]_vars PROVE Phases'
  OBVIOUS
<1>. USE DEF Inv, TypeOK, Phases, Goto, ManagerVars
<1>0. made \in Nat /\ current \in Nat /\ current \in 0..made /\ \A n \in 0..made : n \in 0..(made + 1)
  BY KeepAliveAssumption DEF Managers
<1>1. ASSUME NEW i \in Instances, Register(i) PROVE Phases'
  BY <1>1, ActorsDiffer DEF Register
<1>2. ASSUME NEW i \in Instances, Unregister(i) PROVE Phases'
  BY <1>2, ActorsDiffer DEF Unregister
<1>3. ASSUME NEW i \in Instances, Fetch(Spawner(i), "acquire") PROVE Phases'
  BY <1>0, <1>3, ActorsDiffer DEF Fetch
<1>4. ASSUME NEW i \in Instances, Fetch(Remover(i), "release") PROVE Phases'
  BY <1>0, <1>4, ActorsDiffer DEF Fetch
<1>5. ASSUME NEW i \in Instances, Acquire(Spawner(i), i) PROVE Phases'
  BY <1>5, ActorsDiffer DEF Acquire, After
<1>6. ASSUME NEW i \in Instances, StartTask(Spawner(i)) PROVE Phases'
  BY <1>6, ActorsDiffer DEF StartTask, After
<1>7. ASSUME NEW i \in Instances, Release(Remover(i), i) PROVE Phases'
  BY <1>7, ActorsDiffer DEF Release
<1>8. ASSUME NEW i \in Instances, StopTask(Remover(i)) PROVE Phases'
  BY <1>8, ActorsDiffer DEF StopTask
<1>9. CASE SwapDevices
  BY <1>9, ActorsDiffer DEF SwapDevices, ReloadMayBegin
<1>10. CASE Rebuild
  BY <1>10, ActorsDiffer DEF Rebuild
<1>11. CASE Replace
  <2>1. made' \in {made, made + 1}
    BY <1>11 DEF Replace
  <2>. QED
    BY <1>0, <1>11, <2>1, ActorsDiffer DEF Replace
<1>12. CASE ListInstances
  BY <1>0, <1>12, ActorsDiffer DEF ListInstances, CountedAfresh
<1>13. ASSUME NEW i \in todo, Acquire(Reloader, i) PROVE Phases'
  <2>1. i \in Instances
    OBVIOUS
  <2>. QED
    BY <1>13, <2>1, ActorsDiffer DEF Acquire, After
<1>14. CASE StartTask(Reloader)
  BY <1>14, ActorsDiffer DEF StartTask, After
<1>15. CASE UNCHANGED vars
  BY <1>15 DEF vars
<1>. QED
  BY <1>1, <1>2, <1>3, <1>4, <1>5, <1>6, <1>7, <1>8, <1>9, <1>10, <1>11, <1>12, <1>13, <1>14, <1>15
  DEF Next, SpawnStep, RemoveStep, ReloadStep, Finished

\* The history of a step that does not replace the manager.
LEMMA WatchedGrows ==
  ASSUME Watched, ~Replace
  PROVE  /\ astray \subseteq astray' /\ counted \subseteq counted'
         /\ tangled \subseteq tangled' /\ Tangling' \subseteq tangled'
         /\ \A i \in Instances :
              /\ OvertakesCount(i) \/ CountedTwice(i) => slot[i] \in astray'
              /\ i \in Moved => slot[i] \in astray' /\ slot'[i] \in astray'
              /\ CountsNow(i) => i \in counted'
  BY DEF Watched, SlotsOf

-----------------------------------------------------------------------------
\* The spawn task of an instance is still to count it in the manager in force, or
\* the remover to give its reference back there.
Coming(i)  == pc[Spawner(i)] = "fetch" \/ (pc[Spawner(i)] = "acquire" /\ mgr[Spawner(i)] = current)
Leaving(i) == pc[Remover(i)] = "fetch" \/ (pc[Remover(i)] = "release" /\ mgr[Remover(i)] = current)

\* Where the counts are not astray, an instance is counted by its spawn task or by
\* the rebuild, and before it is discounted.
InTurn ==
  \A i \in Instances : slot[i] \notin astray =>
    /\ i \notin listed => ~Coming(i)
    /\ pc[Reloader] = "list" => ~Coming(i) /\ ~Leaving(i)
    /\ i \in todo => i \in listed /\ ~Coming(i)

\* The manager in force holds a reference of the instance.
Held(i) == i \notin todo /\ IF i \in listed THEN ~Coming(i) ELSE Leaving(i)

HeldOn(g) == {i \in Instances : slot[i] = g /\ Held(i)}

\* Managers still to be built are blank.
Blank == \A m \in Managers : m > made => running[m] = {} /\ \A g \in Gpus : count[m][g] = 0

\* The counts of the manager in force: a rebuild starts from zero.
CountsMatch ==
  current # 0 => \A g \in Gpus \ astray :
    count[current][g] = IF pc[Reloader] = "list" THEN 0 ELSE Cardinality(HeldOn(g))

\* Everybody listed has been counted, or will be.
AllCounted ==
  current # 0 /\ pc[Reloader] # "list" =>
    \A i \in listed : i \in counted \/ i \in todo \/ Coming(i)

\* The task of a GPU follows its count, or the one actor that is about to start or
\* stop it does.  While a rebuild stops the tasks, those of the old manager do not.
TasksMatch ==
  current # 0 /\ pc[Reloader] # "clear" => \A g \in Gpus \ tangled :
    /\ \A a, b \in Actors : Pending(a, g) /\ Pending(b, g) => a = b
    /\ \A a \in Actors : Pending(a, g) =>
         IF pc[a] = "start" THEN count[current][g] > 0 /\ g \notin running[current]
                            ELSE count[current][g] = 0
    /\ (\A a \in Actors : ~Pending(a, g)) => (g \in running[current] <=> count[current][g] > 0)

HistoryInv == Inv /\ Phases /\ InTurn /\ Blank /\ CountsMatch /\ AllCounted /\ TasksMatch

LEMMA HeldFinite == \A g \in Gpus : IsFiniteSet(HeldOn(g))
  BY KeepAliveAssumption, FS_Subset DEF HeldOn

\* A step after which the same manager is in force, in the same place of the rebuild,
\* and which leaves the counts that are not astray as they are, and their holders.
LEMMA CountsStay ==
  ASSUME CountsMatch, current' = current, astray \subseteq astray',
         pc'[Reloader] = "list" <=> pc[Reloader] = "list",
         \A g \in Gpus \ astray' : count'[current][g] = count[current][g],
         \A g \in Gpus \ astray' : HeldOn(g)' = HeldOn(g)
  PROVE  CountsMatch'
  BY DEF CountsMatch

\* A step that changes at most who holds a reference to a GPU that is astray.
LEMMA HeldStays ==
  ASSUME slot' = slot, NEW g \in Gpus \ astray',
         \A i \in Instances : slot[i] \notin astray' => (Held(i)' <=> Held(i))
  PROVE  HeldOn(g)' = HeldOn(g)
  BY DEF HeldOn

\* Counting one instance more, or one that is astray.
LEMMA CountOneMore ==
  ASSUME Inv, CountsMatch, current # 0, NEW i \in Instances,
         slot' = slot, current' = current, astray \subseteq astray',
         pc'[Reloader] = "list" <=> pc[Reloader] = "list",
         slot[i] \notin astray' => pc[Reloader] # "list" /\ ~Held(i) /\ Held(i)',
         \A j \in Instances \ {i} : Held(j)' <=> Held(j),
         count' = [count EXCEPT ![current][slot[i]] = count[current][slot[i]] + 1]
  PROVE  CountsMatch'
<1>. DEFINE n == count[current][slot[i]]
<1>1. /\ current \in Managers /\ slot[i] \in Gpus /\ count \in [Managers -> [Gpus -> Nat]]
      /\ n \in Nat /\ n + 1 \in Nat
  BY ManagerInForce DEF Inv, TypeOK
<1>2. \A g \in Gpus : count'[current][g] = IF g = slot[i] THEN n + 1 ELSE count[current][g]
  BY <1>1, CountType
<1>3. ASSUME NEW g \in Gpus \ astray'
      PROVE  count'[current][g] = IF pc[Reloader] = "list" THEN 0 ELSE Cardinality(HeldOn(g)')
  <2>0. /\ count[current][g] = IF pc[Reloader] = "list" THEN 0 ELSE Cardinality(HeldOn(g))
        /\ IsFiniteSet(HeldOn(g))
    BY HeldFinite DEF CountsMatch
  <2>1. CASE g = slot[i]
    <3>1. HeldOn(g)' = HeldOn(g) \cup {i} /\ i \notin HeldOn(g) /\ pc[Reloader] # "list"
      BY <2>1 DEF HeldOn
    <3>2. Cardinality(HeldOn(g) \cup {i}) = Cardinality(HeldOn(g)) + 1
      BY <2>0, <3>1, FS_AddElement
    <3>. QED
      BY <1>2, <2>0, <2>1, <3>1, <3>2
  <2>2. CASE g # slot[i]
    <3>1. HeldOn(g)' = HeldOn(g)
      BY <2>2 DEF HeldOn
    <3>. QED
      BY <1>2, <2>0, <2>2, <3>1
  <2>. QED
    BY <2>1, <2>2
<1>. QED
  BY <1>3 DEF CountsMatch

\* Counting one instance less, or one that is astray.
LEMMA CountOneLess ==
  ASSUME Inv, CountsMatch, current # 0, NEW i \in Instances,
         slot' = slot, current' = current, astray \subseteq astray',
         pc'[Reloader] = "list" <=> pc[Reloader] = "list",
         slot[i] \notin astray' => pc[Reloader] # "list" /\ Held(i) /\ ~Held(i)',
         \A j \in Instances \ {i} : Held(j)' <=> Held(j),
         count' = [count EXCEPT ![current][slot[i]] =
                     IF count[current][slot[i]] > 0 THEN count[current][slot[i]] - 1 ELSE 0]
  PROVE  CountsMatch'
<1>. DEFINE n == count[current][slot[i]]
            d == IF n > 0 THEN n - 1 ELSE 0
<1>1. /\ current \in Managers /\ slot[i] \in Gpus /\ count \in [Managers -> [Gpus -> Nat]]
      /\ n \in Nat /\ d \in Nat
  BY ManagerInForce DEF Inv, TypeOK
<1>2. \A g \in Gpus : count'[current][g] = IF g = slot[i] THEN d ELSE count[current][g]
  BY <1>1, CountType
<1>3. ASSUME NEW g \in Gpus \ astray'
      PROVE  count'[current][g] = IF pc[Reloader] = "list" THEN 0 ELSE Cardinality(HeldOn(g)')
  <2>0. /\ count[current][g] = IF pc[Reloader] = "list" THEN 0 ELSE Cardinality(HeldOn(g))
        /\ IsFiniteSet(HeldOn(g))
    BY HeldFinite DEF CountsMatch
  <2>1. CASE g = slot[i]
    <3>1. HeldOn(g)' = HeldOn(g) \ {i} /\ i \in HeldOn(g) /\ pc[Reloader] # "list"
      BY <2>1 DEF HeldOn
    <3>2. Cardinality(HeldOn(g) \ {i}) = Cardinality(HeldOn(g)) - 1
      BY <2>0, <3>1, FS_RemoveElement
    <3>3. Cardinality(HeldOn(g)) \in Nat \ {0}
      BY <2>0, <3>1, FS_CardinalityType, FS_EmptySet
    <3>. QED
      BY <1>1, <1>2, <2>0, <2>1, <3>1, <3>2, <3>3
  <2>2. CASE g # slot[i]
    <3>1. HeldOn(g)' = HeldOn(g)
      BY <2>2 DEF HeldOn
    <3>. QED
      BY <1>2, <2>0, <2>2, <3>1
  <2>. QED
    BY <2>1, <2>2
<1>. QED
  BY <1>3 DEF CountsMatch

-----------------------------------------------------------------------------
\* Nobody counts in a manager that is still to be built.
LEMMA BlankStep ==
  ASSUME Inv, Phases, Blank, [Next]_vars
  PROVE  Blank'
<1>0. /\ made \in Nat /\ made' \in Nat /\ ~(made' < made) /\ current \in Nat /\ ~(current > made)
      /\ \A m \in Managers : m \in Nat /\ (m > made' => m > made)
  <2>1. made' \in {made, made + 1}
    BY DEF Next, SpawnStep, RemoveStep, ReloadStep, Finished, vars, Register, Unregister, Fetch,
           Acquire, Release, StartTask, StopTask, SwapDevices, Rebuild, Replace, ListInstances
  <2>. QED
    BY <2>1, ManagerInForce DEF Managers
<1>1. ASSUME NEW a \in Actors, NEW i \in Instances, Acquire(a, i) \/ Release(a, i) PROVE Blank'
  <2>1. mgr[a] \in Managers /\ slot[i] \in Gpus /\ count[mgr[a]][slot[i]] \in Nat /\ ~(mgr[a] > made)
    BY <1>0, <1>1 DEF Acquire, Release, Inv, TypeOK, Phases
  <2>2. PICK n \in Nat : count' = [count EXCEPT ![mgr[a]][slot[i]] = n]
    <3>1. Acquire(a, i) => count' = [count EXCEPT ![mgr[a]][slot[i]] = count[mgr[a]][slot[i]] + 1]
      BY DEF Acquire
    <3>2. Release(a, i) => count' = [count EXCEPT ![mgr[a]][slot[i]] =
                                       IF count[mgr[a]][slot[i]] > 0 THEN count[mgr[a]][slot[i]] - 1 ELSE 0]
      BY DEF Release, CountDown
    <3>3. count[mgr[a]][slot[i]] + 1 \in Nat
          /\ (IF count[mgr[a]][slot[i]] > 0 THEN count[mgr[a]][slot[i]] - 1 ELSE 0) \in Nat
      BY <2>1
    <3>. QED
      BY <1>1, <3>1, <3>2, <3>3
  <2>3. \A m \in Managers, g \in Gpus : m # mgr[a] => count'[m][g] = count[m][g]
    BY <2>1, <2>2, CountType DEF Inv, TypeOK
  <2>4. running' = running
    BY <1>1 DEF Acquire, Release
  <2>. QED
    BY <1>0, <2>1, <2>3, <2>4 DEF Blank
<1>2. CASE Replace
  BY <1>0, <1>2 DEF Replace, Blank
<1>3. CASE UNCHANGED ManagerVars
  BY <1>0, <1>3 DEF Blank, ManagerVars
<1>4. ASSUME NEW a \in Actors, StartTask(a) \/ StopTask(a) PROVE Blank'
  <2>1. mgr[a] \in Nat /\ ~(mgr[a] > made)
    BY <1>0 DEF Phases
  <2>2. \A m \in Managers : m # mgr[a] => running'[m] = running[m]
    BY <1>4 DEF StartTask, StopTask, Inv, TypeOK
  <2>3. count' = count
    BY <1>4 DEF StartTask, StopTask
  <2>. QED
    BY <1>0, <2>1, <2>2, <2>3 DEF Blank
<1>5. CASE Rebuild
  BY <1>0, <1>5 DEF Rebuild, StopTasks, Blank
<1>. QED
  BY <1>1, <1>2, <1>3, <1>4, <1>5, ActorsDiffer
  DEF Next, SpawnStep, RemoveStep, ReloadStep, Finished, vars, ManagerVars, Register, Unregister,
      Fetch, SwapDevices, ListInstances, Inv, TypeOK

-----------------------------------------------------------------------------
\* A step that replaces nothing leaves what is astray astray, and a step of an
\* instance's own touches no other instance.
LEMMA NotReplaced ==
  ASSUME Inv, Phases
  PROVE  /\ \A i \in Instances :
              \/ Register(i) \/ Unregister(i) \/ Fetch(Spawner(i), "acquire")
              \/ Fetch(Remover(i), "release") \/ Acquire(Spawner(i), i) \/ StartTask(Spawner(i))
              \/ Release(Remover(i), i) \/ StopTask(Remover(i)) \/ Acquire(Reloader, i)
              => ~Replace
         /\ SwapDevices \/ Rebuild \/ ListInstances \/ StartTask(Reloader) \/ UNCHANGED vars
              => ~Replace
<1>1. Replace => pc[Reloader] = "clear" /\ pc'[Reloader] = "list"
  BY ActorsDiffer DEF Replace, Goto, Inv, TypeOK
<1>. QED
  BY <1>1, ActorsDiffer DEF Inv, TypeOK, Goto, Register, Unregister, Fetch, Acquire, StartTask,
     Release, StopTask, SwapDevices, Rebuild, ListInstances, ReloadMayBegin, vars

\* Where nothing is astray, counting precedes discounting.
LEMMA InTurnStep ==
  ASSUME Inv, Phases, InTurn, Next, Watched
  PROVE  InTurn'
<1>. USE DEF InTurn, Coming, Leaving, Goto
<1>. /\ pc \in [Actors -> {"idle", "fetch", "acquire", "release", "start", "stop",
                           "swapped", "clear", "list", "done"}]
     /\ mgr \in [Actors -> 0..MaxManagers] /\ todo \subseteq Instances /\ slot \in [Instances -> Gpus]
  BY DEF Inv, TypeOK
<1>1. ASSUME NEW i \in Instances, Register(i) PROVE InTurn'
  <2>1. astray \subseteq astray' /\ (pc[Reloader] = "list" => slot[i] \in astray')
    BY <1>1, NotReplaced, WatchedGrows DEF CountedTwice
  <2>2. pc[Spawner(i)] = "idle" /\ pc[Remover(i)] = "idle" /\ i \notin listed
    BY <1>1 DEF Register, Phases
  <2>. QED
    BY <1>1, <2>1, <2>2, ActorsDiffer DEF Register
<1>2. ASSUME NEW i \in Instances, Unregister(i) PROVE InTurn'
  <2>1. astray \subseteq astray'
        /\ (pc[Spawner(i)] \in {"fetch", "acquire"} \/ pc[Reloader] = "list" \/ i \in todo
             => slot[i] \in astray')
    BY <1>2, NotReplaced, WatchedGrows DEF OvertakesCount, Rebuilding
  <2>. QED
    BY <1>2, <2>1, ActorsDiffer DEF Unregister
<1>3. ASSUME NEW i \in Instances, Fetch(Spawner(i), "acquire") PROVE InTurn'
  <2>1. astray \subseteq astray'
    BY <1>3, NotReplaced, WatchedGrows
  <2>. QED
    BY <1>3, <2>1, ActorsDiffer DEF Fetch
<1>4. ASSUME NEW i \in Instances, Fetch(Remover(i), "release") PROVE InTurn'
  <2>1. astray \subseteq astray'
    BY <1>4, NotReplaced, WatchedGrows
  <2>. QED
    BY <1>4, <2>1, ActorsDiffer DEF Fetch
<1>5. ASSUME NEW i \in Instances, Acquire(Spawner(i), i) PROVE InTurn'
  <2>1. astray \subseteq astray'
    BY <1>5, NotReplaced, WatchedGrows
  <2>. QED
    BY <1>5, <2>1, ActorsDiffer DEF Acquire, After
<1>6. ASSUME NEW i \in Instances, StartTask(Spawner(i)) PROVE InTurn'
  <2>1. astray \subseteq astray'
    BY <1>6, NotReplaced, WatchedGrows
  <2>. QED
    BY <1>6, <2>1, ActorsDiffer DEF StartTask, After
<1>7. ASSUME NEW i \in Instances, Release(Remover(i), i) PROVE InTurn'
  <2>1. astray \subseteq astray'
    BY <1>7, NotReplaced, WatchedGrows
  <2>. QED
    BY <1>7, <2>1, ActorsDiffer DEF Release
<1>8. ASSUME NEW i \in Instances, StopTask(Remover(i)) PROVE InTurn'
  <2>1. astray \subseteq astray'
    BY <1>8, NotReplaced, WatchedGrows
  <2>. QED
    BY <1>8, <2>1, ActorsDiffer DEF StopTask
<1>9. CASE SwapDevices
  <2>1. astray \subseteq astray'
        /\ \A i \in Instances : i \in Moved => slot[i] \in astray' /\ slot'[i] \in astray'
    BY <1>9, NotReplaced, WatchedGrows
  <2>2. pc[Reloader] = "idle" /\ pc'[Reloader] \in {"idle", "swapped"} /\ todo' = {}
    BY <1>9, ActorsDiffer DEF SwapDevices, ReloadMayBegin, Phases
  <2>3. \A i \in Instances : ~InUse(i) => i \notin listed /\ ~Coming(i) /\ ~Leaving(i)
    BY DEF InUse, AtWork
  <2>4. \A i \in Instances : /\ Coming(i)' <=> Coming(i)
                             /\ Leaving(i)' <=> Leaving(i)
    BY <1>9, ActorsDiffer DEF SwapDevices
  <2>5. \A i \in Instances : InUse(i) /\ slot'[i] \notin astray' => slot'[i] = slot[i]
    BY <2>1 DEF Moved
  <2>6. ASSUME NEW i \in Instances, slot'[i] \notin astray', i \notin listed PROVE ~Coming(i)
    BY <2>1, <2>3, <2>5, <2>6
  <2>. QED
    BY <1>9, <2>2, <2>4, <2>6 DEF SwapDevices
<1>10. CASE Rebuild
  <2>1. astray \subseteq astray'
    BY <1>10, NotReplaced, WatchedGrows
  <2>. QED
    BY <1>10, <2>1, ActorsDiffer DEF Rebuild
<1>11. CASE Replace
  <2>1. \A i \in Instances : slot[i] \notin astray' =>
          pc[Spawner(i)] # "fetch" /\ pc[Remover(i)] # "fetch"
    BY <1>11 DEF Watched, SlotsOf, BetweenListAndFetch
  <2>2. \A a \in Actors : mgr[a] \in 0..made
    BY DEF Phases
  <2>3. made \in Nat /\ current' \in {0, made + 1}
    BY <1>11, ManagerInForce DEF Replace
  <2>4. \A a \in Actors : pc[a] \in {"acquire", "release"} => mgr[a] # current'
    BY <2>2, <2>3 DEF Inv, Managers
  <2>5. todo' = {} /\ slot' = slot /\ mgr' = mgr
        /\ \A i \in Instances : pc'[Spawner(i)] = pc[Spawner(i)] /\ pc'[Remover(i)] = pc[Remover(i)]
    BY <1>11, ActorsDiffer DEF Replace, Phases
  <2>6. \A i \in Instances : slot[i] \notin astray' => ~Coming(i)' /\ ~Leaving(i)'
    BY <2>1, <2>4, <2>5, ActorsDiffer
  <2>. QED
    BY <2>5, <2>6
<1>12. CASE ListInstances
  <2>1. astray \subseteq astray'
    BY <1>12, NotReplaced, WatchedGrows
  <2>. QED
    BY <1>12, <2>1, ActorsDiffer DEF ListInstances, CountedAfresh
<1>13. ASSUME NEW i \in todo, Acquire(Reloader, i) PROVE InTurn'
  <2>1. astray \subseteq astray' /\ i \in Instances
    BY <1>13, NotReplaced, WatchedGrows
  <2>. QED
    BY <1>13, <2>1, ActorsDiffer DEF Acquire, After
<1>14. CASE StartTask(Reloader)
  <2>1. astray \subseteq astray'
    BY <1>14, NotReplaced, WatchedGrows
  <2>. QED
    BY <1>14, <2>1, ActorsDiffer DEF StartTask, After
<1>15. CASE UNCHANGED vars
  <2>1. astray \subseteq astray'
    BY <1>15, NotReplaced, WatchedGrows
  <2>. QED
    BY <1>15, <2>1 DEF vars
<1>. QED
  BY <1>1, <1>2, <1>3, <1>4, <1>5, <1>6, <1>7, <1>8, <1>9, <1>10, <1>11, <1>12, <1>13, <1>14, <1>15
  DEF Next, SpawnStep, RemoveStep, ReloadStep, Finished

-----------------------------------------------------------------------------
\* An acquire in the manager in force adds its instance to the holders, a release
\* takes it away, and a rebuild starts with a blank manager and without holders.
LEMMA CountsStep ==
  ASSUME Inv, Phases, InTurn, Blank, CountsMatch, Next, Watched
  PROVE  CountsMatch'
<1>. USE DEF Goto, ManagerVars
<1>. /\ pc \in [Actors -> {"idle", "fetch", "acquire", "release", "start", "stop",
                           "swapped", "clear", "list", "done"}]
     /\ mgr \in [Actors -> 0..MaxManagers] /\ todo \subseteq Instances /\ slot \in [Instances -> Gpus]
     /\ count \in [Managers -> [Gpus -> Nat]]
  BY DEF Inv, TypeOK
<1>0. ASSUME ~Replace, current' = current, slot' = slot, count' = count,
             pc'[Reloader] = "list" <=> pc[Reloader] = "list",
             current # 0 => \A i \in Instances : slot[i] \notin astray' => (Held(i)' <=> Held(i))
      PROVE  CountsMatch'
  <2>1. astray \subseteq astray'
    BY <1>0, WatchedGrows
  <2>2. CASE current = 0
    BY <1>0, <2>2 DEF CountsMatch
  <2>3. CASE current # 0
    BY <1>0, <2>1, <2>3, HeldStays, CountsStay
  <2>. QED
    BY <2>2, <2>3
<1>1. ASSUME NEW i \in Instances, Register(i) PROVE CountsMatch'
  <2>1. ~Replace
    BY <1>1, NotReplaced
  <2>2. pc[Spawner(i)] = "idle" /\ pc[Remover(i)] = "idle" /\ i \notin listed
    BY <1>1 DEF Register, Phases
  <2>3. \A j \in Instances : Held(j)' <=> Held(j)
    BY <1>1, <2>2, ActorsDiffer DEF Register, Held, Coming, Leaving
  <2>. QED
    BY <1>0, <1>1, <2>1, <2>3, ActorsDiffer DEF Register
<1>2. ASSUME NEW i \in Instances, Unregister(i) PROVE CountsMatch'
  <2>1. ~Replace /\ (pc[Spawner(i)] \in {"fetch", "acquire"} => slot[i] \in astray')
    BY <1>2, NotReplaced, WatchedGrows DEF OvertakesCount
  <2>2. \A j \in Instances : slot[j] \notin astray' => (Held(j)' <=> Held(j))
    BY <1>2, <2>1, ActorsDiffer DEF Unregister, Held, Coming, Leaving
  <2>. QED
    BY <1>0, <1>2, <2>1, <2>2, ActorsDiffer DEF Unregister
<1>3. ASSUME NEW i \in Instances, Fetch(Spawner(i), "acquire") PROVE CountsMatch'
  <2>1. ~Replace
    BY <1>3, NotReplaced
  <2>2. current # 0 => \A j \in Instances : Held(j)' <=> Held(j)
    BY <1>3, ActorsDiffer DEF Fetch, Held, Coming, Leaving
  <2>. QED
    BY <1>0, <1>3, <2>1, <2>2, ActorsDiffer DEF Fetch
<1>4. ASSUME NEW i \in Instances, Fetch(Remover(i), "release") PROVE CountsMatch'
  <2>1. ~Replace
    BY <1>4, NotReplaced
  <2>2. current # 0 => \A j \in Instances : Held(j)' <=> Held(j)
    BY <1>4, ActorsDiffer DEF Fetch, Held, Coming, Leaving
  <2>. QED
    BY <1>0, <1>4, <2>1, <2>2, ActorsDiffer DEF Fetch
<1>5. ASSUME NEW i \in Instances, Acquire(Spawner(i), i) PROVE CountsMatch'
  <2>0. astray \subseteq astray'
    BY <1>5, NotReplaced, WatchedGrows
  <2>1. /\ mgr[Spawner(i)] \in Managers /\ pc[Spawner(i)] = "acquire" /\ slot' = slot
        /\ current' = current /\ pc'[Reloader] = pc[Reloader] /\ mgr' = mgr /\ todo' = todo
        /\ listed' = listed /\ pc'[Spawner(i)] \in {"start", "done"}
        /\ count' = [count EXCEPT ![mgr[Spawner(i)]][slot[i]] = count[mgr[Spawner(i)]][slot[i]] + 1]
    BY <1>5, ActorsDiffer DEF Acquire, After, Inv
  <2>2. \A j \in Instances \ {i} : Held(j)' <=> Held(j)
    BY <1>5, <2>1, ActorsDiffer DEF Acquire, Held, Coming, Leaving
  <2>3. CASE mgr[Spawner(i)] = current
    <3>1. Coming(i) /\ ~Coming(i)' /\ current # 0
      BY <2>1, <2>3 DEF Coming, Managers
    <3>2. slot[i] \notin astray' => pc[Reloader] # "list" /\ i \in listed /\ i \notin todo
      BY <2>0, <3>1 DEF InTurn
    <3>3. slot[i] \notin astray' => pc[Reloader] # "list" /\ ~Held(i) /\ Held(i)'
      BY <2>1, <3>1, <3>2 DEF Held
    <3>. QED
      BY <2>0, <2>1, <2>2, <2>3, <3>1, <3>3, CountOneMore
  <2>4. CASE mgr[Spawner(i)] # current
    <3>1. current \in Nat /\ (current # 0 => current \in Managers)
      BY ManagerInForce
    <3>2. current # 0 => \A g \in Gpus : count'[current][g] = count[current][g]
      BY <2>1, <2>4, <3>1, CountType
    <3>3. pc'[Remover(i)] = pc[Remover(i)]
      BY <1>5, ActorsDiffer DEF Acquire
    <3>4. Held(i)' <=> Held(i)
      BY <2>1, <2>4, <3>3 DEF Held, Coming, Leaving
    <3>5. \A g \in Gpus \ astray' : HeldOn(g)' = HeldOn(g)
      BY <2>1, <2>2, <3>4, HeldStays
    <3>6. CASE current = 0
      BY <2>1, <3>6 DEF CountsMatch
    <3>. QED
      BY <2>0, <2>1, <3>2, <3>5, <3>6, CountsStay
  <2>. QED
    BY <2>3, <2>4
<1>6. ASSUME NEW i \in Instances, StartTask(Spawner(i)) PROVE CountsMatch'
  <2>1. ~Replace
    BY <1>6, NotReplaced
  <2>2. \A j \in Instances : Held(j)' <=> Held(j)
    BY <1>6, ActorsDiffer DEF StartTask, After, Held, Coming, Leaving
  <2>. QED
    BY <1>0, <1>6, <2>1, <2>2, ActorsDiffer DEF StartTask
<1>7. ASSUME NEW i \in Instances, Release(Remover(i), i) PROVE CountsMatch'
  <2>0. astray \subseteq astray'
    BY <1>7, NotReplaced, WatchedGrows
  <2>1. /\ mgr[Remover(i)] \in Managers /\ pc[Remover(i)] = "release" /\ slot' = slot
        /\ current' = current /\ pc'[Reloader] = pc[Reloader] /\ mgr' = mgr /\ todo' = todo
        /\ listed' = listed /\ pc'[Remover(i)] \in {"stop", "done"} /\ i \notin listed
        /\ count' = [count EXCEPT ![mgr[Remover(i)]][slot[i]] =
                       IF count[mgr[Remover(i)]][slot[i]] > 0 THEN count[mgr[Remover(i)]][slot[i]] - 1 ELSE 0]
    BY <1>7, ActorsDiffer DEF Release, CountDown, Inv, Phases
  <2>2. \A j \in Instances \ {i} : Held(j)' <=> Held(j)
    BY <1>7, <2>1, ActorsDiffer DEF Release, Held, Coming, Leaving
  <2>3. CASE mgr[Remover(i)] = current
    <3>1. Leaving(i) /\ ~Leaving(i)' /\ current # 0
      BY <2>1, <2>3 DEF Leaving, Managers
    <3>2. slot[i] \notin astray' => pc[Reloader] # "list" /\ i \notin todo
      BY <2>0, <2>1, <3>1 DEF InTurn
    <3>3. slot[i] \notin astray' => pc[Reloader] # "list" /\ Held(i) /\ ~Held(i)'
      BY <2>1, <3>1, <3>2 DEF Held
    <3>. QED
      BY <2>0, <2>1, <2>2, <2>3, <3>1, <3>3, CountOneLess
  <2>4. CASE mgr[Remover(i)] # current
    <3>0. LET n == count[mgr[Remover(i)]][slot[i]] IN (IF n > 0 THEN n - 1 ELSE 0) \in Nat
      BY <2>1
    <3>1. current \in Nat /\ (current # 0 => current \in Managers)
      BY ManagerInForce
    <3>2. current # 0 => \A g \in Gpus : count'[current][g] = count[current][g]
      BY <2>1, <2>4, <3>0, <3>1, CountType
    <3>3. pc'[Spawner(i)] = pc[Spawner(i)]
      BY <1>7, ActorsDiffer DEF Release
    <3>4. Held(i)' <=> Held(i)
      BY <2>1, <2>4, <3>3 DEF Held, Coming, Leaving
    <3>5. \A g \in Gpus \ astray' : HeldOn(g)' = HeldOn(g)
      BY <2>1, <2>2, <3>4, HeldStays
    <3>6. CASE current = 0
      BY <2>1, <3>6 DEF CountsMatch
    <3>. QED
      BY <2>0, <2>1, <3>2, <3>5, <3>6, CountsStay
  <2>. QED
    BY <2>3, <2>4
<1>8. ASSUME NEW i \in Instances, StopTask(Remover(i)) PROVE CountsMatch'
  <2>1. ~Replace
    BY <1>8, NotReplaced
  <2>2. \A j \in Instances : Held(j)' <=> Held(j)
    BY <1>8, ActorsDiffer DEF StopTask, Held, Coming, Leaving
  <2>. QED
    BY <1>0, <1>8, <2>1, <2>2, ActorsDiffer DEF StopTask
<1>9. CASE SwapDevices
  <2>1. astray \subseteq astray'
        /\ \A i \in Instances : i \in Moved => slot[i] \in astray' /\ slot'[i] \in astray'
    BY <1>9, NotReplaced, WatchedGrows
  <2>2. /\ pc[Reloader] = "idle" /\ pc'[Reloader] \in {"idle", "swapped"}
        /\ count' = count /\ current' = current
    BY <1>9, ActorsDiffer DEF SwapDevices, ReloadMayBegin
  <2>3. \A i \in Instances : Held(i)' <=> Held(i)
    BY <1>9, ActorsDiffer DEF SwapDevices, Held, Coming, Leaving
  <2>4. \A i \in Instances : Held(i) => InUse(i)
    BY DEF Held, Leaving, InUse, AtWork
  <2>5. ASSUME NEW g \in Gpus \ astray', NEW i \in Instances
        PROVE  slot'[i] = g /\ Held(i)' <=> slot[i] = g /\ Held(i)
    BY <2>1, <2>3, <2>4 DEF Moved
  <2>6. \A g \in Gpus \ astray' : HeldOn(g)' = HeldOn(g)
    BY <2>5 DEF HeldOn
  <2>. QED
    BY <2>1, <2>2, <2>6, CountsStay
<1>10. CASE Rebuild
  <2>1. ~Replace
    BY <1>10, NotReplaced
  <2>2. \A j \in Instances : Held(j)' <=> Held(j)
    BY <1>10, ActorsDiffer DEF Rebuild, Held, Coming, Leaving
  <2>. QED
    BY <1>0, <1>10, <2>1, <2>2, ActorsDiffer DEF Rebuild
<1>11. CASE Replace
  <2>1. /\ made \in Nat /\ made + 1 \in Managers /\ current' \in {0, made + 1}
        /\ ~(current > made) /\ current \in Nat
    BY <1>11, ManagerInForce DEF Replace
  <2>2. pc'[Reloader] = "list"
    BY <1>11, ActorsDiffer DEF Replace
  <2>3. current' # 0 => \A g \in Gpus : count'[current'][g] = 0
    BY <1>11, <2>1 DEF Replace, Blank
  <2>. QED
    BY <2>2, <2>3 DEF CountsMatch
<1>12. CASE ListInstances
  <2>1. /\ pc[Reloader] = "list" /\ pc'[Reloader] # "list" /\ UNCHANGED <<count, current, slot, listed>>
        /\ astray \subseteq astray'
        /\ \A i \in Instances : pc'[Spawner(i)] = pc[Spawner(i)] /\ pc'[Remover(i)] = pc[Remover(i)]
        /\ \A i \in Instances : mgr'[Spawner(i)] = mgr[Spawner(i)] /\ mgr'[Remover(i)] = mgr[Remover(i)]
    BY <1>12, NotReplaced, WatchedGrows, ActorsDiffer DEF ListInstances
  <2>2. current # 0 => todo' = listed
    BY <1>12 DEF ListInstances, CountedAfresh
  <2>3. current # 0 => \A i \in Instances : slot[i] \notin astray' => ~Held(i)'
    BY <2>1, <2>2 DEF InTurn, Held, Leaving
  <2>4. ASSUME current # 0, NEW g \in Gpus \ astray' PROVE count'[current'][g] = Cardinality(HeldOn(g)')
    <3>1. HeldOn(g)' = {}
      BY <2>1, <2>3, <2>4 DEF HeldOn
    <3>2. count'[current'][g] = 0
      BY <2>1, <2>4 DEF CountsMatch
    <3>. QED
      BY <3>1, <3>2, FS_EmptySet
  <2>. QED
    BY <2>1, <2>4 DEF CountsMatch
<1>13. ASSUME NEW i \in todo, Acquire(Reloader, i) PROVE CountsMatch'
  <2>0. astray \subseteq astray' /\ i \in Instances
    BY <1>13, NotReplaced, WatchedGrows
  <2>1. /\ pc[Reloader] = "acquire" /\ mgr[Reloader] = current /\ current # 0
        /\ slot' = slot /\ current' = current /\ mgr' = mgr /\ listed' = listed
        /\ todo' = todo \ {i} /\ pc'[Reloader] \in {"idle", "acquire", "start"}
        /\ count' = [count EXCEPT ![current][slot[i]] = count[current][slot[i]] + 1]
    BY <1>13, ActorsDiffer DEF Acquire, After, Phases
  <2>2. \A j \in Instances : /\ Coming(j)' <=> Coming(j)
                             /\ Leaving(j)' <=> Leaving(j)
    BY <1>13, <2>1, ActorsDiffer DEF Acquire, Coming, Leaving
  <2>3. \A j \in Instances \ {i} : Held(j)' <=> Held(j)
    BY <2>1, <2>2 DEF Held
  <2>4. slot[i] \notin astray' => i \in listed /\ ~Coming(i)
    BY <2>0 DEF InTurn
  <2>5. slot[i] \notin astray' => ~Held(i) /\ Held(i)'
    BY <2>1, <2>2, <2>4 DEF Held
  <2>. QED
    BY <2>0, <2>1, <2>3, <2>5, CountOneMore
<1>14. CASE StartTask(Reloader)
  <2>1. ~Replace
    BY <1>14, NotReplaced
  <2>2. \A j \in Instances : Held(j)' <=> Held(j)
    BY <1>14, ActorsDiffer DEF StartTask, Held, Coming, Leaving
  <2>3. pc[Reloader] = "start" /\ pc'[Reloader] \in {"idle", "acquire"}
    BY <1>14, ActorsDiffer DEF StartTask, After
  <2>. QED
    BY <1>0, <1>14, <2>1, <2>2, <2>3 DEF StartTask
<1>15. CASE UNCHANGED vars
  <2>1. ~Replace
    BY <1>15, NotReplaced
  <2>2. \A j \in Instances : Held(j)' <=> Held(j)
    BY <1>15 DEF vars, Held, Coming, Leaving
  <2>. QED
    BY <1>0, <1>15, <2>1, <2>2 DEF vars
<1>. QED
  BY <1>1, <1>2, <1>3, <1>4, <1>5, <1>6, <1>7, <1>8, <1>9, <1>10, <1>11, <1>12, <1>13, <1>14, <1>15
  DEF Next, SpawnStep, RemoveStep, ReloadStep, Finished

\* An instance that is listed waits for its spawn task or the rebuild to count it;
\* a rebuild lists after it has replaced the manager, and so misses nobody.
LEMMA AllCountedStep ==
  ASSUME Inv, Phases, AllCounted, Next, Watched
  PROVE  AllCounted'
<1>. USE DEF AllCounted, Coming, Goto
<1>. /\ pc \in [Actors -> {"idle", "fetch", "acquire", "release", "start", "stop",
                           "swapped", "clear", "list", "done"}]
     /\ mgr \in [Actors -> 0..MaxManagers] /\ todo \subseteq Instances /\ listed \subseteq Instances
  BY DEF Inv, TypeOK
<1>1. ASSUME NEW i \in Instances, Register(i) PROVE AllCounted'
  <2>1. counted \subseteq counted'
    BY <1>1, NotReplaced, WatchedGrows
  <2>. QED
    BY <1>1, <2>1, ActorsDiffer DEF Register
<1>2. ASSUME NEW i \in Instances, Unregister(i) PROVE AllCounted'
  <2>1. counted \subseteq counted'
    BY <1>2, NotReplaced, WatchedGrows
  <2>. QED
    BY <1>2, <2>1, ActorsDiffer DEF Unregister
<1>3. ASSUME NEW i \in Instances, Fetch(Spawner(i), "acquire") PROVE AllCounted'
  <2>1. counted \subseteq counted'
    BY <1>3, NotReplaced, WatchedGrows
  <2>. QED
    BY <1>3, <2>1, ActorsDiffer DEF Fetch
<1>4. ASSUME NEW i \in Instances, Fetch(Remover(i), "release") PROVE AllCounted'
  <2>1. counted \subseteq counted'
    BY <1>4, NotReplaced, WatchedGrows
  <2>. QED
    BY <1>4, <2>1, ActorsDiffer DEF Fetch
<1>5. ASSUME NEW i \in Instances, Acquire(Spawner(i), i) PROVE AllCounted'
  <2>1. counted \subseteq counted' /\ (mgr[Spawner(i)] = current => i \in counted')
    BY <1>5, NotReplaced, WatchedGrows DEF CountsNow
  <2>. QED
    BY <1>5, <2>1, ActorsDiffer DEF Acquire, After
<1>6. ASSUME NEW i \in Instances, StartTask(Spawner(i)) PROVE AllCounted'
  <2>1. counted \subseteq counted'
    BY <1>6, NotReplaced, WatchedGrows
  <2>. QED
    BY <1>6, <2>1, ActorsDiffer DEF StartTask, After
<1>7. ASSUME NEW i \in Instances, Release(Remover(i), i) PROVE AllCounted'
  <2>1. counted \subseteq counted'
    BY <1>7, NotReplaced, WatchedGrows
  <2>. QED
    BY <1>7, <2>1, ActorsDiffer DEF Release
<1>8. ASSUME NEW i \in Instances, StopTask(Remover(i)) PROVE AllCounted'
  <2>1. counted \subseteq counted'
    BY <1>8, NotReplaced, WatchedGrows
  <2>. QED
    BY <1>8, <2>1, ActorsDiffer DEF StopTask
<1>9. CASE SwapDevices
  <2>1. counted \subseteq counted'
    BY <1>9, NotReplaced, WatchedGrows
  <2>. QED
    BY <1>9, <2>1, ActorsDiffer DEF SwapDevices, ReloadMayBegin
<1>10. CASE Rebuild
  <2>1. counted \subseteq counted'
    BY <1>10, NotReplaced, WatchedGrows
  <2>. QED
    BY <1>10, <2>1, ActorsDiffer DEF Rebuild
<1>11. CASE Replace
  BY <1>11, ActorsDiffer DEF Replace
<1>12. CASE ListInstances
  BY <1>12 DEF ListInstances, CountedAfresh
<1>13. ASSUME NEW i \in todo, Acquire(Reloader, i) PROVE AllCounted'
  <2>1. todo' = todo \ {i} /\ i \in Instances
    BY <1>13 DEF Acquire
  <2>2. counted \subseteq counted' /\ i \in counted'
    BY <1>13, <2>1, NotReplaced, WatchedGrows DEF CountsNow
  <2>. QED
    BY <1>13, <2>1, <2>2, ActorsDiffer DEF Acquire, After, Phases
<1>14. CASE StartTask(Reloader)
  <2>1. counted \subseteq counted'
    BY <1>14, NotReplaced, WatchedGrows
  <2>. QED
    BY <1>14, <2>1, ActorsDiffer DEF StartTask, After
<1>15. CASE UNCHANGED vars
  <2>1. counted \subseteq counted'
    BY <1>15, NotReplaced, WatchedGrows
  <2>. QED
    BY <1>15, <2>1 DEF vars
<1>. QED
  BY <1>1, <1>2, <1>3, <1>4, <1>5, <1>6, <1>7, <1>8, <1>9, <1>10, <1>11, <1>12, <1>13, <1>14, <1>15
  DEF Next, SpawnStep, RemoveStep, ReloadStep, Finished

-----------------------------------------------------------------------------
\* A step that changes neither counts nor tasks of the manager in force, nor who is
\* about to start or stop one.
LEMMA TasksStay ==
  ASSUME TasksMatch, current' = current, tangled \subseteq tangled',
         pc[Reloader] = "clear" => pc'[Reloader] = "clear",
         current # 0 => \A g \in Gpus : count'[current][g] = count[current][g],
         current # 0 => running'[current] = running[current],
         \A a \in Actors, g \in Gpus : Pending(a, g)' <=> Pending(a, g),
         \A a \in Actors, g \in Gpus : Pending(a, g) => pc'[a] = pc[a]
  PROVE  TasksMatch'
  BY DEF TasksMatch

\* A count that leaves zero, or reaches it, has its task started or stopped next;
\* only where another start or stop is under way can the two be at odds.
LEMMA TasksStep ==
  ASSUME Inv, Phases, Blank, TasksMatch, Next, Watched
  PROVE  TasksMatch'
<1>. USE DEF Goto, ManagerVars
<1>. /\ pc \in [Actors -> {"idle", "fetch", "acquire", "release", "start", "stop",
                           "swapped", "clear", "list", "done"}]
     /\ mgr \in [Actors -> 0..MaxManagers] /\ todo \subseteq Instances /\ slot \in [Instances -> Gpus]
     /\ count \in [Managers -> [Gpus -> Nat]] /\ target \in [Actors -> Gpus]
     /\ running \in [Managers -> SUBSET Gpus]
  BY DEF Inv, TypeOK
<1>0. current \in Nat /\ (current # 0 => current \in Managers)
  BY ManagerInForce
<1>1. ASSUME ~Replace, UNCHANGED <<current, count, running, target>>, NEW a \in Actors,
             pc[a] \notin {"start", "stop"}, pc'[a] \notin {"start", "stop"},
             pc[Reloader] = "clear" => pc'[Reloader] = "clear",
             \A b \in Actors \ {a} : pc'[b] = pc[b] /\ mgr'[b] = mgr[b]
      PROVE  TasksMatch'
  <2>1. \A b \in Actors, g \in Gpus : Pending(b, g)' <=> Pending(b, g)
    BY <1>1 DEF Pending
  <2>2. \A b \in Actors, g \in Gpus : Pending(b, g) => pc'[b] = pc[b]
    BY <1>1 DEF Pending
  <2>. QED
    BY <1>1, <2>1, <2>2, WatchedGrows, TasksStay
<1>2. ASSUME ~Replace, NEW a \in Actors, NEW i \in Instances, Acquire(a, i) \/ Release(a, i),
             pc[Reloader] = "clear" => pc'[Reloader] = "clear"
      PROVE  TasksMatch'
  <2>. DEFINE m == mgr[a]
              g == slot[i]
              n == count[m][g]
              k == IF pc[a] = "acquire" THEN n + 1 ELSE IF n > 0 THEN n - 1 ELSE 0
  <2>1. m \in Managers /\ g \in Gpus /\ n \in Nat /\ k \in Nat /\ pc[a] \in {"acquire", "release"}
    BY <1>2 DEF Acquire, Release, Inv
  <2>2. /\ count' = [count EXCEPT ![m][g] = k]
        /\ target' = [target EXCEPT ![a] = g]
        /\ UNCHANGED <<current, running, mgr>>
        /\ \A b \in Actors \ {a} : pc'[b] = pc[b]
    BY <1>2 DEF Acquire, Release, CountDown
  <2>3. /\ pc'[a] = "start" <=> pc[a] = "acquire" /\ n = 0
        /\ pc'[a] = "stop" <=> pc[a] = "release" /\ n = 1
    BY <1>2, <2>1 DEF Acquire, Release, After, LastReference
  <2>4. \A l \in Managers, h \in Gpus : count'[l][h] = IF l = m /\ h = g THEN k ELSE count[l][h]
    BY <2>1, <2>2, CountType
  <2>5. /\ \A b \in Actors \ {a}, h \in Gpus : Pending(b, h)' <=> Pending(b, h)
        /\ \A h \in Gpus : ~Pending(a, h)
        /\ \A h \in Gpus : Pending(a, h)' <=> m = current /\ h = g /\ pc'[a] \in {"start", "stop"}
    BY <2>1, <2>2 DEF Pending
  <2>6. tangled \subseteq tangled' /\ Tangling' \subseteq tangled'
    BY <1>2, WatchedGrows
  <2>7. CASE m # current
    <3>1. \A b \in Actors, h \in Gpus : Pending(b, h)' <=> Pending(b, h)
      BY <2>1, <2>5, <2>7 DEF Managers
    <3>2. \A b \in Actors, h \in Gpus : Pending(b, h) => pc'[b] = pc[b]
      BY <2>2, <2>5
    <3>3. current # 0 => \A h \in Gpus : count'[current][h] = count[current][h]
      BY <1>0, <2>1, <2>4, <2>7 DEF Managers
    <3>. QED
      BY <1>2, <2>2, <2>6, <3>1, <3>2, <3>3, TasksStay
  <2>8. CASE m = current
    <3>. SUFFICES ASSUME pc'[Reloader] # "clear", NEW h \in Gpus \ tangled'
                  PROVE  /\ \A b, c \in Actors : Pending(b, h)' /\ Pending(c, h)' => b = c
                         /\ \A b \in Actors : Pending(b, h)' =>
                              IF pc'[b] = "start" THEN count'[current][h] > 0 /\ h \notin running[current]
                                                  ELSE count'[current][h] = 0
                         /\ (\A b \in Actors : ~Pending(b, h)') =>
                              (h \in running[current] <=> count'[current][h] > 0)
      BY <2>2, <2>8 DEF TasksMatch
    <3>1. \A b, c \in Actors : Pending(b, h)' /\ Pending(c, h)' => b = c
      BY <2>6 DEF Tangling
    <3>2. pc[Reloader] # "clear" /\ current # 0 /\ h \notin tangled
      BY <1>2, <2>1, <2>6, <2>8 DEF Managers
    <3>3. /\ \A b \in Actors : Pending(b, h) =>
               IF pc[b] = "start" THEN count[current][h] > 0 /\ h \notin running[current]
                                  ELSE count[current][h] = 0
          /\ (\A b \in Actors : ~Pending(b, h)) => (h \in running[current] <=> count[current][h] > 0)
      BY <3>2 DEF TasksMatch
    <3>4. CASE h # g
      <4>1. count'[current][h] = count[current][h]
        BY <2>1, <2>4, <2>8, <3>4
      <4>2. \A b \in Actors : /\ Pending(b, h)' <=> Pending(b, h)
                              /\ Pending(b, h) => pc'[b] = pc[b]
        BY <2>2, <2>5, <3>4
      <4>. QED
        BY <3>1, <3>3, <4>1, <4>2
    <3>5. CASE h = g /\ pc'[a] \in {"start", "stop"}
      <4>1. Pending(a, h)' /\ \A b \in Actors : ~Pending(b, h)
        BY <2>5, <2>8, <3>1, <3>5
      <4>2. g \in running[current] <=> n > 0
        BY <2>8, <3>3, <3>5, <4>1
      <4>3. count'[current][h] = k
        BY <2>1, <2>4, <2>8, <3>5
      <4>4. IF pc'[a] = "start" THEN k > 0 /\ g \notin running[current] ELSE k = 0
        BY <2>1, <2>3, <3>5, <4>2
      <4>. QED
        BY <3>1, <3>5, <4>1, <4>3, <4>4
    <3>6. CASE h = g /\ pc'[a] \notin {"start", "stop"}
      <4>1. \A b \in Actors : /\ Pending(b, h)' <=> Pending(b, h)
                              /\ Pending(b, h) => pc'[b] = pc[b]
        BY <2>2, <2>5, <3>6
      <4>2. count'[current][h] = k /\ count[current][h] = n
        BY <2>1, <2>4, <2>8, <3>6
      <4>3. (k > 0 <=> n > 0) /\ (k = 0 <=> n = 0)
        BY <2>1, <2>3, <3>6
      <4>. QED
        BY <3>1, <3>3, <4>1, <4>2, <4>3
    <3>. QED
      BY <3>4, <3>5, <3>6
  <2>. QED
    BY <2>7, <2>8
<1>3. ASSUME ~Replace, NEW a \in Actors, StartTask(a) \/ StopTask(a),
             pc[Reloader] = "clear" => pc'[Reloader] = "clear"
      PROVE  TasksMatch'
  <2>. DEFINE m == mgr[a]
              g == target[a]
  <2>1. /\ pc[a] \in {"start", "stop"} /\ pc'[a] \notin {"start", "stop"} /\ g \in Gpus
        /\ UNCHANGED <<current, count, mgr, target>>
        /\ \A b \in Actors \ {a} : pc'[b] = pc[b]
        /\ running' = [running EXCEPT ![m] = IF pc[a] = "start" THEN running[m] \cup {g}
                                                               ELSE running[m] \ {g}]
    BY <1>3 DEF StartTask, StopTask, After
  <2>2. tangled \subseteq tangled'
    BY <1>3, WatchedGrows
  <2>3. /\ \A b \in Actors \ {a}, h \in Gpus : Pending(b, h)' <=> Pending(b, h)
        /\ \A h \in Gpus : ~Pending(a, h)'
        /\ \A h \in Gpus : Pending(a, h) <=> m = current /\ h = g
    BY <2>1 DEF Pending
  <2>. SUFFICES ASSUME current # 0, pc'[Reloader] # "clear", NEW h \in Gpus \ tangled'
                PROVE  /\ \A b, c \in Actors : Pending(b, h)' /\ Pending(c, h)' => b = c
                       /\ \A b \in Actors : Pending(b, h)' =>
                            IF pc'[b] = "start" THEN count[current][h] > 0 /\ h \notin running'[current]
                                                ELSE count[current][h] = 0
                       /\ (\A b \in Actors : ~Pending(b, h)') =>
                            (h \in running'[current] <=> count[current][h] > 0)
    BY <2>1 DEF TasksMatch
  <2>4. /\ \A b, c \in Actors : Pending(b, h) /\ Pending(c, h) => b = c
        /\ \A b \in Actors : Pending(b, h) =>
             IF pc[b] = "start" THEN count[current][h] > 0 /\ h \notin running[current]
                                ELSE count[current][h] = 0
        /\ (\A b \in Actors : ~Pending(b, h)) => (h \in running[current] <=> count[current][h] > 0)
    BY <1>3, <2>2 DEF TasksMatch
  <2>5. \A b \in Actors : Pending(b, h)' => Pending(b, h) /\ b # a /\ pc'[b] = pc[b]
    BY <2>1, <2>3
  <2>6. CASE m # current \/ h # g
    <3>1. h \in running'[current] <=> h \in running[current]
      BY <1>0, <2>1, <2>6
    <3>2. \A b \in Actors : Pending(b, h)' <=> Pending(b, h)
      BY <2>3, <2>6
    <3>. QED
      BY <2>4, <2>5, <3>1, <3>2
  <2>7. CASE m = current /\ h = g
    <3>1. Pending(a, h) /\ \A b \in Actors : ~Pending(b, h)'
      BY <2>3, <2>4, <2>5, <2>7
    <3>2. h \in running'[current] <=> pc[a] = "start"
      BY <1>0, <2>1, <2>7
    <3>3. pc[a] = "start" <=> count[current][h] > 0
      BY <2>4, <3>1
    <3>. QED
      BY <3>1, <3>2, <3>3
  <2>. QED
    BY <2>6, <2>7
<1>4. ASSUME NEW i \in Instances, Register(i) PROVE TasksMatch'
  BY <1>1, <1>4, NotReplaced, ActorsDiffer DEF Register
<1>5. ASSUME NEW i \in Instances, Unregister(i) PROVE TasksMatch'
  BY <1>1, <1>5, NotReplaced, ActorsDiffer DEF Unregister, Phases
<1>6. ASSUME NEW i \in Instances, Fetch(Spawner(i), "acquire") \/ Fetch(Remover(i), "release")
      PROVE  TasksMatch'
  <2>1. CASE Fetch(Spawner(i), "acquire")
    BY <1>1, <2>1, NotReplaced, ActorsDiffer DEF Fetch
  <2>2. CASE Fetch(Remover(i), "release")
    BY <1>1, <2>2, NotReplaced, ActorsDiffer DEF Fetch
  <2>. QED
    BY <1>6, <2>1, <2>2
<1>7. ASSUME NEW i \in Instances, Acquire(Spawner(i), i) \/ Release(Remover(i), i) PROVE TasksMatch'
  BY <1>2, <1>7, NotReplaced, ActorsDiffer DEF Acquire, Release
<1>8. ASSUME NEW i \in Instances, StartTask(Spawner(i)) \/ StopTask(Remover(i)) PROVE TasksMatch'
  BY <1>3, <1>8, NotReplaced, ActorsDiffer DEF StartTask, StopTask
<1>9. ASSUME NEW i \in todo, Acquire(Reloader, i) PROVE TasksMatch'
  BY <1>2, <1>9, NotReplaced, ActorsDiffer DEF Acquire
<1>10. CASE StartTask(Reloader)
  BY <1>3, <1>10, NotReplaced, ActorsDiffer DEF StartTask
<1>11. CASE SwapDevices
  <2>1. pc[Reloader] = "idle" /\ pc'[Reloader] \in {"idle", "swapped"}
    BY <1>11, ActorsDiffer DEF SwapDevices, ReloadMayBegin
  <2>. QED
    BY <1>1, <1>11, <2>1, NotReplaced, ActorsDiffer DEF SwapDevices
<1>12. CASE Rebuild
  BY <1>12, ActorsDiffer DEF Rebuild, TasksMatch
<1>13. CASE Replace
  <2>1. /\ made \in Nat /\ made + 1 \in Managers /\ current' \in {0, made + 1} /\ current \in Nat
        /\ ~(current > made) /\ UNCHANGED <<running, mgr, target>>
    BY <1>13, ManagerInForce DEF Replace
  <2>2. current' # 0 => running'[current'] = {} /\ \A g \in Gpus : count'[current'][g] = 0
    BY <1>13, <2>1 DEF Replace, Blank
  <2>3. current' # 0 => \A a \in Actors, g \in Gpus : ~Pending(a, g)'
    BY <2>1 DEF Pending, Phases
  <2>. QED
    BY <2>2, <2>3 DEF TasksMatch
<1>14. CASE ListInstances
  <2>1. pc[Reloader] = "list" /\ pc'[Reloader] \in {"idle", "acquire"}
    BY <1>14, ActorsDiffer DEF ListInstances
  <2>. QED
    BY <1>1, <1>14, <2>1, NotReplaced, ActorsDiffer DEF ListInstances
<1>15. CASE UNCHANGED vars
  BY <1>15, NotReplaced, WatchedGrows, TasksStay DEF vars, Pending
<1>. QED
  BY <1>4, <1>5, <1>6, <1>7, <1>8, <1>9, <1>10, <1>11, <1>12, <1>13, <1>14, <1>15
  DEF Next, SpawnStep, RemoveStep, ReloadStep, Finished

-----------------------------------------------------------------------------
LEMMA HistoryInvInit == HistoryInit => HistoryInv
<1>. SUFFICES ASSUME HistoryInit PROVE HistoryInv
  OBVIOUS
<1>. USE DEF HistoryInit, Init
<1>1. Inv
  BY InvInit
<1>2. /\ 1 \in Managers /\ pc[Reloader] = "idle" /\ \A a \in Actors : pc[a] = "idle" /\ mgr[a] = 0
      /\ \A m \in Managers, g \in Gpus : count[m][g] = 0
      /\ 0 \in 0..made
  BY KeepAliveAssumption, ActorsDiffer DEF Managers
<1>3. Phases
  BY <1>2, ActorsDiffer DEF Phases
<1>4. InTurn /\ Blank /\ AllCounted /\ TasksMatch
  BY <1>2, ActorsDiffer DEF InTurn, Coming, Blank, AllCounted, TasksMatch, Pending
<1>5. ASSUME NEW g \in Gpus PROVE Cardinality(HeldOn(g)) = 0
  <2>1. HeldOn(g) = {}
    BY <1>2, ActorsDiffer DEF HeldOn, Held, Leaving
  <2>. QED
    BY <2>1, FS_EmptySet
<1>6. CountsMatch
  BY <1>2, <1>5 DEF CountsMatch
<1>. QED
  BY <1>1, <1>3, <1>4, <1>6 DEF HistoryInv

LEMMA HistoryInvStep == HistoryInv /\ [HistoryNext]_historyVars => HistoryInv'
<1>. SUFFICES ASSUME HistoryInv, [HistoryNext]_historyVars PROVE HistoryInv'
  OBVIOUS
<1>. USE DEF HistoryInv
<1>1. CASE HistoryNext
  BY <1>1, InvStep, PhasesStep, InTurnStep, BlankStep, CountsStep, AllCountedStep, TasksStep
  DEF HistoryNext
<1>2. CASE UNCHANGED historyVars
  <2>1. Inv' /\ Phases' /\ Blank'
    BY <1>2, InvStep, PhasesStep, BlankStep DEF historyVars
  <2>2. InTurn' /\ AllCounted' /\ TasksMatch'
    BY <1>2 DEF historyVars, vars, ManagerVars, InTurn, AllCounted, Coming, Leaving, TasksMatch, Pending
  <2>3. \A g \in Gpus : HeldOn(g)' = HeldOn(g)
    BY <1>2 DEF historyVars, vars, HeldOn, Held, Coming, Leaving
  <2>4. CountsMatch'
    BY <1>2, <2>3 DEF historyVars, vars, ManagerVars, CountsMatch
  <2>. QED
    BY <2>1, <2>2, <2>4
<1>. QED
  BY <1>1, <1>2

\* In every interleaving of spawns, removals and reloads, and with any number of
\* managers, the reference count of a GPU is the number of instances on it, unless an
\* instance of that GPU was unlisted before it was counted, was caught between listing
\* and counting by a reload that replaced the manager, or was moved to another slot.
THEOREM CountsAreOccupancy == HistorySpec => []CountUnlessAstray
<1>1. HistoryInv => CountUnlessAstray
  <2>. SUFFICES ASSUME HistoryInv, Quiet, current # 0, NEW g \in Gpus \ astray
                PROVE  count[current][g] = Cardinality(Users(g))
    BY DEF CountUnlessAstray
  <2>1. pc[Reloader] = "idle" /\ todo = {}
    BY ActorsDiffer DEF Quiet, HistoryInv, Phases
  <2>2. \A i \in Instances : pc[Spawner(i)] \in {"idle", "done"} /\ pc[Remover(i)] \in {"idle", "done"}
    BY ActorsDiffer DEF Quiet
  <2>3. listed \subseteq Instances
    BY DEF HistoryInv, Inv, TypeOK
  <2>4. Users(g) = HeldOn(g)
    BY <2>1, <2>2, <2>3 DEF Users, HeldOn, Held, Coming, Leaving
  <2>. QED
    BY <2>1, <2>4 DEF HistoryInv, CountsMatch
<1>. QED
  BY HistoryInvInit, HistoryInvStep, <1>1, PTL DEF HistorySpec

\* Whatever overlaps, the manager in force has counted every listed instance: those
\* whose spawn task held a clone of the manager before it, too.
THEOREM ReloadForgetsNobody == HistorySpec => []EveryUserCounted
<1>1. HistoryInv => EveryUserCounted
  <2>. SUFFICES ASSUME HistoryInv, Quiet, current # 0, NEW i \in listed PROVE i \in counted
    BY DEF EveryUserCounted
  <2>1. pc[Reloader] = "idle" /\ todo = {} /\ i \in Instances
    BY ActorsDiffer DEF Quiet, HistoryInv, Phases, Inv, TypeOK
  <2>2. pc[Spawner(i)] \in {"idle", "done"}
    BY <2>1, ActorsDiffer DEF Quiet
  <2>. QED
    BY <2>1, <2>2 DEF HistoryInv, AllCounted, Coming
<1>. QED
  BY HistoryInvInit, HistoryInvStep, <1>1, PTL DEF HistorySpec

\* Whatever overlaps, the task of a GPU runs if and only if it has references, unless
\* two actors were between counting and starting or stopping the task of that GPU at
\* the same time.
THEOREM TasksFollowCounts == HistorySpec => []TaskUnlessTangled
<1>1. HistoryInv => TaskUnlessTangled
  <2>. SUFFICES ASSUME HistoryInv, Quiet, current # 0, NEW g \in Gpus \ tangled
                PROVE  g \in running[current] <=> count[current][g] > 0
    BY DEF TaskUnlessTangled
  <2>1. pc[Reloader] # "clear" /\ \A a \in Actors : ~Pending(a, g)
    BY ActorsDiffer DEF Quiet, Pending
  <2>. QED
    BY <2>1 DEF HistoryInv, TasksMatch
<1>. QED
  BY HistoryInvInit, HistoryInvStep, <1>1, PTL DEF HistorySpec
=============================================================================
