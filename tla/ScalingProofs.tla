----------------------------- MODULE ScalingProofs -----------------------------
(* Theorems about Scaling and its history, for any fleet, any requests and any number of turns. *)
EXTENDS ScalingHistory, GpuSelectProofs

Loading(m) == spawn[m] \in {"serial", "loading"}

\* The instances and the spawn tasks.
InstTypes ==
  /\ model \in [Instances -> Models \cup {None}]
  /\ state \in [Instances -> {"absent", "loading", "ready", "failed"}]
  /\ listed \subseteq Instances /\ child \subseteq Instances
  /\ spawn \in [Models -> {"idle", "wanted", "serial", "loading", "cleaning"}]
  /\ fresh \in [Models -> Instances \cup {None}]

-----------------------------------------------------------------------------
(* Three kinds of steps. *)

\* Most of them only take away: no spawn begins to load, no instance changes but
\* to Failed, and one that keeps its child only if it is busy.
TakesAway ==
  /\ InstTypes'
  /\ UNCHANGED <<model, devices>> /\ listed' \subseteq listed /\ child' \subseteq child
  /\ \A i \in Instances : state'[i] \in {state[i], "failed"}
  /\ \A i \in child' : state'[i] = state[i] \/ inFlight[i] > 0
  /\ \A m \in Models : Loading(m)' => Loading(m) /\ fresh'[m] = fresh[m]

Registers(m) == TrySpawn(m) /\ BelowCap(m) /\ spawn'[m] = "serial"

LEMMA RequestTakesAway ==
  ASSUME InstTypes, NEW r \in Requests, RequestStep(r) PROVE TakesAway
<1>. USE DEF InstTypes, Loading, TakesAway
<1>1. CASE UNCHANGED <<model, devices, state, listed, child, spawn, fresh>>
  BY <1>1
<1>2. CASE Consider(r)
  BY <1>2 DEF Consider, Take, fleetVars, spawnVars
<1>3. CASE ExecuteMakeRoom(r)
  <2>1. UNCHANGED <<model, devices, listed, fresh>>
    BY <1>3 DEF ExecuteMakeRoom, RemoveIfIdle, Drain, fleetVars
  <2>2. child' \subseteq child
    BY <1>3 DEF ExecuteMakeRoom, RemoveIfIdle, Drain, BeginRemoval, fleetVars
  <2>3. /\ state' \in [Instances -> {"absent", "loading", "ready", "failed"}]
        /\ \A i \in Instances : state'[i] \in {state[i], "failed"}
        /\ \A i \in child' : state'[i] = state[i] \/ inFlight[i] > 0
    BY <1>3 DEF ExecuteMakeRoom, RemoveIfIdle, Drain, BeginRemoval, fleetVars
  <2>4. spawn' \in [Models -> {"idle", "wanted", "serial", "loading", "cleaning"}]
        /\ \A m \in Models : Loading(m)' => Loading(m)
    BY <1>3 DEF ExecuteMakeRoom
  <2>. QED
    BY <2>1, <2>2, <2>3, <2>4
<1>. QED
  BY <1>1, <1>2, <1>3
  DEF RequestStep, PassA, SpawnWaited, PlanMakeRoom, AwaitDrained, Park, Served, GiveUp, Finish,
      Take, fleetVars, spawnVars

LEMMA RemovalTakesAway ==
  ASSUME InstTypes, NEW w, RemovalStep(w) PROVE TakesAway
<1>. USE DEF InstTypes, Loading, TakesAway
<1>1. CASE Terminate(w) \/ Unregister(w)
  BY <1>1 DEF Terminate, Unregister, spawnVars
<1>2. CASE ReapNext(w)
  <2>. PICK i \in todo[w] : Reap(w, i)
    BY <1>2 DEF ReapNext
  <2>. QED
    BY <1>2 DEF ReapNext, Reap, BeginRemoval, spawnVars
<1>. QED
  BY <1>1, <1>2 DEF RemovalStep

LEMMA SpawnKind ==
  ASSUME InstTypes, NEW m \in Models, SpawnStep(m)
  PROVE  TakesAway \/ Registers(m) \/ SpawnReady(m)
<1>. USE DEF InstTypes, Loading, TakesAway, SpawnEnds
<1>1. CASE TrySpawn(m)
  BY <1>1 DEF TrySpawn, Registers
<1>2. CASE SpawnRefused(m) \/ SerialWindowEnds(m) \/ SpawnCleaned(m)
  BY <1>2 DEF SpawnRefused, SerialWindowEnds, SpawnCleaned, fleetVars
<1>3. CASE SpawnFails(m)
  BY <1>3 DEF SpawnFails, BeginRemoval
<1>. QED
  BY <1>1, <1>2, <1>3 DEF SpawnStep

LEMMA AutoscalerTakesAway ==
  ASSUME InstTypes, AutoscalerStep PROVE TakesAway
<1>. USE DEF InstTypes, Loading, TakesAway
<1>1. CASE ShrinkNext
  BY <1>1 DEF ShrinkNext, RemoveIfIdle, BeginRemoval, fleetVars, spawnVars
<1>2. CASE ScaleUp
  BY <1>2 DEF ScaleUp, fleetVars
<1>3. CASE UNCHANGED <<model, devices, state, listed, child, spawn, fresh>>
  BY <1>3
<1>. QED
  BY <1>1, <1>2, <1>3 DEF AutoscalerStep, NextModel, Leave, Shrink, ShrinkEnds, fleetVars, spawnVars

LEMMA StepKind ==
  ASSUME InstTypes, [Next]_vars
  PROVE  TakesAway \/ \E m \in Models : Registers(m) \/ SpawnReady(m)
<1>1. CASE HandleRelease \/ UNCHANGED vars
  BY <1>1 DEF HandleRelease, vars, fleetVars, spawnVars, InstTypes, Loading, TakesAway
<1>. QED
  BY <1>1, RequestTakesAway, RemovalTakesAway, SpawnKind, AutoscalerTakesAway DEF Next, AllDone

-----------------------------------------------------------------------------
(* The cap. *)

\* What is registered has been spawned, and a spawn that loads has spawned an
\* instance of its model.
Spawned ==
  /\ \A i \in listed \cup child : state[i] # "absent"
  /\ \A m \in Models :
       Loading(m) => fresh[m] \in Instances /\ model[fresh[m]] = m /\ state[fresh[m]] # "absent"

\* An instance that loads counts even if it has failed: it may become Ready.
Counted(m) == Active(m) \cup {i \in listed : Loading(m) /\ i = fresh[m]}

WithinCap == \A m \in Models : Cardinality(Counted(m)) <= Config[m].maxInstances

CapInv == InstTypes /\ Spawned /\ WithinCap

LEMMA ActiveIsFinite ==
  ASSUME InstTypes, NEW m PROVE IsFiniteSet(Active(m)) /\ IsFiniteSet(Counted(m))
<1>. Active(m) \subseteq Instances /\ Counted(m) \subseteq Instances
  BY DEF InstTypes, Active, Of, Counted
<1>. QED
  BY FS_Subset, ScalingAssumption

\* What a registration does.
Spawns(m, i) ==
  /\ state[i] = "absent"
  /\ model' = [model EXCEPT ![i] = m]
  /\ state' = [state EXCEPT ![i] = "loading"]
  /\ Placeable(View, FleetWithout({}), m)
  /\ devices' = [devices EXCEPT ![i] = SelectGpus(View, FleetWithout({}), m)]
  /\ listed' = listed \cup {i} /\ child' = child \cup {i} /\ alive' = alive \cup {i}
  /\ fresh' = [fresh EXCEPT ![m] = i]
  /\ spawn[m] = "wanted" /\ spawn' = [spawn EXCEPT ![m] = "serial"]
  /\ InstTypes'

LEMMA RegistersSpawns ==
  ASSUME InstTypes, NEW m \in Models, Registers(m) PROVE \E i \in Instances : Spawns(m, i)
<1>1. spawn[m] = "wanted" /\ spawn'[m] # "idle"
  BY DEF Registers, TrySpawn
<1>2. ~SpawnEnds(m)
  BY <1>1 DEF SpawnEnds, InstTypes
<1>3. PICK i \in Instances :
        /\ state[i] = "absent"
        /\ model' = [model EXCEPT ![i] = m]
        /\ state' = [state EXCEPT ![i] = "loading"]
        /\ Placeable(View, FleetWithout({}), m)
        /\ devices' = [devices EXCEPT ![i] = SelectGpus(View, FleetWithout({}), m)]
        /\ listed' = listed \cup {i} /\ child' = child \cup {i} /\ alive' = alive \cup {i}
        /\ fresh' = [fresh EXCEPT ![m] = i]
        /\ spawn' = [spawn EXCEPT ![m] = "serial"]
  BY <1>2 DEF Registers, TrySpawn
<1>4. InstTypes'
  BY <1>3 DEF InstTypes
<1>. QED
  BY <1>1, <1>3, <1>4 DEF Spawns

LEMMA ReadyTypes ==
  ASSUME InstTypes, NEW m \in Models, SpawnReady(m) PROVE InstTypes'
BY DEF InstTypes, SpawnReady, SpawnEnds

LEMMA SpawnedStep ==
  ASSUME InstTypes, Spawned, [Next]_vars PROVE InstTypes' /\ Spawned'
<1>. USE DEF Spawned
<1>1. CASE TakesAway
  BY <1>1 DEF TakesAway, InstTypes
<1>2. ASSUME NEW m \in Models, Registers(m) PROVE InstTypes' /\ Spawned'
  <2>. PICK i \in Instances : Spawns(m, i)
    BY <1>2, RegistersSpawns
  <2>. QED
    BY DEF Spawns, InstTypes, Loading
<1>3. ASSUME NEW m \in Models, SpawnReady(m) PROVE InstTypes' /\ Spawned'
  <2>1. InstTypes'
    BY <1>3, ReadyTypes
  <2>. QED
    BY <1>3, <2>1 DEF SpawnReady, SpawnEnds, InstTypes, Loading
<1>. QED
  BY <1>1, <1>2, <1>3, StepKind

LEMMA CapStep ==
  ASSUME CapInv, [Next]_vars PROVE CapInv'
<1>. InstTypes /\ Spawned /\ InstTypes' /\ Spawned'
  BY SpawnedStep DEF CapInv
<1>1. ASSUME NEW n \in Models, Counted(n)' \subseteq Counted(n)
      PROVE  Cardinality(Counted(n)') <= Config[n].maxInstances
  <2>1. IsFiniteSet(Counted(n))
    BY ActiveIsFinite
  <2>2. /\ Cardinality(Counted(n)') <= Cardinality(Counted(n))
        /\ Cardinality(Counted(n)') \in Nat /\ Cardinality(Counted(n)) \in Nat
    BY <1>1, <2>1, FS_Subset, FS_CardinalityType
  <2>. QED
    BY <2>2, ScalingAssumption DEF CapInv, WithinCap
<1>2. CASE TakesAway
  <2>. SUFFICES ASSUME NEW n \in Models PROVE Counted(n)' \subseteq Counted(n)
    BY <1>1 DEF CapInv, WithinCap
  <2>. QED
    BY <1>2 DEF TakesAway, InstTypes, Counted, Active, Of
<1>3. ASSUME NEW m \in Models, Registers(m) PROVE CapInv'
  <2>. PICK i \in Instances : Spawns(m, i)
    BY <1>3, RegistersSpawns
  <2>1. i \notin listed
    BY DEF Spawns, Spawned
  <2>2. Counted(m)' \subseteq Active(m) \cup {i}
    BY <2>1 DEF Counted, Active, Of, Spawns, InstTypes
  <2>3. Cardinality(Counted(m)') <= Config[m].maxInstances
    <3>1. Cardinality(Active(m)) < Config[m].maxInstances
      BY <1>3 DEF Registers, BelowCap
    <3>2. i \notin Active(m)
      BY <2>1 DEF Active, Of
    <3>3. /\ IsFiniteSet(Active(m) \cup {i})
          /\ Cardinality(Active(m) \cup {i}) = Cardinality(Active(m)) + 1
          /\ Cardinality(Active(m)) \in Nat
      BY <3>2, ActiveIsFinite, FS_AddElement, FS_CardinalityType
    <3>4. Cardinality(Counted(m)') <= Cardinality(Active(m) \cup {i})
          /\ Cardinality(Counted(m)') \in Nat
      BY <2>2, <3>3, FS_Subset, FS_CardinalityType
    <3>. QED
      BY <3>1, <3>3, <3>4, ScalingAssumption
  <2>4. ASSUME NEW n \in Models, n # m PROVE Cardinality(Counted(n)') <= Config[n].maxInstances
    <3>1. Counted(n)' \subseteq Counted(n)
      BY <2>1, <2>4 DEF Counted, Active, Of, Spawns, InstTypes, Spawned, Loading
    <3>. QED
      BY <3>1, <1>1
  <2>. QED
    BY <2>3, <2>4 DEF CapInv, WithinCap
<1>4. ASSUME NEW m \in Models, SpawnReady(m) PROVE CapInv'
  <2>. SUFFICES ASSUME NEW n \in Models PROVE Counted(n)' \subseteq Counted(n)
    BY <1>1 DEF CapInv, WithinCap
  <2>1. Loading(m) /\ state' = [state EXCEPT ![fresh[m]] = "ready"]
        /\ UNCHANGED <<model, listed>>
        /\ (Loading(n)' => Loading(n) /\ fresh'[n] = fresh[n])
    BY <1>4 DEF SpawnReady, SpawnEnds, Loading, InstTypes
  <2>. QED
    BY <2>1 DEF Counted, Active, Of, Spawned, InstTypes
<1>. QED
  BY <1>2, <1>3, <1>4, StepKind DEF CapInv

\* No model has more routable instances than it may, in every interleaving of
\* spawns, evictions, reaping and the autoscaler, and although an instance that is
\* being removed while it loads may become Ready again.
THEOREM CapsHold == Spec => []CapRespected
<1>1. Init => CapInv
  <2>. SUFFICES ASSUME Init PROVE CapInv
    OBVIOUS
  <2>1. InstTypes /\ Spawned
    BY DEF Init, FleetInit, InstTypes, Spawned, Loading
  <2>2. ASSUME NEW m \in Models PROVE Cardinality(Counted(m)) <= Config[m].maxInstances
    <3>1. Counted(m) = {}
      BY DEF Init, FleetInit, Counted, Active, Of
    <3>. QED
      BY <3>1, FS_EmptySet, ScalingAssumption
  <2>. QED
    BY <2>1, <2>2 DEF CapInv, WithinCap
<1>2. CapInv /\ [Next]_vars => CapInv'
  BY CapStep
<1>3. CapInv => CapRespected
  <2>. SUFFICES ASSUME CapInv, NEW m \in Models
       PROVE  Cardinality(Active(m)) <= Config[m].maxInstances
    BY DEF CapRespected
  <2>1. IsFiniteSet(Counted(m)) /\ Active(m) \subseteq Counted(m)
    BY ActiveIsFinite DEF CapInv, Counted
  <2>2. /\ Cardinality(Active(m)) <= Cardinality(Counted(m))
        /\ Cardinality(Active(m)) \in Nat /\ Cardinality(Counted(m)) \in Nat
    BY <2>1, FS_Subset, FS_CardinalityType
  <2>. QED
    BY <2>2, ScalingAssumption DEF CapInv, WithinCap
<1>. QED
  BY <1>1, <1>2, <1>3, PTL DEF Spec

-----------------------------------------------------------------------------
(* What is shut down is idle, or came back. *)

WorkTypes ==
  /\ pc \in [Requests -> PCs]
  /\ slot \in [Requests -> Instances \cup {None}]
  /\ inFlight \in [Instances -> Int]
  /\ todo \in [Workers -> SUBSET Instances]

HandTypes ==
  /\ hand = [w \in Workers |-> hand[w]]
  /\ \A w \in Workers : DOMAIN hand[w] = {"inst", "took"}

\* Who is served has a slot, and the counters count the slots.
HeldBy(i) == {r \in Requests : slot[r] = i}

SlotsCounted ==
  /\ \A r \in Requests : slot[r] # None <=> pc[r] = "serving"
  /\ \A i \in Instances : inFlight[i] = Cardinality(HeldBy(i))

\* Nobody is served by an instance that has not been Ready; and while it loads, an
\* instance that is Failed is somebody else's to remove.
LoadingIdle ==
  /\ \A i \in Instances : state[i] = "absent" => inFlight[i] = 0
  /\ \A m \in Models :
       Loading(m) =>
         /\ inFlight[fresh[m]] = 0
         /\ state[fresh[m]] \in {"loading", "failed"}
         /\ fresh[m] \in child => state[fresh[m]] = "loading"

\* What is listed to be reaped stays Failed and idle, unless another has taken the
\* child.  What the autoscaler lists to shrink by has yet to be looked at.
Shrinks(w) == w = Autoscaler /\ shrinking

ReapableIdle ==
  \A w \in Workers : \A i \in todo[w] :
    /\ state[i] # "absent"
    /\ i \in child /\ ~Shrinks(w) => state[i] = "failed" /\ inFlight[i] = 0

IdleInv == InstTypes /\ Spawned /\ WorkTypes /\ HandTypes /\ SlotsCounted /\ LoadingIdle /\ ReapableIdle

-----------------------------------------------------------------------------
\* Who takes a slot takes one of a Ready instance, and nothing else changes.
Takes(r, i) ==
  /\ i \in listed /\ state[i] = "ready" /\ pc[r] # "serving"
  /\ Take(r, i)
  /\ UNCHANGED <<spawn, fresh, shrinking, todo, hand>>

LEMMA WarmIsReady == \A m : \A i \in Warm(m) : i \in listed /\ state[i] = "ready"
BY DEF Warm, Of

NoSlotMoves ==
  /\ UNCHANGED <<inFlight, slot>>
  /\ pc' \in [Requests -> PCs]
  /\ \A r \in Requests : pc'[r] = "serving" <=> pc[r] = "serving"

LEMMA RequestMoves ==
  ASSUME WorkTypes, NEW r \in Requests, RequestStep(r)
  PROVE  NoSlotMoves \/ Finish(r) \/ \E i \in listed : Takes(r, i)
<1>. USE DEF WorkTypes, PCs, Goto, spawnVars, removalVars, scaleVars
<1>1. ASSUME NEW m, NEW i \in Warm(m), Take(r, i), pc[r] # "serving",
             UNCHANGED <<spawn, fresh, shrinking, todo, hand>>
      PROVE  \E j \in listed : Takes(r, j)
  BY <1>1, WarmIsReady DEF Takes
<1>2. CASE PassA(r)
  BY <1>1, <1>2 DEF PassA, fleetVars, NoSlotMoves
<1>3. CASE Consider(r)
  <2>1. ASSUME NEW i \in Warm(Target(r)), Take(r, i), UNCHANGED <<plan, spawn>>
        PROVE  \E j \in listed : Takes(r, j)
    BY <1>1, <1>3, <2>1 DEF Consider
  <2>2. UNCHANGED <<inFlight, slot>> /\ pc[r] = "consider"
        /\ (Goto(r, "waiting") \/ Goto(r, "plan") \/ Advance(r)) => NoSlotMoves
    BY DEF Advance, NoSlotMoves
  <2>. QED
    BY <1>3, <2>1, <2>2 DEF Consider, fleetVars
<1>4. CASE SpawnWaited(r)
  BY <1>1, <1>4 DEF SpawnWaited, fleetVars, NoSlotMoves, Advance
<1>5. CASE Served(r)
  BY <1>1, <1>5 DEF Served
<1>6. CASE PlanMakeRoom(r) \/ AwaitDrained(r) \/ Park(r) \/ GiveUp(r)
  BY <1>6 DEF PlanMakeRoom, AwaitDrained, Park, GiveUp, Advance, fleetVars, NoSlotMoves
<1>7. CASE ExecuteMakeRoom(r)
  BY <1>7 DEF ExecuteMakeRoom, RemoveIfIdle, Drain, fleetVars, NoSlotMoves
<1>. QED
  BY <1>2, <1>3, <1>4, <1>5, <1>6, <1>7 DEF RequestStep

LEMMA SlotMoves ==
  ASSUME WorkTypes, [Next]_vars
  PROVE  NoSlotMoves \/ \E r \in Requests : Finish(r) \/ \E i \in listed : Takes(r, i)
<1>1. CASE UNCHANGED <<inFlight, slot, pc>>
  BY <1>1 DEF NoSlotMoves, WorkTypes
<1>2. CASE \E r \in Requests : RequestStep(r)
  BY <1>2, RequestMoves
<1>3. CASE ~\E r \in Requests : RequestStep(r)
  <2>1. UNCHANGED <<inFlight, slot, pc>>
    BY <1>3 DEF Next, RemovalStep, Terminate, Unregister, ReapNext, Reap, SpawnStep, TrySpawn,
       SpawnRefused, SerialWindowEnds, SpawnReady, SpawnFails, SpawnCleaned, HandleRelease,
       AutoscalerStep, NextModel, Leave, ScaleUp, Shrink, ShrinkNext, ShrinkEnds, RemoveIfIdle,
       AllDone, fleetVars, requestVars, vars
  <2>. QED
    BY <1>1, <2>1
<1>. QED
  BY <1>2, <1>3

LEMMA SlotsStep ==
  ASSUME InstTypes, WorkTypes, SlotsCounted, [Next]_vars
  PROVE  /\ pc' \in [Requests -> PCs] /\ slot' \in [Requests -> Instances \cup {None}]
         /\ inFlight' \in [Instances -> Int]
         /\ SlotsCounted'
<1>. USE ScalingAssumption DEF WorkTypes, SlotsCounted
<1>1. ASSUME NEW i PROVE IsFiniteSet(HeldBy(i)) /\ Cardinality(HeldBy(i)) \in Nat
  BY FS_Subset, FS_CardinalityType DEF HeldBy
<1>2. CASE NoSlotMoves
  BY <1>2 DEF NoSlotMoves, HeldBy
<1>3. ASSUME NEW r \in Requests, NEW i \in listed, i \in Instances, Takes(r, i)
      PROVE  /\ pc' \in [Requests -> PCs] /\ slot' \in [Requests -> Instances \cup {None}]
             /\ inFlight' \in [Instances -> Int]
             /\ SlotsCounted'
  <2>1. /\ pc[r] # "serving" /\ slot[r] = None
        /\ pc' = [pc EXCEPT ![r] = "serving"] /\ slot' = [slot EXCEPT ![r] = i]
        /\ inFlight' = [inFlight EXCEPT ![i] = @ + 1]
    BY <1>3 DEF Takes, Take, Goto
  <2>2. /\ pc' \in [Requests -> PCs] /\ slot' \in [Requests -> Instances \cup {None}]
        /\ inFlight' \in [Instances -> Int]
    BY <1>3, <2>1 DEF PCs
  <2>3. HeldBy(i)' = HeldBy(i) \cup {r} /\ r \notin HeldBy(i)
    BY <1>3, <2>1 DEF HeldBy
  <2>4. ASSUME NEW j \in Instances, j # i PROVE HeldBy(j)' = HeldBy(j)
    BY <1>3, <2>1, <2>4 DEF HeldBy
  <2>5. Cardinality(HeldBy(i)') = Cardinality(HeldBy(i)) + 1
    <3>1. IsFiniteSet(HeldBy(i))
      BY <1>1
    <3>2. Cardinality(HeldBy(i) \cup {r}) = Cardinality(HeldBy(i)) + 1
      BY <2>3, <3>1, FS_AddElement
    <3>. QED
      BY <2>3, <3>2
  <2>6. ASSUME NEW j \in Instances PROVE inFlight'[j] = Cardinality(HeldBy(j)')
    BY <1>3, <2>1, <2>4, <2>5
  <2>7. \A q \in Requests : slot'[q] # None <=> pc'[q] = "serving"
    BY <1>3, <2>1
  <2>. QED
    BY <2>2, <2>6, <2>7
<1>4. ASSUME NEW r \in Requests, Finish(r)
      PROVE  /\ pc' \in [Requests -> PCs] /\ slot' \in [Requests -> Instances \cup {None}]
             /\ inFlight' \in [Instances -> Int]
             /\ SlotsCounted'
  <2>. PICK i \in Instances : i = slot[r]
    BY <1>4 DEF Finish
  <2>1. /\ pc' = [pc EXCEPT ![r] = "done"] /\ slot' = [slot EXCEPT ![r] = None]
        /\ inFlight' = [inFlight EXCEPT ![i] = @ - 1]
    BY <1>4 DEF Finish, ReleaseSlot, Goto
  <2>2. /\ pc' \in [Requests -> PCs] /\ slot' \in [Requests -> Instances \cup {None}]
        /\ inFlight' \in [Instances -> Int]
    BY <2>1 DEF PCs
  <2>3. HeldBy(i)' = HeldBy(i) \ {r} /\ r \in HeldBy(i)
    BY <2>1 DEF HeldBy
  <2>4. ASSUME NEW j \in Instances, j # i PROVE HeldBy(j)' = HeldBy(j)
    BY <2>1, <2>4 DEF HeldBy
  <2>5. Cardinality(HeldBy(i)') = Cardinality(HeldBy(i)) - 1
    <3>1. IsFiniteSet(HeldBy(i))
      BY <1>1
    <3>2. Cardinality(HeldBy(i) \ {r}) = Cardinality(HeldBy(i)) - 1
      BY <2>3, <3>1, FS_RemoveElement
    <3>. QED
      BY <2>3, <3>2
  <2>6. ASSUME NEW j \in Instances PROVE inFlight'[j] = Cardinality(HeldBy(j)')
    BY <2>1, <2>4, <2>5
  <2>7. \A q \in Requests : slot'[q] # None <=> pc'[q] = "serving"
    BY <2>1
  <2>. QED
    BY <2>2, <2>6, <2>7
<1>. QED
  BY <1>2, <1>3, <1>4, SlotMoves DEF InstTypes

-----------------------------------------------------------------------------
\* A list grows by what is drained, or by what the autoscaler may shrink by.
TodoMoves ==
  /\ todo' \in [Workers -> SUBSET Instances]
  /\ \A w \in Workers : \A i \in todo'[w] :
       \/ i \in todo[w] /\ (Shrinks(w) => Shrinks(w)')
       \/ /\ UNCHANGED <<state, inFlight>>
          /\ i \in listed /\ (Shrinks(w)' \/ (state[i] = "failed" /\ inFlight[i] = 0))

LEMMA TodoStep ==
  ASSUME InstTypes, WorkTypes, [Next]_vars PROVE TodoMoves
<1>. USE DEF InstTypes, WorkTypes, TodoMoves, Shrinks, Workers
<1>0. ASSUME NEW m PROVE \A i \in Drained(m) : i \in listed /\ state[i] = "failed" /\ inFlight[i] = 0
  BY DEF Drained, Of
<1>1. CASE UNCHANGED <<todo, shrinking>>
  BY <1>1
<1>2. ASSUME NEW w \in Workers, NEW m, UNCHANGED <<fleetVars, shrinking>>,
             todo' = [todo EXCEPT ![w] = Drained(m)]
      PROVE  TodoMoves
  BY <1>0, <1>2 DEF fleetVars
<1>3. CASE HandleRelease
  BY <1>2, <1>3 DEF HandleRelease, scaleVars
<1>4. ASSUME NEW r \in Requests, AwaitDrained(r) PROVE TodoMoves
  BY <1>1, <1>2, <1>4 DEF AwaitDrained, scaleVars
<1>5. ASSUME NEW w \in Workers, ReapNext(w) PROVE TodoMoves
  BY <1>5 DEF ReapNext, scaleVars
<1>6. CASE NextModel
  BY <1>2, <1>6 DEF NextModel
<1>7. CASE Shrink
  <2>1. PICK set \in SUBSET listed : todo' = [todo EXCEPT ![Autoscaler] = set]
    BY <1>7 DEF Shrink, Of
  <2>2. shrinking' /\ UNCHANGED fleetVars
    BY <1>7 DEF Shrink
  <2>3. todo' \in [Workers -> SUBSET Instances]
    BY <2>1
  <2>4. ~shrinking
    BY <1>7 DEF Shrink, Reaped
  <2>5. ASSUME NEW w \in Workers, NEW i \in todo'[w]
        PROVE  \/ i \in todo[w] /\ (Shrinks(w) => Shrinks(w)')
               \/ /\ UNCHANGED <<state, inFlight>>
                  /\ i \in listed /\ (Shrinks(w)' \/ (state[i] = "failed" /\ inFlight[i] = 0))
    <3>1. CASE w = Autoscaler
      <4>1. i \in listed
        BY <2>1, <2>5, <3>1
      <4>2. Shrinks(w)'
        BY <2>2, <3>1, Zenon
      <4>3. UNCHANGED <<state, inFlight>>
        BY <2>2 DEF fleetVars
      <4>. HIDE DEF Shrinks
      <4>. QED
        BY <4>1, <4>2, <4>3
    <3>2. CASE w # Autoscaler
      BY <2>1, <2>5, <3>2
    <3>. QED
      BY <3>1, <3>2
  <2>. HIDE DEF Shrinks
  <2>. QED
    BY <2>3, <2>5
<1>8. CASE ShrinkNext
  BY <1>8 DEF ShrinkNext
<1>9. CASE ShrinkEnds
  BY <1>9 DEF ShrinkEnds
<1>. QED
  BY <1>1, <1>3, <1>4, <1>5, <1>6, <1>7, <1>8, <1>9
  DEF Next, RequestStep, PassA, Consider, SpawnWaited, PlanMakeRoom, ExecuteMakeRoom, Park, Served,
      GiveUp, Finish, RemovalStep, Terminate, Unregister, SpawnStep, TrySpawn, SpawnRefused,
      SerialWindowEnds, SpawnReady, SpawnFails, SpawnCleaned, AutoscalerStep, Leave, ScaleUp, Turned,
      AllDone, scaleVars, removalVars, vars

-----------------------------------------------------------------------------
\* A slot that is given back has been counted.
LEMMA HolderCounts ==
  ASSUME WorkTypes, SlotsCounted, NEW r \in Requests, pc[r] = "serving"
  PROVE  slot[r] \in Instances /\ inFlight[slot[r]] # 0
<1>1. slot[r] \in Instances /\ r \in HeldBy(slot[r])
  BY DEF WorkTypes, SlotsCounted, HeldBy
<1>2. IsFiniteSet(HeldBy(slot[r]))
  BY FS_Subset, ScalingAssumption DEF HeldBy
<1>3. Cardinality(HeldBy(slot[r])) # 0
  BY <1>1, <1>2, FS_EmptySet
<1>. QED
  BY <1>1, <1>3 DEF SlotsCounted

LEMMA LoadingIdleStep ==
  ASSUME InstTypes, Spawned, WorkTypes, SlotsCounted, LoadingIdle, [Next]_vars
  PROVE  LoadingIdle'
<1>. USE DEF InstTypes, Spawned, WorkTypes, LoadingIdle
<1>1. ASSUME NEW r \in Requests, NEW i \in listed, Takes(r, i) PROVE LoadingIdle'
  <2>1. UNCHANGED <<state, child, spawn, fresh>> /\ inFlight' = [inFlight EXCEPT ![i] = @ + 1]
        /\ state[i] = "ready"
    BY <1>1 DEF Takes, Take
  <2>. QED
    BY <2>1 DEF Loading
<1>2. ASSUME NEW r \in Requests, Finish(r) PROVE LoadingIdle'
  <2>1. UNCHANGED <<state, child, spawn, fresh>>
        /\ inFlight' = [inFlight EXCEPT ![slot[r]] = @ - 1]
    BY <1>2 DEF Finish, ReleaseSlot, spawnVars
  <2>2. slot[r] \in Instances /\ inFlight[slot[r]] # 0
    BY <1>2, HolderCounts DEF Finish
  <2>. QED
    BY <2>1, <2>2 DEF Loading
<1>3. CASE UNCHANGED inFlight /\ TakesAway
  BY <1>3 DEF TakesAway
<1>4. ASSUME NEW m \in Models, Registers(m), UNCHANGED inFlight PROVE LoadingIdle'
  <2>. PICK i \in Instances : Spawns(m, i)
    BY <1>4, RegistersSpawns
  <2>. QED
    BY <1>4 DEF Spawns, Loading
<1>5. ASSUME NEW m \in Models, SpawnReady(m), UNCHANGED inFlight PROVE LoadingIdle'
  BY <1>5 DEF SpawnReady, SpawnEnds, Loading
<1>. QED
  BY <1>1, <1>2, <1>3, <1>4, <1>5, SlotMoves, StepKind DEF NoSlotMoves

LEMMA ReapableStep ==
  ASSUME InstTypes, Spawned, WorkTypes, SlotsCounted, LoadingIdle, ReapableIdle, [Next]_vars
  PROVE  ReapableIdle'
<1>. SUFFICES ASSUME NEW w \in Workers, NEW i \in todo'[w]
     PROVE  /\ state'[i] # "absent"
            /\ i \in child' /\ ~Shrinks(w)' => state'[i] = "failed" /\ inFlight'[i] = 0
  BY DEF ReapableIdle
<1>. TodoMoves /\ i \in Instances
  BY TodoStep DEF TodoMoves
<1>1. CASE /\ UNCHANGED <<state, inFlight>>
           /\ i \in listed /\ (Shrinks(w)' \/ (state[i] = "failed" /\ inFlight[i] = 0))
  BY <1>1 DEF Spawned
<1>2. CASE i \in todo[w] /\ (Shrinks(w) => Shrinks(w)')
  <2>1. state[i] # "absent"
        /\ (i \in child /\ ~Shrinks(w)' => state[i] = "failed" /\ inFlight[i] = 0)
    BY <1>2 DEF ReapableIdle
  <2>2. CASE TakesAway /\ NoSlotMoves
    BY <2>1, <2>2 DEF TakesAway, NoSlotMoves, InstTypes
  <2>3. ASSUME NEW m \in Models, Registers(m), NoSlotMoves
        PROVE  state'[i] = state[i] /\ (i \in child' => i \in child) /\ inFlight'[i] = inFlight[i]
    <3>1. PICK j \in Instances : state[j] = "absent" /\ state' = [state EXCEPT ![j] = "loading"]
                                 /\ child' = child \cup {j}
      BY <2>3, RegistersSpawns DEF Spawns
    <3>. QED
      BY <2>1, <2>3, <3>1 DEF NoSlotMoves, InstTypes
  <2>4. ASSUME NEW m \in Models, SpawnReady(m), NoSlotMoves
        PROVE  /\ state'[i] # "absent" /\ inFlight'[i] = inFlight[i]
               /\ i \in child' => i \in child /\ (state[i] = "failed" => state'[i] = "failed")
    BY <2>1, <2>4 DEF SpawnReady, Loading, LoadingIdle, NoSlotMoves, InstTypes
  <2>5. ASSUME NEW r \in Requests, NEW j \in listed, Takes(r, j)
        PROVE  UNCHANGED <<state, child>> /\ (state[i] = "failed" => inFlight'[i] = inFlight[i])
    BY <2>5 DEF Takes, Take, WorkTypes
  <2>6. ASSUME NEW r \in Requests, Finish(r)
        PROVE  UNCHANGED <<state, child>> /\ (inFlight[i] = 0 => inFlight'[i] = 0)
    BY <2>6, HolderCounts DEF Finish, ReleaseSlot, WorkTypes
  <2>. QED
    BY <2>1, <2>2, <2>3, <2>4, <2>5, <2>6, SlotMoves, StepKind
<1>. QED
  BY <1>1, <1>2 DEF TodoMoves

-----------------------------------------------------------------------------
LEMMA HandTypesStep ==
  ASSUME HandTypes, [Next]_vars PROVE HandTypes'
<1>. USE DEF HandTypes, Workers
<1>1. ASSUME NEW w \in Workers, NEW i, BeginRemoval(w, i) PROVE HandTypes'
  BY <1>1 DEF BeginRemoval
<1>2. CASE UNCHANGED hand
  BY <1>2
<1>3. ASSUME NEW w \in Workers, RemovalStep(w) PROVE HandTypes'
  <2>1. CASE Terminate(w)
    BY <2>1 DEF Terminate
  <2>2. CASE Unregister(w)
    BY <2>2 DEF Unregister, Nothing
  <2>3. CASE ReapNext(w)
    BY <1>1, <2>3 DEF ReapNext, Reap
  <2>. QED
    BY <1>3, <2>1, <2>2, <2>3 DEF RemovalStep
<1>4. ASSUME NEW m \in Models, SpawnFails(m) PROVE HandTypes'
  BY <1>1, <1>4 DEF SpawnFails
<1>5. CASE ShrinkNext
  BY <1>1, <1>2, <1>5 DEF ShrinkNext, RemoveIfIdle
<1>6. ASSUME NEW r \in Requests, ExecuteMakeRoom(r) PROVE HandTypes'
  BY <1>1, <1>2, <1>6 DEF ExecuteMakeRoom, RemoveIfIdle, Drain
<1>. QED
  BY <1>2, <1>3, <1>4, <1>5, <1>6
  DEF Next, RequestStep, PassA, Consider, SpawnWaited, PlanMakeRoom, AwaitDrained, Park, Served,
      GiveUp, Finish, SpawnStep, TrySpawn, SpawnRefused, SerialWindowEnds, SpawnReady, SpawnCleaned,
      HandleRelease, AutoscalerStep, NextModel, Leave, ScaleUp, Shrink, ShrinkEnds, AllDone,
      removalVars, vars

LEMMA IdleStep ==
  ASSUME IdleInv, [Next]_vars PROVE IdleInv'
<1>. USE DEF IdleInv
<1>1. InstTypes' /\ Spawned'
  BY SpawnedStep
<1>2. WorkTypes' /\ SlotsCounted'
  BY SlotsStep, TodoStep DEF WorkTypes, TodoMoves
<1>3. HandTypes' /\ LoadingIdle' /\ ReapableIdle'
  BY HandTypesStep, LoadingIdleStep, ReapableStep
<1>. QED
  BY <1>1, <1>2, <1>3

\* A worker takes the child of an idle instance.
TakesIdle(w) ==
  LET i == hand'[w].inst
  IN i \in Instances /\ inFlight[i] = 0 /\ inFlight'[i] = 0 /\ state'[i] = "failed"

LEMMA TakenIsIdle ==
  ASSUME IdleInv, [Next]_vars, NEW w \in Workers, hand'[w].took
  PROVE  hand'[w] = hand[w] \/ TakesIdle(w)
<1>. USE DEF Workers
<1>0. HandTypes /\ InstTypes
  BY DEF IdleInv
<1>1. ASSUME NEW v, NEW i, BeginRemoval(v, i), hand'[w] # hand[w]
      PROVE  v = w /\ hand'[w].inst = i /\ i \in child /\ i \in Instances /\ state'[i] = "failed"
  <2>1. hand' = [hand EXCEPT ![v] = [inst |-> i, took |-> i \in child]]
    BY <1>1 DEF BeginRemoval
  <2>2. v = w
    BY <1>0, <1>1, <2>1 DEF HandTypes
  <2>3. hand'[w] = [inst |-> i, took |-> i \in child]
    BY <1>0, <2>1, <2>2 DEF HandTypes
  <2>4. ASSUME i \notin child PROVE FALSE
    <3>1. (i \in child) = FALSE
      BY <2>4
    <3>2. hand'[w] = [inst |-> i, took |-> FALSE]
      BY <2>3, <3>1
    <3>. QED
      BY <3>2
  <2>5. hand'[w].inst = i
    BY <2>3
  <2>6. i \in Instances
    BY <1>0, <2>4 DEF InstTypes
  <2>7. state' = [state EXCEPT ![i] = "failed"]
    BY <1>1 DEF BeginRemoval
  <2>8. state'[i] = "failed"
    BY <1>0, <2>6, <2>7 DEF InstTypes
  <2>. QED
    BY <2>2, <2>4, <2>5, <2>6, <2>8
<1>2. ASSUME UNCHANGED hand PROVE hand'[w] = hand[w] \/ TakesIdle(w)
  BY <1>2
<1>3. ASSUME NEW v \in Workers, RemovalStep(v)
      PROVE  hand'[w] = hand[w] \/ TakesIdle(w)
  <2>1. CASE Terminate(v)
    <3>1. hand' = [hand EXCEPT ![v].took = FALSE]
      BY <2>1 DEF Terminate
    <3>2. CASE v = w
      BY <1>0, <3>1, <3>2 DEF HandTypes
    <3>3. CASE v # w
      BY <1>0, <3>1, <3>3 DEF HandTypes
    <3>. QED
      BY <3>2, <3>3
  <2>2. CASE Unregister(v)
    <3>1. hand' = [hand EXCEPT ![v] = [inst |-> None, took |-> FALSE]]
      BY <2>2 DEF Unregister, Nothing
    <3>2. CASE v = w
      BY <1>0, <3>1, <3>2 DEF HandTypes
    <3>3. CASE v # w
      BY <1>0, <3>1, <3>3 DEF HandTypes
    <3>. QED
      BY <3>2, <3>3
  <2>3. CASE ReapNext(v)
    <3>1. PICK i \in todo[v] : Reap(v, i) /\ ~Shrinks(v)
      BY <2>3 DEF ReapNext, Shrinks
    <3>. SUFFICES ASSUME hand'[w] # hand[w] PROVE TakesIdle(w)
      OBVIOUS
    <3>2. v = w /\ hand'[w].inst = i /\ i \in child /\ i \in Instances /\ state'[i] = "failed"
      BY <1>1, <3>1 DEF Reap
    <3>3. inFlight[i] = 0 /\ inFlight' = inFlight
      BY <3>1, <3>2 DEF IdleInv, ReapableIdle, Reap
    <3>. QED
      BY <3>2, <3>3 DEF TakesIdle
  <2>. QED
    BY <1>3, <2>1, <2>2, <2>3 DEF RemovalStep
<1>4. ASSUME NEW m \in Models, SpawnFails(m), hand'[w] # hand[w]
      PROVE  TakesIdle(w)
  <2>1. hand'[w].inst = fresh[m] /\ fresh[m] \in Instances /\ state'[fresh[m]] = "failed" /\ Loading(m)
    BY <1>1, <1>4 DEF SpawnFails, Loading
  <2>2. inFlight[fresh[m]] = 0 /\ inFlight' = inFlight
    BY <1>4, <2>1 DEF IdleInv, LoadingIdle, SpawnFails
  <2>. QED
    BY <2>1, <2>2 DEF TakesIdle
<1>5. ASSUME NEW v, NEW i, RemoveIfIdle(v, i) \/ Drain(v, i), hand'[w] # hand[w]
      PROVE  TakesIdle(w)
  <2>1. BeginRemoval(v, i) /\ inFlight[i] = 0 /\ inFlight' = inFlight
    BY <1>5 DEF RemoveIfIdle, Drain
  <2>. QED
    BY <1>1, <1>5, <2>1 DEF TakesIdle
<1>6. CASE ShrinkNext
  BY <1>5, <1>6 DEF ShrinkNext
<1>7. ASSUME NEW r \in Requests, ExecuteMakeRoom(r)
      PROVE  hand'[w] = hand[w] \/ TakesIdle(w)
  BY <1>5, <1>7 DEF ExecuteMakeRoom
<1>. QED
  BY <1>2, <1>3, <1>4, <1>6, <1>7
  DEF Next, RequestStep, PassA, Consider, SpawnWaited, PlanMakeRoom, AwaitDrained, Park, Served,
      GiveUp, Finish, SpawnStep, TrySpawn, SpawnRefused, SerialWindowEnds, SpawnReady, SpawnCleaned,
      HandleRelease, AutoscalerStep, NextModel, Leave, ScaleUp, Shrink, ShrinkEnds, AllDone,
      removalVars, vars

\* A failed and idle instance gets no request, unless it becomes Ready.
LEMMA FailedStaysIdle ==
  ASSUME IdleInv, [Next]_vars, NEW i \in Instances, state[i] = "failed", inFlight[i] = 0
  PROVE  inFlight'[i] = 0 /\ state'[i] \in {"failed", "ready"}
<1>. InstTypes /\ WorkTypes /\ SlotsCounted /\ Spawned
  BY DEF IdleInv
<1>1. state'[i] \in {"failed", "ready"}
  <2>1. CASE TakesAway
    BY <2>1 DEF TakesAway
  <2>2. ASSUME NEW m \in Models, Registers(m) PROVE state'[i] = "failed"
    <3>. PICK j \in Instances : Spawns(m, j)
      BY <2>2, RegistersSpawns
    <3>. QED
      BY DEF Spawns, InstTypes
  <2>3. ASSUME NEW m \in Models, SpawnReady(m) PROVE state'[i] \in {"failed", "ready"}
    BY <2>3 DEF SpawnReady, InstTypes
  <2>. QED
    BY <2>1, <2>2, <2>3, StepKind
<1>2. inFlight'[i] = 0
  <2>1. ASSUME NEW r \in Requests, NEW j \in listed, Takes(r, j) PROVE inFlight'[i] = 0
    BY <2>1 DEF Takes, Take, WorkTypes
  <2>2. ASSUME NEW r \in Requests, Finish(r) PROVE inFlight'[i] = 0
    BY <2>2, HolderCounts DEF Finish, ReleaseSlot, WorkTypes
  <2>. QED
    BY <2>1, <2>2, SlotMoves DEF NoSlotMoves
<1>. QED
  BY <1>1, <1>2

\* The child of a worker is that of an instance that is Failed and idle, or came back.
TakenIdle ==
  \A w \in Workers : hand[w].took =>
    LET i == hand[w].inst
    IN i \in Instances /\ (i \in revived \/ (state[i] = "failed" /\ inFlight[i] = 0))

LEMMA TakenIdleStep ==
  ASSUME IdleInv, TakenIdle, Next, Watched PROVE TakenIdle'
<1>. SUFFICES ASSUME NEW w \in Workers, hand'[w].took
     PROVE  LET i == hand'[w].inst
            IN i \in Instances /\ (i \in revived' \/ (state'[i] = "failed" /\ inFlight'[i] = 0))
  BY DEF TakenIdle
<1>1. CASE hand'[w] = hand[w]
  <2>. DEFINE i == hand[w].inst
  <2>1. i \in Instances /\ (i \in revived \/ (state[i] = "failed" /\ inFlight[i] = 0))
    BY <1>1 DEF TakenIdle
  <2>2. i \in revived => i \in revived'
    BY DEF Watched
  <2>3. state[i] = "failed" /\ inFlight[i] = 0 => inFlight'[i] = 0 /\ state'[i] \in {"failed", "ready"}
    BY <2>1, FailedStaysIdle
  <2>4. state[i] = "failed" /\ state'[i] = "ready" => i \in revived'
    BY <2>1 DEF Watched
  <2>. QED
    BY <1>1, <2>1, <2>2, <2>3, <2>4
<1>2. CASE TakesIdle(w)
  BY <1>2 DEF TakesIdle
<1>. QED
  BY <1>1, <1>2, TakenIsIdle

\* Only a worker that has taken the child ends a process.
LEMMA EndsTaken ==
  ASSUME Next, NEW i \in alive \ alive'
  PROVE  \E w \in Workers : hand[w].took /\ hand[w].inst = i
<1>1. ASSUME NEW w \in Workers, Terminate(w) PROVE \E v \in Workers : hand[v].took /\ hand[v].inst = i
  BY <1>1 DEF Terminate
<1>2. ASSUME alive \subseteq alive' PROVE FALSE
  BY <1>2
<1>3. ASSUME NEW r \in Requests, RequestStep(r) PROVE FALSE
  BY <1>2, <1>3 DEF RequestStep, PassA, Consider, SpawnWaited, PlanMakeRoom, ExecuteMakeRoom,
     RemoveIfIdle, Drain, AwaitDrained, Park, Served, GiveUp, Finish, Take, fleetVars
<1>4. ASSUME NEW w \in Workers, Unregister(w) \/ ReapNext(w) PROVE FALSE
  BY <1>2, <1>4 DEF Unregister, ReapNext, Reap
<1>5. ASSUME NEW m \in Models, SpawnStep(m) PROVE FALSE
  BY <1>2, <1>5 DEF SpawnStep, TrySpawn, SpawnRefused, SerialWindowEnds, SpawnReady, SpawnFails,
     SpawnCleaned, fleetVars
<1>6. CASE HandleRelease \/ AutoscalerStep \/ AllDone
  BY <1>2, <1>6 DEF HandleRelease, AutoscalerStep, NextModel, Leave, ScaleUp, Shrink, ShrinkNext,
     ShrinkEnds, RemoveIfIdle, AllDone, fleetVars, vars
<1>. QED
  BY <1>1, <1>3, <1>4, <1>5, <1>6 DEF Next, RemovalStep

LEMMA InitIdle == Init => IdleInv
<1>. SUFFICES ASSUME Init PROVE IdleInv
  OBVIOUS
<1>1. InstTypes /\ Spawned /\ LoadingIdle /\ ReapableIdle
  BY DEF Init, FleetInit, InstTypes, Spawned, LoadingIdle, ReapableIdle, Loading
<1>2. WorkTypes /\ HandTypes
  BY DEF Init, FleetInit, WorkTypes, HandTypes, Nothing, PCs
<1>3. ASSUME NEW i \in Instances PROVE HeldBy(i) = {}
  BY ScalingAssumption DEF Init, HeldBy
<1>4. SlotsCounted
  BY <1>3, FS_EmptySet DEF Init, FleetInit, SlotsCounted
<1>. QED
  BY <1>1, <1>2, <1>4 DEF IdleInv

\* Whoever removes an instance to make room, to shrink, to reap or because its
\* spawn failed, however stale the list he works from, interrupts no request with it,
\* unless mark_ready has brought the instance back while it was being removed.
THEOREM RemovalsSpareRequests == HistorySpec => OnlyRevivedInterrupted
<1>1. HistoryInit => IdleInv /\ TakenIdle
  <2>1. HistoryInit => TakenIdle
    BY DEF HistoryInit, Init, Nothing, TakenIdle
  <2>. QED
    BY <2>1, InitIdle DEF HistoryInit
<1>2. IdleInv /\ TakenIdle /\ [HistoryNext]_historyVars => (IdleInv /\ TakenIdle)'
  <2>. SUFFICES ASSUME IdleInv, TakenIdle, [HistoryNext]_historyVars PROVE (IdleInv /\ TakenIdle)'
    OBVIOUS
  <2>1. IdleInv'
    BY IdleStep DEF HistoryNext, historyVars
  <2>2. ASSUME UNCHANGED historyVars PROVE TakenIdle'
    BY <2>2 DEF historyVars, vars, fleetVars, removalVars, TakenIdle
  <2>. QED
    BY <2>1, <2>2, TakenIdleStep DEF HistoryNext
<1>3. IdleInv /\ TakenIdle /\ [HistoryNext]_historyVars =>
        [\A i \in alive \ alive' : inFlight[i] > 0 => i \in revived]_historyVars
  <2>. SUFFICES ASSUME TakenIdle, Next, NEW i \in alive \ alive', inFlight[i] > 0
                PROVE  i \in revived
    BY DEF HistoryNext
  <2>1. PICK w \in Workers : hand[w].took /\ hand[w].inst = i
    BY EndsTaken
  <2>2. i \in revived \/ inFlight[i] = 0
    BY <2>1 DEF TakenIdle
  <2>. QED
    BY <2>2
<1>. QED
  BY <1>1, <1>2, <1>3, PTL DEF HistorySpec, OnlyRevivedInterrupted

-----------------------------------------------------------------------------
(* Types. *)

\* What has been spawned stays known.
Known == {i \in Instances : state[i] # "absent"}

LEMMA KnownStays ==
  ASSUME InstTypes, [Next]_vars PROVE Known \subseteq Known'
<1>1. CASE TakesAway
  BY <1>1 DEF TakesAway, Known, InstTypes
<1>2. ASSUME NEW m \in Models, Registers(m) PROVE Known \subseteq Known'
  BY <1>2, RegistersSpawns DEF Spawns, Known, InstTypes
<1>3. ASSUME NEW m \in Models, SpawnReady(m) PROVE Known \subseteq Known'
  BY <1>3 DEF SpawnReady, Known, InstTypes
<1>. QED
  BY <1>1, <1>2, <1>3, StepKind

\* Where a request is, and whom it plans to evict.
PlanTypes ==
  /\ round \in [Requests -> {"free", "evict", "each"}]
  /\ at \in [Requests -> Nat]
  /\ \A r \in Requests : at[r] \in 1..Len(Route[r].targets)
  /\ plan \in [Requests -> Seq([inst : Known, drain : BOOLEAN])]
  /\ \A r \in Requests : pc[r] = "drain" => plan[r] # <<>>

\* A request that moves leaves the others where they are.
MovesTo(r, l) ==
  /\ pc' = [pc EXCEPT ![r] = l]
  /\ \E q \in {"free", "evict", "each"} : round' = [round EXCEPT ![r] = q]
  /\ \E k \in 1..Len(Route[r].targets) : at' = [at EXCEPT ![r] = k]

LEMMA TargetsType ==
  ASSUME NEW r \in Requests
  PROVE  /\ Route[r].targets \in Seq(Models)
         /\ Len(Route[r].targets) \in Nat \ {0}
         /\ DOMAIN Route[r].targets = 1..Len(Route[r].targets)
<1>. DEFINE t == Route[r].targets
<1>1. t \in Seq(Models) /\ t # <<>>
  BY ScalingAssumption
<1>. HIDE DEF t
<1>2. Len(t) \in Nat \ {0} /\ DOMAIN t = 1..Len(t)
  BY <1>1
<1>. QED
  BY <1>1, <1>2 DEF t

LEMMA AdvanceMoves ==
  ASSUME WorkTypes, PlanTypes, NEW r \in Requests, Advance(r)
  PROVE  MovesTo(r, "consider") \/ MovesTo(r, "queue")
<1>. DEFINE n == Len(Route[r].targets)
<1>1. n \in Nat \ {0} /\ at[r] \in 1..n /\ round[r] \in {"free", "evict", "each"}
      /\ round = [round EXCEPT ![r] = round[r]] /\ at = [at EXCEPT ![r] = at[r]]
  BY TargetsType DEF PlanTypes
<1>. HIDE DEF n
<1>2. CASE at[r] < n /\ at' = [at EXCEPT ![r] = @ + 1] /\ Goto(r, "consider") /\ UNCHANGED round
  <2>1. at[r] + 1 \in 1..n
    BY <1>1, <1>2
  <2>. QED
    BY <1>1, <1>2, <2>1 DEF MovesTo, Goto, n
<1>3. CASE round' = [round EXCEPT ![r] = "evict"] /\ at' = [at EXCEPT ![r] = 1] /\ Goto(r, "consider")
  <2>1. 1 \in 1..n
    BY <1>1
  <2>2. \E k \in 1..n : at' = [at EXCEPT ![r] = k]
    BY <1>3, <2>1
  <2>. QED
    BY <1>3, <2>2 DEF MovesTo, Goto, n
<1>4. CASE Goto(r, "queue") /\ UNCHANGED <<round, at>>
  BY <1>1, <1>4 DEF MovesTo, Goto, n
<1>. QED
  BY <1>2, <1>3, <1>4 DEF Advance, n

LEMMA StayMoves ==
  ASSUME WorkTypes, PlanTypes, NEW r \in Requests, NEW l, Goto(r, l), UNCHANGED <<round, at>>
  PROVE  MovesTo(r, l)
<1>1. at[r] \in 1..Len(Route[r].targets) /\ round[r] \in {"free", "evict", "each"}
      /\ round = [round EXCEPT ![r] = round[r]] /\ at = [at EXCEPT ![r] = at[r]]
  BY DEF PlanTypes
<1>. QED
  BY <1>1 DEF MovesTo, Goto

LEMMA EndMoves ==
  ASSUME WorkTypes, PlanTypes, NEW r \in Requests, NEW l, Goto(r, l), LoopEnds(r)
  PROVE  MovesTo(r, l)
<1>1. 1 \in 1..Len(Route[r].targets) /\ round[r] \in {"free", "evict", "each"}
      /\ round = [round EXCEPT ![r] = round[r]]
  BY TargetsType DEF PlanTypes
<1>. QED
  BY <1>1 DEF MovesTo, Goto, LoopEnds

\* A plan is begun, gets longer by a registered instance, or shorter at its head.
PlanMoves(r) ==
  \/ UNCHANGED plan
  \/ plan' = [plan EXCEPT ![r] = <<>>]
  \/ plan[r] # <<>> /\ Rest(r)
  \/ \E v \in [inst : Known, drain : BOOLEAN] : plan' = [plan EXCEPT ![r] = Append(@, v)]

LEMMA VictimIsKnown ==
  ASSUME InstTypes, Spawned, NEW r \in Requests, NEW v \in NextVictims(r)
  PROVE  v \in [inst : Known, drain : BOOLEAN]
<1>1. PICK i \in listed, d \in BOOLEAN : v = [inst |-> i, drain |-> d]
  BY DEF NextVictims
<1>. QED
  BY <1>1 DEF Known, InstTypes, Spawned

LEMMA RequestTypes ==
  ASSUME InstTypes, Spawned, WorkTypes, PlanTypes, NEW r \in Requests, RequestStep(r)
  PROVE  /\ PlanMoves(r)
         /\ \/ UNCHANGED <<pc, round, at>> /\ (pc[r] # "drain" \/ UNCHANGED plan)
            \/ \E l \in PCs : /\ MovesTo(r, l)
                              /\ l = "drain" => plan[r] # <<>> /\ UNCHANGED plan
<1>. USE DEF PCs
<1>1. ASSUME NEW i, Take(r, i) PROVE MovesTo(r, "serving")
  BY <1>1, EndMoves DEF Take
<1>2. CASE PassA(r)
  BY <1>1, <1>2, StayMoves DEF PassA, PlanMoves
<1>3. CASE Consider(r)
  BY <1>1, <1>3, StayMoves, AdvanceMoves DEF Consider, PlanMoves
<1>4. CASE SpawnWaited(r)
  BY <1>1, <1>4, AdvanceMoves DEF SpawnWaited, PlanMoves
<1>5. CASE Served(r)
  BY <1>1, <1>5 DEF Served, PlanMoves
<1>6. CASE PlanMakeRoom(r)
  BY <1>6, StayMoves, AdvanceMoves, VictimIsKnown DEF PlanMakeRoom, PlanMoves
<1>7. CASE ExecuteMakeRoom(r)
  BY <1>7, StayMoves DEF ExecuteMakeRoom, PlanMoves
<1>8. CASE AwaitDrained(r)
  <2>1. plan[r] # <<>>
    BY <1>8 DEF AwaitDrained, PlanTypes
  <2>. QED
    BY <1>8, <2>1, StayMoves DEF AwaitDrained, PlanMoves
<1>9. CASE Park(r)
  <2>1. UNCHANGED plan
    BY <1>9 DEF Park
  <2>2. CASE Goto(r, "done") /\ LoopEnds(r)
    BY <2>1, <2>2, EndMoves DEF PlanMoves
  <2>. DEFINE loaded == {k \in DOMAIN Route[r].targets : Active(Route[r].targets[k]) # {}}
  <2>3. CASE /\ loaded # {}
             /\ at' = [at EXCEPT ![r] = Min(loaded)]
             /\ Goto(r, "parked")
             /\ UNCHANGED round
    <3>1. loaded \subseteq 1..Len(Route[r].targets) /\ Len(Route[r].targets) \in Nat
      BY TargetsType
    <3>. HIDE DEF loaded
    <3>4. loaded \in SUBSET Nat /\ loaded # {}
      BY <2>3, <3>1
    <3>2. Min(loaded) \in 1..Len(Route[r].targets)
      BY <3>1, <3>4, LeastIsIn
    <3>3. round = [round EXCEPT ![r] = round[r]] /\ round[r] \in {"free", "evict", "each"}
      BY DEF PlanTypes
    <3>. QED
      BY <2>1, <2>3, <3>2, <3>3 DEF MovesTo, Goto, PlanMoves
  <2>. QED
    BY <1>9, <2>2, <2>3 DEF Park
<1>10. CASE GiveUp(r)
  BY <1>10, EndMoves DEF GiveUp, PlanMoves
<1>11. CASE Finish(r)
  BY <1>11, StayMoves DEF Finish, PlanMoves
<1>. QED
  BY <1>2, <1>3, <1>4, <1>5, <1>6, <1>7, <1>8, <1>9, <1>10, <1>11 DEF RequestStep

LEMMA PlanStep ==
  ASSUME InstTypes, Spawned, WorkTypes, PlanTypes, [Next]_vars PROVE PlanTypes'
<1>1. Known \subseteq Known'
  BY KnownStays
<1>2. Seq([inst : Known, drain : BOOLEAN]) \subseteq Seq([inst : Known', drain : BOOLEAN])
  <2>1. [inst : Known, drain : BOOLEAN] \subseteq [inst : Known', drain : BOOLEAN]
    BY <1>1
  <2>. QED
    BY <2>1, SeqMonotonic
<1>3. CASE UNCHANGED <<pc, round, at, plan>>
  BY <1>2, <1>3 DEF PlanTypes
<1>4. ASSUME NEW r \in Requests, RequestStep(r) PROVE PlanTypes'
  <2>. DEFINE V == [inst : Known, drain : BOOLEAN]
  <2>1. /\ PlanMoves(r)
        /\ \/ UNCHANGED <<pc, round, at>> /\ (pc[r] # "drain" \/ UNCHANGED plan)
           \/ \E l \in PCs : /\ MovesTo(r, l)
                             /\ l = "drain" => plan[r] # <<>> /\ UNCHANGED plan
    BY <1>4, RequestTypes
  <2>2. plan \in [Requests -> Seq(V)]
    BY DEF PlanTypes
  <2>3. plan' \in [Requests -> Seq(V)] /\ \A q \in Requests : q # r => plan'[q] = plan[q]
    <3>. HIDE DEF V
    <3>1. PlanMoves(r) => \E s \in Seq(V) : plan' = [plan EXCEPT ![r] = s]
      <4>. DEFINE s == plan[r]
      <4>0. s \in Seq(V) /\ <<>> \in Seq(V) /\ plan = [plan EXCEPT ![r] = s]
        BY <2>2
      <4>1. CASE UNCHANGED plan
        BY <4>0, <4>1
      <4>2. CASE plan' = [plan EXCEPT ![r] = <<>>]
        BY <4>0, <4>2
      <4>3. CASE plan[r] # <<>> /\ Rest(r)
        <5>1. Tail(s) \in Seq(V) /\ plan' = [plan EXCEPT ![r] = Tail(s)]
          BY <4>0, <4>3 DEF Rest
        <5>. QED
          BY <5>1
      <4>4. ASSUME NEW v \in V, plan' = [plan EXCEPT ![r] = Append(@, v)]
            PROVE  \E q \in Seq(V) : plan' = [plan EXCEPT ![r] = q]
        <5>1. Append(s, v) \in Seq(V) /\ plan' = [plan EXCEPT ![r] = Append(s, v)]
          BY <4>0, <4>4
        <5>. QED
          BY <5>1
      <4>. QED
        BY <4>1, <4>2, <4>3, <4>4 DEF PlanMoves, V
    <3>. QED
      BY <2>1, <2>2, <3>1
  <2>4. round' \in [Requests -> {"free", "evict", "each"}]
        /\ at' \in [Requests -> Nat]
        /\ \A q \in Requests : at'[q] \in 1..Len(Route[q].targets)
    <3>1. CASE UNCHANGED <<pc, round, at>>
      BY <3>1 DEF PlanTypes
    <3>2. ASSUME NEW l \in PCs, MovesTo(r, l)
          PROVE  /\ round' \in [Requests -> {"free", "evict", "each"}]
                 /\ at' \in [Requests -> Nat]
                 /\ \A q \in Requests : at'[q] \in 1..Len(Route[q].targets)
      <4>. DEFINE n == Len(Route[r].targets)
      <4>1. PICK k \in 1..n : at' = [at EXCEPT ![r] = k]
        BY <3>2 DEF MovesTo
      <4>2. k \in Nat
        BY <4>1, TargetsType
      <4>. HIDE DEF n
      <4>3. at' \in [Requests -> Nat] /\ \A q \in Requests : at'[q] = IF q = r THEN k ELSE at[q]
        BY <4>1, <4>2 DEF PlanTypes
      <4>. QED
        BY <3>2, <4>1, <4>3 DEF MovesTo, PlanTypes, n
    <3>. QED
      BY <2>1, <3>1, <3>2
  <2>5. \A q \in Requests : pc'[q] = "drain" => plan'[q] # <<>>
    BY <2>1, <2>3 DEF MovesTo, WorkTypes, PlanTypes
  <2>. QED
    BY <1>2, <2>3, <2>4, <2>5 DEF PlanTypes
<1>. QED
  BY <1>3, <1>4
  DEF Next, RemovalStep, Terminate, Unregister, ReapNext, SpawnStep, TrySpawn,
      SpawnRefused, SerialWindowEnds, SpawnReady, SpawnFails, SpawnCleaned, HandleRelease,
      AutoscalerStep, NextModel, Leave, ScaleUp, Shrink, ShrinkNext, ShrinkEnds,
      AllDone, requestVars, vars

-----------------------------------------------------------------------------
\* Who removes what: something known, and the child is not taken twice.
RemovalTypes ==
  /\ hand \in [Workers -> [inst : Known \cup {None}, took : BOOLEAN]]
  /\ \A w \in Workers : hand[w].took => hand[w].inst \notin child
  /\ child \subseteq alive /\ alive \subseteq Instances

Begins == \E w \in Workers, i \in Known : BeginRemoval(w, i)

LEMMA HeadIsKnown ==
  ASSUME PlanTypes, NEW r \in Requests, plan[r] # <<>> PROVE Head(plan[r]).inst \in Known
<1>. DEFINE V == [inst : Known, drain : BOOLEAN]
            s == plan[r]
<1>1. s \in Seq(V) /\ s # <<>>
  BY DEF PlanTypes
<1>. HIDE DEF V, s
<1>2. Head(s) \in V
  BY <1>1
<1>. QED
  BY <1>2 DEF V, s

\* Nothing is known that was not registered.
LEMMA NothingElseKnown ==
  ASSUME InstTypes, Spawned, WorkTypes, PlanTypes, ReapableIdle, [Next]_vars
  PROVE  Known' \subseteq Known \/ \E m \in Models : Registers(m)
<1>. USE DEF Workers
<1>1. ASSUME NEW i \in Known, NEW s, state' = [state EXCEPT ![i] = s]
      PROVE  Known' \subseteq Known
  BY <1>1 DEF Known, InstTypes
<1>2. ASSUME UNCHANGED state PROVE Known' \subseteq Known
  BY <1>2 DEF Known
<1>3. ASSUME NEW w \in Workers, ReapNext(w) PROVE Known' \subseteq Known
  BY <1>1, <1>3 DEF ReapNext, Reap, BeginRemoval, ReapableIdle, WorkTypes, Known
<1>4. ASSUME NEW m \in Models, SpawnFails(m) \/ SpawnReady(m) PROVE Known' \subseteq Known
  <2>1. fresh[m] \in Known
    BY <1>4 DEF SpawnFails, SpawnReady, Spawned, Loading, Known
  <2>. QED
    BY <1>1, <1>4, <2>1 DEF SpawnFails, SpawnReady, BeginRemoval
<1>5. CASE ShrinkNext
  <2>1. \A i \in todo[Autoscaler] : i \in Known
    BY DEF ReapableIdle, WorkTypes, Known
  <2>. QED
    BY <1>1, <1>2, <1>5, <2>1 DEF ShrinkNext, RemoveIfIdle, BeginRemoval, fleetVars
<1>6. ASSUME NEW r \in Requests, ExecuteMakeRoom(r) PROVE Known' \subseteq Known
  <2>1. plan[r] # <<>> => Head(plan[r]).inst \in Known
    BY HeadIsKnown
  <2>2. \/ UNCHANGED state
        \/ /\ plan[r] # <<>>
           /\ state' = [state EXCEPT ![Head(plan[r]).inst] = "failed"]
    BY <1>6 DEF ExecuteMakeRoom, RemoveIfIdle, Drain, BeginRemoval, fleetVars
  <2>3. CASE plan[r] # <<>> /\ state' = [state EXCEPT ![Head(plan[r]).inst] = "failed"]
    <3>. PICK i \in Known : i = Head(plan[r]).inst
      BY <2>1, <2>3
    <3>1. state' = [state EXCEPT ![i] = "failed"]
      BY <2>3
    <3>. QED
      BY <1>1, <3>1
  <2>4. CASE UNCHANGED state
    BY <2>4 DEF Known
  <2>. QED
    BY <2>2, <2>3, <2>4, Zenon
<1>7. ASSUME NEW m \in Models, TrySpawn(m) PROVE UNCHANGED state \/ Registers(m)
  <2>1. CASE BelowCap(m) /\ spawn' = [spawn EXCEPT ![m] = "serial"]
    BY <1>7, <2>1 DEF Registers, InstTypes
  <2>. QED
    BY <1>7, <2>1 DEF TrySpawn
<1>8. ASSUME NEW r \in Requests, RequestStep(r) PROVE Known' \subseteq Known
  BY <1>2, <1>6, <1>8
  DEF RequestStep, PassA, Consider, SpawnWaited, PlanMakeRoom, AwaitDrained, Park, Served,
      GiveUp, Finish, Take, fleetVars
<1>9. ASSUME NEW w \in Workers, RemovalStep(w) PROVE Known' \subseteq Known
  BY <1>2, <1>3, <1>9 DEF RemovalStep, Terminate, Unregister, fleetVars
<1>10. ASSUME NEW m \in Models, SpawnStep(m) PROVE Known' \subseteq Known \/ Registers(m)
  BY <1>2, <1>4, <1>7, <1>10 DEF SpawnStep, SpawnRefused, SerialWindowEnds, SpawnCleaned, fleetVars
<1>11. CASE HandleRelease \/ AutoscalerStep \/ AllDone \/ UNCHANGED vars
  BY <1>2, <1>5, <1>11
  DEF HandleRelease, AutoscalerStep, NextModel, Leave, ScaleUp, Shrink, ShrinkEnds, AllDone,
      fleetVars, vars
<1>. QED
  BY <1>8, <1>9, <1>10, <1>11 DEF Next

LEMMA HandMoves ==
  ASSUME InstTypes, Spawned, WorkTypes, PlanTypes, ReapableIdle, [Next]_vars
  PROVE  UNCHANGED hand \/ Begins \/ \E w \in Workers : Terminate(w) \/ Unregister(w)
<1>. USE DEF Workers, Begins
<1>1. CASE UNCHANGED hand
  BY <1>1
<1>2. ASSUME NEW w \in Workers, ReapNext(w) PROVE Begins
  BY <1>2 DEF ReapNext, Reap, ReapableIdle, WorkTypes, Known
<1>3. ASSUME NEW m \in Models, SpawnFails(m) PROVE Begins
  BY <1>3 DEF SpawnFails, Spawned, Loading, Known
<1>4. CASE ShrinkNext
  BY <1>1, <1>4 DEF ShrinkNext, RemoveIfIdle, ReapableIdle, WorkTypes, Known
<1>5. ASSUME NEW r \in Requests, ExecuteMakeRoom(r) PROVE UNCHANGED hand \/ Begins
  <2>1. CASE plan[r] # <<>>
    BY <1>5, <2>1, HeadIsKnown DEF ExecuteMakeRoom, RemoveIfIdle, Drain
  <2>2. CASE plan[r] = <<>>
    BY <1>5, <2>2 DEF ExecuteMakeRoom
  <2>. QED
    BY <2>1, <2>2
<1>. QED
  BY <1>1, <1>2, <1>3, <1>4, <1>5
  DEF Next, RequestStep, PassA, Consider, SpawnWaited, PlanMakeRoom, AwaitDrained, Park, Served,
      GiveUp, Finish, RemovalStep, SpawnStep, TrySpawn, SpawnRefused, SerialWindowEnds, SpawnReady,
      SpawnCleaned, HandleRelease, AutoscalerStep, NextModel, Leave, ScaleUp, Shrink, ShrinkEnds,
      AllDone, removalVars, vars

\* A process begins with a registration and ends in the hands of who took it.
LEMMA AliveMoves ==
  ASSUME InstTypes, [Next]_vars
  PROVE  \/ UNCHANGED alive /\ child' \subseteq child
         \/ \E m \in Models : Registers(m) /\ UNCHANGED hand
         \/ \E w \in Workers : Terminate(w)
<1>1. CASE \E w \in Workers : Terminate(w)
  BY <1>1
<1>2. ASSUME NEW m \in Models, TrySpawn(m)
      PROVE  \/ UNCHANGED alive /\ child' \subseteq child
             \/ Registers(m) /\ UNCHANGED hand
  <2>1. UNCHANGED hand
    BY <1>2 DEF TrySpawn, removalVars
  <2>2. CASE UNCHANGED <<alive, child>>
    BY <2>2
  <2>3. CASE BelowCap(m) /\ spawn' = [spawn EXCEPT ![m] = "serial"]
    BY <1>2, <2>1, <2>3 DEF Registers, InstTypes
  <2>. QED
    BY <1>2, <2>2, <2>3 DEF TrySpawn
<1>3. ASSUME ~\E w \in Workers : Terminate(w), ~\E m \in Models : TrySpawn(m)
      PROVE  UNCHANGED alive
  <2>1. ASSUME NEW r \in Requests, RequestStep(r) PROVE UNCHANGED alive
    BY <2>1 DEF RequestStep, PassA, Consider, SpawnWaited, PlanMakeRoom, ExecuteMakeRoom,
       AwaitDrained, Park, Served, GiveUp, Finish, Take, RemoveIfIdle, Drain, fleetVars
  <2>2. ASSUME NEW w \in Workers, RemovalStep(w) PROVE UNCHANGED alive
    BY <1>3, <2>2 DEF RemovalStep, Unregister, ReapNext, Reap
  <2>3. ASSUME NEW m \in Models, SpawnStep(m) PROVE UNCHANGED alive
    BY <1>3, <2>3 DEF SpawnStep, SpawnRefused, SerialWindowEnds, SpawnReady, SpawnFails,
       SpawnCleaned, fleetVars
  <2>4. CASE HandleRelease \/ AutoscalerStep \/ AllDone \/ UNCHANGED vars
    BY <2>4 DEF HandleRelease, AutoscalerStep, NextModel, Leave, ScaleUp, Shrink, ShrinkNext,
       ShrinkEnds, RemoveIfIdle, AllDone, fleetVars, vars
  <2>. QED
    BY <2>1, <2>2, <2>3, <2>4 DEF Next
<1>4. ASSUME ~\E m \in Models : TrySpawn(m) PROVE child' \subseteq child
  BY <1>4, StepKind DEF Registers, TakesAway, SpawnReady
<1>. QED
  BY <1>1, <1>2, <1>3, <1>4

LEMMA RemovalStepTypes ==
  ASSUME InstTypes, Spawned, WorkTypes, PlanTypes, ReapableIdle, RemovalTypes, [Next]_vars
  PROVE  RemovalTypes'
<1>. USE DEF RemovalTypes
<1>1. Known \subseteq Known'
  BY KnownStays
<1>2. ASSUME NEW m \in Models, Registers(m), UNCHANGED hand PROVE RemovalTypes'
  <2>. PICK i \in Instances : Spawns(m, i)
    BY <1>2, RegistersSpawns
  <2>1. i \notin Known /\ i \notin child /\ i # None
    BY ScalingAssumption DEF Spawns, Known, Spawned
  <2>. QED
    BY <1>1, <1>2, <2>1 DEF Spawns
<1>3. ASSUME NEW w \in Workers, Terminate(w) PROVE RemovalTypes'
  <2>1. /\ hand' = [hand EXCEPT ![w].took = FALSE]
        /\ hand[w].took /\ child' = child /\ alive' = alive \ {hand[w].inst}
    BY <1>3 DEF Terminate
  <2>2. hand' \in [Workers -> [inst : Known \cup {None}, took : BOOLEAN]]
        /\ \A v \in Workers : hand'[v].inst = hand[v].inst /\ (hand'[v].took => hand[v].took)
    BY <2>1
  <2>. QED
    BY <1>1, <2>1, <2>2
<1>4. ASSUME UNCHANGED alive, child' \subseteq child PROVE RemovalTypes'
  <2>1. CASE UNCHANGED hand
    BY <1>1, <1>4, <2>1
  <2>2. CASE Begins
    <3>. PICK w \in Workers, i \in Known : BeginRemoval(w, i)
      BY <2>2 DEF Begins
    <3>1. hand' = [hand EXCEPT ![w] = [inst |-> i, took |-> i \in child]] /\ child' = child \ {i}
      BY DEF BeginRemoval
    <3>2. \A v \in Workers : hand'[v] = IF v = w THEN [inst |-> i, took |-> i \in child] ELSE hand[v]
      BY <3>1
    <3>3. hand' \in [Workers -> [inst : Known \cup {None}, took : BOOLEAN]]
      BY <3>1
    <3>4. \A v \in Workers : hand'[v].took => hand'[v].inst \notin child'
      BY <3>1, <3>2
    <3>. QED
      BY <1>1, <1>4, <3>3, <3>4
  <2>3. ASSUME NEW w \in Workers, Unregister(w) PROVE RemovalTypes'
    <3>1. hand' = [hand EXCEPT ![w] = [inst |-> None, took |-> FALSE]]
      BY <2>3 DEF Unregister, Nothing
    <3>. QED
      BY <1>1, <1>4, <3>1
  <2>. QED
    BY <1>3, <2>1, <2>2, <2>3, HandMoves
<1>. QED
  BY <1>2, <1>3, <1>4, AliveMoves

-----------------------------------------------------------------------------
\* The devices of an instance are numbers from the pool of its model.
DeviceTypes ==
  /\ devices \in [Instances -> Seq(Nat)]
  /\ \A i \in Instances : IF model[i] = None THEN devices[i] = <<>>
                          ELSE Range(devices[i]) \subseteq Range(Config[model[i]].pool)
  /\ \A i \in Known : model[i] \in Models

LEMMA RegisteredIsFleet ==
  ASSUME InstTypes, DeviceTypes, NEW gone
  PROVE  IsFleet(FleetWithout(gone)) /\ DOMAIN FleetWithout(gone) = listed \ gone
<1>1. DOMAIN FleetWithout(gone) = listed \ gone
      /\ \A i \in listed \ gone : FleetWithout(gone)[i].devices = devices[i]
  BY DEF FleetWithout
<1>2. listed \ gone \in SUBSET Instances /\ IsFiniteSet(Instances)
  BY ScalingAssumption DEF InstTypes
<1>3. IsFiniteSet(listed \ gone)
  BY <1>2, FS_Subset
<1>. QED
  BY <1>1, <1>2, <1>3 DEF IsFleet, DeviceTypes

\* What a registration gives the instance.
LEMMA Given ==
  ASSUME InstTypes, DeviceTypes, NEW m \in Models
  PROVE  /\ Config[m].pool \in Seq(Nat)
         /\ SelectGpus(View, FleetWithout({}), m) \in Seq(Nat)
         /\ Candidates(View, FleetWithout({}), m) \subseteq DOMAIN Config[m].pool
         /\ PicksFrom(SelectGpus(View, FleetWithout({}), m),
                      Candidates(View, FleetWithout({}), m), Config[m].pool)
<1>1. m \in DOMAIN View.models /\ View.models[m] = Config[m] /\ WellFormed(View)
  BY FleetAssumption DEF View
<1>2. IsFleet(FleetWithout({}))
  BY RegisteredIsFleet
<1>3. Config[m].pool \in Seq(Nat)
      /\ Candidates(View, FleetWithout({}), m) \subseteq DOMAIN Config[m].pool
  BY <1>1 DEF WellFormed, Candidates
<1>4. /\ SelectGpus(View, FleetWithout({}), m) \in Seq(Nat)
      /\ PicksFrom(SelectGpus(View, FleetWithout({}), m),
                   Candidates(View, FleetWithout({}), m), View.models[m].pool)
  BY <1>1, <1>2, Selected
<1>. QED
  BY <1>1, <1>3, <1>4

LEMMA DeviceStep ==
  ASSUME InstTypes, Spawned, WorkTypes, PlanTypes, ReapableIdle, DeviceTypes, [Next]_vars
  PROVE  DeviceTypes'
<1>. USE DEF DeviceTypes
<1>1. CASE TakesAway /\ Known' \subseteq Known
  BY <1>1 DEF TakesAway
<1>2. ASSUME NEW m \in Models, SpawnReady(m) PROVE DeviceTypes'
  <2>1. UNCHANGED <<model, devices>> /\ state' = [state EXCEPT ![fresh[m]] = "ready"]
        /\ fresh[m] \in Known
    BY <1>2 DEF SpawnReady, Spawned, Loading, Known
  <2>. QED
    BY <2>1 DEF InstTypes, Known
<1>3. ASSUME NEW m \in Models, Registers(m) PROVE DeviceTypes'
  <2>. DEFINE chosen == SelectGpus(View, FleetWithout({}), m)
  <2>. PICK i \in Instances : Spawns(m, i)
    BY <1>3, RegistersSpawns
  <2>. DEFINE C == Candidates(View, FleetWithout({}), m)
              pool == Config[m].pool
  <2>0. chosen \in Seq(Nat) /\ C \subseteq DOMAIN pool /\ PicksFrom(chosen, C, pool)
    BY Given
  <2>. HIDE DEF C, pool
  <2>1. chosen \in Seq(Nat) /\ Range(chosen) \subseteq Range(pool)
    <3>. HIDE DEF chosen
    <3>. QED
      BY <2>0 DEF Range, PicksFrom
  <2>2. devices' = [devices EXCEPT ![i] = chosen] /\ model' = [model EXCEPT ![i] = m]
        /\ state' = [state EXCEPT ![i] = "loading"]
    BY DEF Spawns
  <2>. HIDE DEF chosen
  <2>3. devices' \in [Instances -> Seq(Nat)]
        /\ \A j \in Instances : /\ devices'[j] = IF j = i THEN chosen ELSE devices[j]
                                /\ model'[j] = IF j = i THEN m ELSE model[j]
                                /\ state'[j] = IF j = i THEN "loading" ELSE state[j]
    BY <2>1, <2>2 DEF InstTypes
  <2>4. m # None
    BY FleetAssumption
  <2>5. ASSUME NEW j \in Instances
        PROVE  IF model'[j] = None THEN devices'[j] = <<>>
               ELSE Range(devices'[j]) \subseteq Range(Config[model'[j]].pool)
    BY <2>1, <2>3, <2>4 DEF pool
  <2>6. \A j \in Known' : model'[j] \in Models
    BY <2>3 DEF Known
  <2>. QED
    BY <2>3, <2>5, <2>6
<1>. QED
  BY <1>1, <1>2, <1>3, StepKind, NothingElseKnown

-----------------------------------------------------------------------------
ScaleTypes ==
  /\ turn \in Models \cup {None} /\ turns \in 0..MaxTurns /\ shrinking \in BOOLEAN /\ spare \in Nat

LEMMA ScaleStep ==
  ASSUME InstTypes, ScaleTypes, [Next]_vars PROVE ScaleTypes'
<1>. USE DEF ScaleTypes
<1>1. CASE UNCHANGED scaleVars
  BY <1>1 DEF scaleVars
<1>2. CASE NextModel
  BY <1>2, ScalingAssumption DEF NextModel
<1>3. CASE Leave \/ ScaleUp
  BY <1>3 DEF Leave, ScaleUp, Turned
<1>4. CASE Shrink
  <2>1. Of(turn) \in SUBSET Instances
    BY DEF Of, InstTypes
  <2>2. Count \in Nat
    BY <2>1, FS_Subset, FS_CardinalityType, ScalingAssumption DEF Count
  <2>. QED
    BY <1>4, <2>2 DEF Shrink
<1>5. CASE ShrinkNext
  <2>1. spare > 0 => spare - 1 \in Nat
    OBVIOUS
  <2>. QED
    BY <1>5, <2>1 DEF ShrinkNext
<1>6. CASE ShrinkEnds
  BY <1>6 DEF ShrinkEnds
<1>. QED
  BY <1>1, <1>2, <1>3, <1>4, <1>5, <1>6
  DEF Next, RequestStep, PassA, Consider, SpawnWaited, PlanMakeRoom, ExecuteMakeRoom, AwaitDrained,
      Park, Served, GiveUp, Finish, RemovalStep, Terminate, Unregister, ReapNext, SpawnStep, TrySpawn,
      SpawnRefused, SerialWindowEnds, SpawnReady, SpawnFails, SpawnCleaned, HandleRelease,
      AutoscalerStep, AllDone, vars

\* Who finishes had a slot of a known instance.
LEMMA ReleasedStep ==
  ASSUME WorkTypes, SlotsCounted, LoadingIdle, DeviceTypes, released \subseteq Models, [Next]_vars
  PROVE  released' \subseteq Models
<1>1. ASSUME NEW r \in Requests, Finish(r) PROVE released' \subseteq Models
  <2>1. slot[r] \in Instances /\ inFlight[slot[r]] # 0
    BY <1>1, HolderCounts DEF Finish
  <2>2. model[slot[r]] \in Models
    BY <2>1 DEF LoadingIdle, DeviceTypes, Known
  <2>. QED
    BY <1>1, <2>2 DEF Finish
<1>2. CASE HandleRelease
  BY <1>2 DEF HandleRelease
<1>. QED
  BY <1>1, <1>2
  DEF Next, RequestStep, PassA, Consider, SpawnWaited, PlanMakeRoom, ExecuteMakeRoom, AwaitDrained,
      Park, Served, GiveUp, RemovalStep, Terminate, Unregister, ReapNext, SpawnStep, TrySpawn,
      SpawnRefused, SerialWindowEnds, SpawnReady, SpawnFails, SpawnCleaned,
      AutoscalerStep, NextModel, Leave, ScaleUp, Shrink, ShrinkNext, ShrinkEnds, AllDone, vars

TypeInv ==
  IdleInv /\ PlanTypes /\ RemovalTypes /\ DeviceTypes /\ ScaleTypes /\ released \subseteq Models

LEMMA InitTypes == Init => TypeInv
<1>. SUFFICES ASSUME Init PROVE TypeInv
  OBVIOUS
<1>1. PlanTypes
  <2>1. at = [r \in Requests |-> 1] /\ \A r \in Requests : 1 \in 1..Len(Route[r].targets)
    BY TargetsType DEF Init
  <2>. QED
    BY <2>1 DEF Init, PlanTypes
<1>2. RemovalTypes
  BY DEF Init, FleetInit, RemovalTypes, Nothing
<1>3. DeviceTypes
  BY DEF Init, FleetInit, DeviceTypes, Known
<1>4. ScaleTypes /\ released \subseteq Models
  <2>1. MaxTurns \in Nat
    BY ScalingAssumption
  <2>2. 0 \in 0..MaxTurns /\ 0 \in Nat
    BY <2>1
  <2>. QED
    BY <2>2 DEF Init, ScaleTypes
<1>. QED
  BY <1>1, <1>2, <1>3, <1>4, InitIdle DEF TypeInv

LEMMA TypeStep ==
  ASSUME TypeInv, [Next]_vars PROVE TypeInv'
<1>. USE DEF TypeInv, IdleInv
<1>1. IdleInv'
  BY IdleStep
<1>2. PlanTypes' /\ RemovalTypes'
  BY PlanStep, RemovalStepTypes
<1>3. DeviceTypes' /\ ScaleTypes' /\ released' \subseteq Models
  BY DeviceStep, ScaleStep, ReleasedStep
<1>. QED
  BY <1>1, <1>2, <1>3

LEMMA TypeInvTypes == TypeInv => TypeOK
<1>. SUFFICES ASSUME TypeInv PROVE TypeOK
  OBVIOUS
<1>1. ASSUME NEW i \in Instances PROVE inFlight[i] \in Nat
  <2>1. IsFiniteSet(HeldBy(i))
    BY FS_Subset, ScalingAssumption DEF HeldBy
  <2>. QED
    BY <2>1, FS_CardinalityType DEF TypeInv, IdleInv, SlotsCounted
<1>2. FleetTypeOK
  BY <1>1 DEF TypeInv, IdleInv, InstTypes, WorkTypes, RemovalTypes, DeviceTypes, FleetTypeOK
<1>3. \A r \in Requests : at[r] \in DOMAIN Route[r].targets /\ plan[r] \in Seq(Victims)
  <2>1. [inst : Known, drain : BOOLEAN] \subseteq Victims
    BY DEF Known, Victims
  <2>2. Seq([inst : Known, drain : BOOLEAN]) \subseteq Seq(Victims)
    BY <2>1, SeqMonotonic
  <2>. QED
    BY <2>2, TargetsType DEF TypeInv, PlanTypes
<1>4. hand \in [Workers -> [inst : Instances \cup {None}, took : BOOLEAN]]
  <2>1. [inst : Known \cup {None}, took : BOOLEAN] \subseteq [inst : Instances \cup {None}, took : BOOLEAN]
    BY DEF Known
  <2>. QED
    BY <2>1 DEF TypeInv, RemovalTypes
<1>. QED
  BY <1>2, <1>3, <1>4 DEF TypeInv, IdleInv, InstTypes, WorkTypes, PlanTypes, ScaleTypes, TypeOK

\* Every variable keeps its type: in particular no in-flight counter falls below
\* zero, a child that nobody has taken is alive, a plan names instances that were
\* registered, and an instance's devices are from the pool of its model.
THEOREM TypeCorrect == Spec => []TypeOK
<1>1. TypeInv /\ [Next]_vars => TypeInv'
  BY TypeStep
<1>. QED
  BY <1>1, InitTypes, TypeInvTypes, PTL DEF Spec

-----------------------------------------------------------------------------
(* Devices. *)

Registered(i) == [model |-> model[i], devices |-> devices[i]]

LEMMA FleetMoves ==
  ASSUME TypeInv, [Next]_vars
  PROVE  \/ listed' \subseteq listed /\ UNCHANGED <<model, devices>>
         \/ \E m \in Models, i \in Instances : Spawns(m, i)
<1>. InstTypes
  BY DEF TypeInv, IdleInv
<1>. QED
  BY StepKind, RegistersSpawns DEF TakesAway, SpawnReady

\* Each device that a registration gives has room, when it does, and the slot of a
\* device is that of the model's namespace.
LEMMA GivenFits ==
  ASSUME TypeInv, NEW m \in Models, NEW n \in DOMAIN SelectGpus(View, FleetWithout({}), m)
  PROVE  Fits(View, FleetWithout({}), m, SelectGpus(View, FleetWithout({}), m)[n])
<1>. DEFINE fleet == FleetWithout({})
            chosen == SelectGpus(View, fleet, m)
            C == Candidates(View, fleet, m)
            pool == Config[m].pool
<1>1. PicksFrom(chosen, C, pool)
  BY Given DEF TypeInv, IdleInv
<1>. HIDE DEF chosen
<1>2. PICK k \in C : chosen[n] = pool[k]
  BY <1>1 DEF PicksFrom, chosen
<1>3. Fits(View, fleet, m, pool[k])
  BY <1>2 DEF Candidates, View
<1>. QED
  BY <1>2, <1>3 DEF chosen

\* A registration is the only step that adds to the fleet, and it adds one.
LEMMA FleetGrows ==
  ASSUME TypeInv, NEW m \in Models, NEW i \in Instances, Spawns(m, i)
  PROVE  /\ i \notin listed /\ listed' = listed \cup {i}
         /\ \A j \in listed : Registered(j)' = Registered(j) /\ model'[j] = model[j]
         /\ model'[i] = m
         /\ Registered(i)' = [model |-> m, devices |-> SelectGpus(View, FleetWithout({}), m)]
<1>1. i \notin listed
  BY DEF Spawns, TypeInv, IdleInv, Spawned
<1>2. listed' = listed \cup {i} /\ model' = [model EXCEPT ![i] = m]
      /\ devices' = [devices EXCEPT ![i] = SelectGpus(View, FleetWithout({}), m)]
  BY DEF Spawns
<1>3. model \in [Instances -> Models \cup {None}] /\ devices \in [Instances -> Seq(Nat)]
      /\ listed \subseteq Instances
  BY DEF TypeInv, IdleInv, InstTypes, DeviceTypes
<1>. QED
  BY <1>1, <1>2, <1>3 DEF Registered

LEMMA TimesNone ==
  ASSUME NEW v, NEW x, x.devices \in Seq(Nat), NEW s,
         \A k \in DOMAIN x.devices :
           ~(x.devices[k] \in DOMAIN SlotMap(v, x) /\ SlotMap(v, x)[x.devices[k]] = s)
  PROVE  Times(v, x, s) = 0
<1>1. DevicesOn(v, x, s) = {}
  BY DEF DevicesOn
<1>. QED
  BY <1>1, FS_EmptySet DEF Times

Apart(i, j) ==
  \A s \in PciSlots : Times(View, Registered(i), s) = 0 \/ Times(View, Registered(j), s) = 0

LEMMA SpreadOutApart ==
  SpreadOut <=> \A i, j \in listed : i # j /\ model[i] = model[j] => Apart(i, j)
<1>1. \A i \in listed : FleetWithout({})[i] = Registered(i)
  BY DEF FleetWithout, Registered
<1>. QED
  BY <1>1 DEF SpreadOut, Apart

LEMMA SpreadStep ==
  ASSUME TypeInv, SpreadOut, [Next]_vars PROVE SpreadOut'
<1>0. (SpreadOut <=> \A i, j \in listed : i # j /\ model[i] = model[j] => Apart(i, j))'
  BY SpreadOutApart, PTL
<1>1. CASE listed' \subseteq listed /\ UNCHANGED <<model, devices>>
  <2>1. \A i, j \in listed : Apart(i, j) => Apart(i, j)'
    BY <1>1 DEF Apart, Registered, View
  <2>. QED
    BY <1>0, <1>1, <2>1, SpreadOutApart
<1>2. ASSUME NEW m \in Models, NEW i \in Instances, Spawns(m, i)
      PROVE  SpreadOut'
  <2>. DEFINE fleet == FleetWithout({})
              chosen == SelectGpus(View, fleet, m)
              new == [model |-> m, devices |-> chosen]
  <2>1. /\ i \notin listed /\ listed' = listed \cup {i}
        /\ \A j \in listed : Registered(j)' = Registered(j) /\ model'[j] = model[j]
        /\ model'[i] = m /\ Registered(i)' = new
    BY <1>2, FleetGrows
  <2>2. ASSUME NEW j \in listed, model[j] = m, NEW s \in PciSlots,
               Times(View, new, s) # 0
        PROVE  Times(View, Registered(j), s) = 0
    <3>1. chosen \in Seq(Nat) /\ new.devices = chosen
      BY Given DEF TypeInv, IdleInv
    <3>. HIDE DEF chosen
    <3>2. SlotMap(View, new) = SlotOf[Config[m].kind]
      BY FleetAssumption DEF SlotMap, View
    <3>3. PICK k \in DOMAIN chosen : SlotOf[Config[m].kind][chosen[k]] = s
      <4>. HIDE DEF new
      <4>. QED
        BY <2>2, <3>1, <3>2, TimesNone
    <3>4. Fits(View, fleet, m, chosen[k])
      BY GivenFits DEF chosen
    <3>5. j \in DOMAIN fleet /\ fleet[j].model = m /\ fleet[j] = Registered(j)
      BY <2>2 DEF FleetWithout, Registered
    <3>. QED
      BY <3>3, <3>4, <3>5 DEF Fits, View
  <2>. HIDE DEF new
  <2>3. ASSUME NEW a \in listed', NEW b \in listed', a # b, model'[a] = model'[b]
        PROVE  Apart(a, b)'
    <3>1. CASE a \in listed /\ b \in listed
      <4>1. Apart(a, b)
        BY <2>1, <2>3, <3>1, SpreadOutApart
      <4>. QED
        BY <2>1, <3>1, <4>1 DEF Apart, View
    <3>2. CASE a = i
      BY <2>1, <2>2, <2>3, <3>2 DEF Apart, View
    <3>3. CASE b = i
      BY <2>1, <2>2, <2>3, <3>3 DEF Apart, View
    <3>. QED
      BY <2>1, <3>1, <3>2, <3>3
  <2>. QED
    BY <1>0, <2>3
<1>. QED
  BY <1>1, <1>2, FleetMoves

\* However spawns, evictions and the autoscaler interleave, no two registered
\* instances of a model share a card, whatever namespaces know it by.
THEOREM NeverTwiceOnACard == Spec => []SpreadOut
<1>1. Init => SpreadOut
  BY DEF Init, FleetInit, SpreadOut
<1>2. TypeInv /\ SpreadOut /\ [Next]_vars => (TypeInv /\ SpreadOut)'
  BY TypeStep, SpreadStep
<1>. QED
  BY <1>1, <1>2, InitTypes, PTL DEF Spec

-----------------------------------------------------------------------------
(* Memory. *)

\* No pool names a device twice, and no namespace a slot.  The second is a rule of
\* the configuration, the first is not.
NamedOnce ==
  /\ \A m \in Models : IsInjective(Config[m].pool)
  /\ \A k \in DOMAIN SlotOf : IsInjective(SlotOf[k])

\* What a new instance adds to a slot was free there.
LEMMA GivenHasRoom ==
  ASSUME TypeInv, NamedOnce, NEW m \in Models, NEW s \in DOMAIN Total, NEW x,
         x = [model |-> m, devices |-> SelectGpus(View, FleetWithout({}), m)],
         Used(View, FleetWithout({}), s) <= Total[s]
  PROVE  Share(View, x, s) + Used(View, FleetWithout({}), s) <= Total[s]
<1>. DEFINE fleet == FleetWithout({})
            chosen == SelectGpus(View, fleet, m)
            pool == Config[m].pool
            kind == Config[m].kind
            vram == Config[m].vram
            used == Used(View, fleet, s)
<1>1. WellFormed(View) /\ IsFleet(fleet)
  BY FleetAssumption, RegisteredIsFleet DEF TypeInv, IdleInv
<1>2. pool \in Seq(Nat) /\ chosen \in Seq(Nat) /\ Candidates(View, fleet, m) \subseteq DOMAIN pool
      /\ PicksFrom(chosen, Candidates(View, fleet, m), pool)
  BY Given DEF TypeInv, IdleInv
<1>3. vram \in Nat /\ kind \in DOMAIN SlotOf /\ Total[s] \in Nat
  BY <1>1, FleetAssumption, TotalAssumption DEF WellFormed, View
<1>4. used \in Nat
  BY <1>1, UsedByFewer
<1>5. Vram(View, x.model) = vram /\ SlotMap(View, x) = SlotOf[kind] /\ x.devices = chosen
  BY FleetAssumption DEF Vram, SlotMap, View
<1>6. Share(View, x, s) = vram * Times(View, x, s)
  BY <1>5 DEF Share
<1>. HIDE DEF vram, used, chosen
<1>7. ASSUME NEW a \in DOMAIN chosen, NEW b \in DOMAIN chosen, chosen[a] = chosen[b] PROVE a = b
  <2>. DEFINE C == Candidates(View, fleet, m)
  <2>. HIDE DEF C, pool
  <2>1. PICK p \in [DOMAIN chosen -> C] :
          /\ \A j, k \in DOMAIN chosen : p[j] = p[k] => j = k
          /\ \A n \in DOMAIN chosen : chosen[n] = pool[p[n]]
    BY <1>2 DEF PicksFrom, C
  <2>2. C \subseteq DOMAIN pool /\ IsInjective(pool)
    BY <1>2 DEF NamedOnce, C, pool
  <2>3. p[a] \in DOMAIN pool /\ p[b] \in DOMAIN pool /\ pool[p[a]] = pool[p[b]]
    BY <1>7, <2>1, <2>2
  <2>. QED
    BY <2>1, <2>2, <2>3 DEF IsInjective
<1>8. CASE DevicesOn(View, x, s) = {}
  <2>1. Times(View, x, s) = 0
    BY <1>8, FS_EmptySet DEF Times
  <2>2. Share(View, x, s) = 0
    BY <1>3, <1>6, <2>1
  <2>. QED
    BY <1>3, <1>4, <2>2 DEF used
<1>9. ASSUME NEW k \in DevicesOn(View, x, s)
      PROVE  Share(View, x, s) + used <= Total[s]
  <2>. DEFINE d == chosen[k]
  <2>1. k \in DOMAIN chosen /\ d \in DOMAIN SlotOf[kind] /\ SlotOf[kind][d] = s
    BY <1>5 DEF DevicesOn
  <2>2. DevicesOn(View, x, s) = {k}
    <3>1. ASSUME NEW j \in DevicesOn(View, x, s) PROVE j = k
      <4>1. j \in DOMAIN chosen /\ chosen[j] \in DOMAIN SlotOf[kind] /\ SlotOf[kind][chosen[j]] = s
        BY <1>5 DEF DevicesOn
      <4>2. chosen[j] = d
        BY <1>3, <2>1, <4>1 DEF NamedOnce, IsInjective
      <4>. QED
        BY <1>7, <2>1, <4>1, <4>2
    <3>. QED
      BY <3>1
  <2>3. Share(View, x, s) = vram
    <3>1. Times(View, x, s) = 1
      BY <2>2, FS_Singleton DEF Times
    <3>. QED
      BY <1>3, <1>6, <3>1
  <2>4. Fits(View, fleet, m, d)
    BY <2>1, GivenFits DEF chosen
  <2>. DEFINE least == Min(Capacities(View, kind, d))
              free == Free(View, fleet, kind, d)
  <2>5. Capacities(View, kind, d) # {} /\ free >= vram
    BY <2>4 DEF Fits, View, vram
  <2>6. View.slots[kind][d] = s
    BY <2>1 DEF View
  <2>7. least \in Nat /\ least <= Total[s]
    BY <1>1, <2>5, <2>6, CapacityType
  <2>8. free = IF least <= used THEN 0 ELSE least - used
    BY <1>1, <2>5, <2>6, FreeType DEF used
  <2>. HIDE DEF least, free
  <2>9. used <= Total[s]
    BY DEF used
  <2>. QED
    BY <1>3, <1>4, <2>3, <2>5, <2>7, <2>8, <2>9
<1>. QED
  BY <1>8, <1>9 DEF used

LEMMA TypesGiveFleet ==
  InstTypes /\ DeviceTypes => IsFleet(FleetWithout({})) /\ DOMAIN FleetWithout({}) = listed
BY RegisteredIsFleet

LEMMA RoomStep ==
  ASSUME TypeInv, NamedOnce, NoOversubscription, [Next]_vars
  PROVE  NoOversubscription'
<1>. DEFINE fleet == FleetWithout({})
            other == FleetWithout({})'
<1>. SUFFICES ASSUME NEW s \in PciSlots \cap DOMAIN Total
     PROVE  Used(View, other, s) <= Total[s]
  BY DEF NoOversubscription, View
<1>1. WellFormed(View) /\ IsFleet(fleet) /\ DOMAIN fleet = listed
  BY FleetAssumption, RegisteredIsFleet DEF TypeInv, IdleInv
<1>2. IsFleet(other) /\ DOMAIN other = listed'
  <2>1. (InstTypes /\ DeviceTypes)'
    BY TypeStep DEF TypeInv, IdleInv
  <2>2. (InstTypes /\ DeviceTypes => IsFleet(FleetWithout({})) /\ DOMAIN FleetWithout({}) = listed)'
    BY TypesGiveFleet, PTL
  <2>. QED
    BY <2>1, <2>2
<1>3. /\ \A j \in listed : fleet[j] = Registered(j)
      /\ \A j \in listed' : other[j] = Registered(j)'
  BY DEF FleetWithout, Registered
<1>4. Used(View, fleet, s) <= Total[s] /\ Total[s] \in Nat
  BY TotalAssumption DEF NoOversubscription
<1>. HIDE DEF fleet, other
<1>5. CASE listed' \subseteq listed /\ UNCHANGED <<model, devices>>
  <2>1. DOMAIN other \subseteq DOMAIN fleet /\ \A j \in DOMAIN other : other[j] = fleet[j]
    BY <1>1, <1>2, <1>3, <1>5 DEF Registered
  <2>2. Used(View, other, s) <= Used(View, fleet, s)
        /\ Used(View, other, s) \in Nat /\ Used(View, fleet, s) \in Nat
    BY <1>1, <2>1, UsedByFewer
  <2>. QED
    BY <1>4, <2>2
<1>6. ASSUME NEW m \in Models, NEW i \in Instances, Spawns(m, i)
      PROVE  Used(View, other, s) <= Total[s]
  <2>. DEFINE x == [model |-> m, devices |-> SelectGpus(View, FleetWithout({}), m)]
  <2>1. /\ i \notin listed /\ listed' = listed \cup {i}
        /\ \A j \in listed : Registered(j)' = Registered(j)
        /\ Registered(i)' = x
    BY <1>6, FleetGrows
  <2>2. Share(View, x, s) + Used(View, fleet, s) <= Total[s]
    BY <1>4, GivenHasRoom DEF fleet
  <2>. HIDE DEF x
  <2>3. /\ DOMAIN other = DOMAIN fleet \cup {i} /\ i \notin DOMAIN fleet
        /\ \A j \in DOMAIN fleet : other[j] = fleet[j]
        /\ other[i] = x
    BY <1>1, <1>2, <1>3, <2>1
  <2>4. Used(View, other, s) = Share(View, x, s) + Used(View, fleet, s)
    BY <1>1, <1>2, <2>3, UsedWithOneMore
  <2>. QED
    BY <2>2, <2>4
<1>. QED
  BY <1>5, <1>6, FleetMoves

\* The registered instances never declare more VRAM on a card than it has, in every
\* interleaving of spawns, evictions and the autoscaler, on any cards that are known
\* by different numbers in different namespaces: if a pool names no device twice.
THEOREM MemorySuffices == ASSUME NamedOnce PROVE Spec => []NoOversubscription
<1>1. Init => NoOversubscription
  <2>. SUFFICES ASSUME Init, NEW s \in DOMAIN Total
       PROVE  Used(View, FleetWithout({}), s) <= Total[s]
    BY DEF NoOversubscription
  <2>1. DOMAIN FleetWithout({}) = {}
    BY DEF Init, FleetInit, FleetWithout
  <2>2. Used(View, FleetWithout({}), s) = 0
    BY <2>1, SumOfNone, UsedIsSum
  <2>. QED
    BY <2>2, TotalAssumption
<1>2. TypeInv /\ NoOversubscription /\ [Next]_vars => (TypeInv /\ NoOversubscription)'
  BY TypeStep, RoomStep
<1>. QED
  BY <1>1, <1>2, InitTypes, PTL DEF Spec
===============================================================================
