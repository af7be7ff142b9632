-------------------------------- MODULE Scaling --------------------------------
(***************************************************************************)
(* Requests that choose between models, evict instances to make room, and  *)
(* the autoscaler that grows and shrinks the models beside them.           *)
(*                                                                         *)
(* All of them plan on a view of the fleet that others change before the   *)
(* plan is carried out: each victim, and each spawn, is another action.    *)
(* A queue is reduced to what module SlotPool promises of it, and load     *)
(* averages and ages to the decisions taken on them: either may be taken.  *)
(***************************************************************************)
EXTENDS Fleet

CONSTANTS
  Requests,
  Route,       \* request -> targets, policy and makeRoom of the name it asks for
  Autoscaler, ReleaseTask,
  Surplus,     \* models the autoscaler evaluates, and
  MaxTurns     \* how often it does: bounds of the behaviours

Workers == Requests \cup Models \cup {Autoscaler, ReleaseTask}

ASSUME ScalingAssumption ==
  /\ IsFiniteSet(Instances) /\ IsFiniteSet(Requests) /\ None \notin Instances
  /\ \A m \in Models : Config[m].maxInstances \in Nat
  /\ \A r \in Requests :
       /\ Route[r].targets \in Seq(Models) \ {<<>>}
       /\ Route[r].policy \in {"prefer_loaded", "prefer_order"}
       /\ Route[r].makeRoom \in {"none", "evict_idle", "drain_surplus"}
  /\ Surplus \subseteq Models /\ MaxTurns \in Nat

VARIABLES
  pc,       \* request -> where acquire_for_candidates is
  round,    \* request -> the pass it is in
  at,       \* request -> the target it looks at
  plan,     \* request -> the victims planned and not yet dealt with
  slot,     \* request -> the instance it holds a slot of
  spawn,    \* model -> its spawn task: idle, wanted, serial, loading or cleaning
  fresh,    \* model -> the instance its spawn task waits for
  released, \* models with a release event not yet handled
  turn,     \* the model the autoscaler evaluates
  turns,    \* how many it has evaluated
  shrinking, \* whether it goes through the instances it may remove,
  spare,    \* and how many of them it still may
  todo,     \* worker -> the instances it has listed and will remove
  hand      \* worker -> the instance it removes: which, and if it took the child

requestVars == <<pc, round, at, plan, slot>>
scaleVars   == <<turn, turns, shrinking, spare>>
removalVars == <<todo, hand>>
spawnVars   == <<spawn, fresh>>
vars == <<fleetVars, requestVars, spawnVars, released, scaleVars, removalVars>>

Nothing == [inst |-> None, took |-> FALSE]

PCs == {"new", "consider", "plan", "execute", "drain", "waiting", "queue", "parked",
        "serving", "done"}
Victims == [inst : Instances, drain : BOOLEAN]

TypeOK ==
  /\ FleetTypeOK
  /\ pc \in [Requests -> PCs]
  /\ round \in [Requests -> {"free", "evict", "each"}]
  /\ \A r \in Requests : at[r] \in DOMAIN Route[r].targets /\ plan[r] \in Seq(Victims)
  /\ slot \in [Requests -> Instances \cup {None}]
  /\ spawn \in [Models -> {"idle", "wanted", "serial", "loading", "cleaning"}]
  /\ fresh \in [Models -> Instances \cup {None}]
  /\ released \subseteq Models
  /\ turn \in Models \cup {None} /\ turns \in 0..MaxTurns /\ shrinking \in BOOLEAN /\ spare \in Nat
  /\ todo \in [Workers -> SUBSET Instances]
  /\ hand \in [Workers -> [inst : Instances \cup {None}, took : BOOLEAN]]

Init ==
  /\ FleetInit
  /\ pc = [r \in Requests |-> "new"]
  /\ round = [r \in Requests |-> IF Route[r].policy = "prefer_order" THEN "each" ELSE "free"]
  /\ at = [r \in Requests |-> 1]
  /\ plan = [r \in Requests |-> <<>>]
  /\ slot = [r \in Requests |-> None]
  /\ spawn = [m \in Models |-> "idle"]
  /\ fresh = [m \in Models |-> None]
  /\ released = {}
  /\ turn = None /\ turns = 0 /\ shrinking = FALSE /\ spare = 0
  /\ todo = [w \in Workers |-> {}]
  /\ hand = [w \in Workers |-> Nothing]

-----------------------------------------------------------------------------
(* Removing an instance, step by step, as any worker does it. *)

HandFree(w) == hand[w] = Nothing

\* Failed, and the child taken by whoever comes first.
BeginRemoval(w, i) ==
  /\ state' = [state EXCEPT ![i] = "failed"]
  /\ hand' = [hand EXCEPT ![w] = [inst |-> i, took |-> i \in child]]
  /\ child' = child \ {i}

\* Mutant: the removal does not look at the in-flight counter again.
RemoveBlindly(w, i) ==
  /\ BeginRemoval(w, i)
  /\ UNCHANGED <<model, devices, listed, alive, inFlight>>

\* remove_instance: an instance that has become busy is left alone.
RemoveIfIdle(w, i) ==
  /\ \/ inFlight[i] = 0 /\ BeginRemoval(w, i)
     \/ inFlight[i] > 0 /\ UNCHANGED <<state, hand, child>>
  /\ UNCHANGED <<model, devices, listed, alive, inFlight>>

\* drain_instance: a busy instance becomes unroutable.
Drain(w, i) ==
  /\ \/ inFlight[i] = 0 /\ BeginRemoval(w, i)
     \/ /\ inFlight[i] > 0
        /\ state' = [state EXCEPT ![i] = "failed"]
        /\ UNCHANGED <<hand, child>>
  /\ UNCHANGED <<model, devices, listed, alive, inFlight>>

\* force_remove_instance, on an instance listed by reap_drained.
Reap(w, i) ==
  /\ BeginRemoval(w, i)
  /\ UNCHANGED <<model, devices, listed, alive, inFlight>>

\* shutdown_child returns when the process is gone, ...
Terminate(w) ==
  /\ hand[w].inst # None /\ hand[w].took
  /\ alive' = alive \ {hand[w].inst}
  /\ hand' = [hand EXCEPT ![w].took = FALSE]
  /\ UNCHANGED <<model, state, devices, listed, child, inFlight,
                 requestVars, spawnVars, released, scaleVars, todo>>

\* ... and unregister_instance follows: at once for a worker without a child.
Unregister(w) ==
  /\ hand[w].inst # None /\ ~hand[w].took
  /\ listed' = listed \ {hand[w].inst}
  /\ hand' = [hand EXCEPT ![w] = Nothing]
  /\ UNCHANGED <<model, state, devices, child, alive, inFlight,
                 requestVars, spawnVars, released, scaleVars, todo>>

\* reap_drained lists these.
Drained(m) == {i \in Of(m) : state[i] = "failed" /\ inFlight[i] = 0}

ReapNext(w) ==
  /\ HandFree(w)
  /\ w = Autoscaler => ~shrinking
  /\ \E i \in todo[w] :
       /\ Reap(w, i)
       /\ todo' = [todo EXCEPT ![w] = @ \ {i}]
  /\ UNCHANGED <<requestVars, spawnVars, released, scaleVars>>

\* The release task, after wake_one.
HandleRelease ==
  /\ HandFree(ReleaseTask) /\ todo[ReleaseTask] = {}
  /\ \E m \in released :
       /\ released' = released \ {m}
       /\ todo' = [todo EXCEPT ![ReleaseTask] = Drained(m)]
  /\ UNCHANGED <<fleetVars, requestVars, spawnVars, scaleVars, hand>>

-----------------------------------------------------------------------------
(* acquire_for_candidates *)

Target(r) == Route[r].targets[at[r]]
Goto(r, l) == pc' = [pc EXCEPT ![r] = l]

\* Past the candidates, the loop's position is of no account.
LoopEnds(r) == at' = [at EXCEPT ![r] = 1] /\ UNCHANGED round

Take(r, i) ==
  /\ inFlight' = [inFlight EXCEPT ![i] = @ + 1]
  /\ slot' = [slot EXCEPT ![r] = i]
  /\ Goto(r, "serving")
  /\ LoopEnds(r)
  /\ UNCHANGED <<model, state, devices, listed, child, alive>>

\* The next candidate, the next pass, or the queue.
Advance(r) ==
  \/ /\ at[r] < Len(Route[r].targets)
     /\ at' = [at EXCEPT ![r] = @ + 1]
     /\ Goto(r, "consider")
     /\ UNCHANGED round
  \/ /\ at[r] = Len(Route[r].targets)
     /\ round[r] = "free" /\ Route[r].makeRoom # "none"
     /\ round' = [round EXCEPT ![r] = "evict"]
     /\ at' = [at EXCEPT ![r] = 1]
     /\ Goto(r, "consider")
  \/ /\ at[r] = Len(Route[r].targets)
     /\ round[r] # "free" \/ Route[r].makeRoom = "none"
     /\ Goto(r, "queue")
     /\ UNCHANGED <<round, at>>

\* prefer_loaded: the first candidate with a warm slot, before anything else.
PassA(r) ==
  /\ pc[r] = "new"
  /\ LET t == Route[r].targets
         warm == {k \in DOMAIN t : Warm(t[k]) # {}}
     IN \/ /\ round[r] = "free" /\ warm # {}
           /\ \E i \in Warm(t[Min(warm)]) : Take(r, i)
        \/ /\ round[r] = "each" \/ warm = {}
           /\ Goto(r, "consider")
           /\ UNCHANGED <<fleetVars, slot, round, at>>
  /\ UNCHANGED <<plan, spawnVars, released, scaleVars, removalVars>>

\* should_spawn: a model that is scaled by its load may rather queue.
MayQueue(m) == Config[m].autoscale /\ Active(m) # {}

\* A candidate is served, spawned, made room for, or passed over.
Consider(r) ==
  LET m == Target(r)
      fits == Feasible(m, {})
      evicts == Route[r].makeRoom # "none"
      warm == round[r] = "each" /\ Warm(m) # {}
  IN /\ pc[r] = "consider"
     /\ \/ /\ warm
           /\ \E i \in Warm(m) : Take(r, i)
           /\ UNCHANGED <<plan, spawn>>
        \/ /\ ~warm /\ fits /\ round[r] # "evict"
           /\ Goto(r, "waiting")
           /\ spawn' = [spawn EXCEPT ![m] = IF @ = "idle" THEN "wanted" ELSE @]
           /\ UNCHANGED <<fleetVars, round, at, plan, slot>>
        \/ /\ ~warm /\ ~fits /\ evicts /\ round[r] # "free"
           /\ Goto(r, "plan")
           /\ plan' = [plan EXCEPT ![r] = <<>>]
           /\ UNCHANGED <<fleetVars, round, at, slot, spawn>>
        \/ /\ ~warm
           /\ \/ MayQueue(m)
              \/ fits /\ round[r] = "evict"
              \/ ~fits /\ (round[r] = "free" \/ ~evicts)
           /\ Advance(r)
           /\ UNCHANGED <<fleetVars, plan, slot, spawn>>
     /\ UNCHANGED <<fresh, released, scaleVars, removalVars>>

\* spawn_and_acquire: the spawn has ended, or the wait for it; one more look.
SpawnWaited(r) ==
  LET m == Target(r)
  IN /\ pc[r] = "waiting"
     /\ \/ \E i \in Warm(m) : Take(r, i)
        \/ Warm(m) = {} /\ Advance(r) /\ UNCHANGED <<fleetVars, slot>>
     /\ UNCHANGED <<plan, spawnVars, released, scaleVars, removalVars>>

-----------------------------------------------------------------------------
(* Make-room *)

Planned(r) == {plan[r][k].inst : k \in DOMAIN plan[r]}

\* next_make_room_victim: an idle duplicate, else an idle last instance, else,
\* if the alias allows it, a busy duplicate of another model.  Of the idle ones
\* any may have rested longest, and past its protection.
NextVictims(r) ==
  LET others == {i \in listed \ Planned(r) : state[i] # "failed"}
      count(i) == Cardinality({j \in others : model[j] = model[i]})
      idle == {i \in others : state[i] = "ready" /\ inFlight[i] = 0}
      dups == {i \in idle : count(i) >= 2}
      busy == {i \in others : /\ model[i] # Target(r)
                              /\ inFlight[i] > 0 /\ count(i) >= 2}
  IN IF idle # {}
     THEN {[inst |-> i, drain |-> FALSE] : i \in IF dups # {} THEN dups ELSE idle}
     ELSE IF Route[r].makeRoom = "drain_surplus"
          THEN {[inst |-> i, drain |-> TRUE] :
                  i \in {b \in busy : \A c \in busy : inFlight[b] <= inFlight[c]}}
          ELSE {}

\* plan_make_room adds victims until the model would fit, or gives up (idle
\* instances may all be protected).
PlanMakeRoom(r) ==
  LET fits == Feasible(Target(r), Planned(r))
  IN /\ pc[r] = "plan"
     /\ \/ /\ fits
           /\ Goto(r, "execute")
           /\ UNCHANGED <<round, at, plan>>
        \/ /\ ~fits
           /\ \E v \in NextVictims(r) : plan' = [plan EXCEPT ![r] = Append(@, v)]
           /\ UNCHANGED <<pc, round, at>>
        \/ /\ ~fits
           /\ \A v \in NextVictims(r) : ~v.drain
           /\ plan' = [plan EXCEPT ![r] = <<>>]
           /\ Advance(r)
     /\ UNCHANGED <<fleetVars, slot, spawnVars, released, scaleVars, removalVars>>

Rest(r) == plan' = [plan EXCEPT ![r] = Tail(@)]

\* execute_make_room goes through the plan as it was made; then comes the spawn.
ExecuteMakeRoom(r) ==
  /\ pc[r] = "execute" /\ HandFree(r)
  /\ \/ /\ plan[r] = <<>>
        /\ Goto(r, "waiting")
        /\ spawn' = [spawn EXCEPT ![Target(r)] = IF @ = "idle" THEN "wanted" ELSE @]
        /\ UNCHANGED <<fleetVars, plan, hand>>
     \/ /\ plan[r] # <<>> /\ ~Head(plan[r]).drain
        /\ RemoveIfIdle(r, Head(plan[r]).inst)
        /\ Rest(r)
        /\ UNCHANGED <<pc, spawn>>
     \/ /\ plan[r] # <<>> /\ Head(plan[r]).drain
        /\ Drain(r, Head(plan[r]).inst)
        /\ Goto(r, "drain")
        /\ UNCHANGED <<plan, spawn>>
  /\ UNCHANGED <<round, at, slot, fresh, released, scaleVars, todo>>

\* The bounded wait for a draining victim, which reaps along the way.
AwaitDrained(r) ==
  /\ pc[r] = "drain" /\ HandFree(r) /\ todo[r] = {}
  /\ LET i == Head(plan[r]).inst
     IN \/ /\ Drained(model[i]) # {}
           /\ todo' = [todo EXCEPT ![r] = Drained(model[i])]
           /\ UNCHANGED <<pc, plan>>
        \/ Goto(r, "execute") /\ Rest(r) /\ UNCHANGED todo
  /\ UNCHANGED <<fleetVars, round, at, slot, spawnVars, released, scaleVars, hand>>

-----------------------------------------------------------------------------
(* The queue, as SlotPool has it, and the response. *)

\* Pass C: the first candidate with a routable instance, or the first.
Park(r) ==
  /\ pc[r] = "queue"
  /\ LET t == Route[r].targets
         loaded == {k \in DOMAIN t : Active(t[k]) # {}}
     IN \/ loaded = {} /\ Goto(r, "done") /\ LoopEnds(r)
        \/ /\ loaded # {}
           /\ at' = [at EXCEPT ![r] = Min(loaded)]
           /\ Goto(r, "parked")
           /\ UNCHANGED round
  /\ UNCHANGED <<fleetVars, plan, slot, spawnVars, released, scaleVars, removalVars>>

Served(r) ==
  /\ pc[r] = "parked"
  /\ \E i \in Warm(Target(r)) : Take(r, i)
  /\ UNCHANGED <<plan, spawnVars, released, scaleVars, removalVars>>

GiveUp(r) ==
  /\ pc[r] = "parked"
  /\ Goto(r, "done") /\ LoopEnds(r)
  /\ UNCHANGED <<fleetVars, plan, slot, spawnVars, released, scaleVars, removalVars>>

\* Mutant: the guard is dropped, and the handler releases the slot as well.
ReleaseSlotTwice(i) == inFlight' = [inFlight EXCEPT ![i] = @ - 2]

ReleaseSlot(i) == inFlight' = [inFlight EXCEPT ![i] = @ - 1]

Finish(r) ==
  /\ pc[r] = "serving"
  /\ Goto(r, "done")
  /\ ReleaseSlot(slot[r])
  /\ released' = released \cup {model[slot[r]]}
  /\ slot' = [slot EXCEPT ![r] = None]
  /\ UNCHANGED <<model, state, devices, listed, child, alive,
                 round, at, plan, spawnVars, scaleVars, removalVars>>

-----------------------------------------------------------------------------
(* The spawn task of a model. *)

SpawnEnds(m) == /\ spawn' = [spawn EXCEPT ![m] = "idle"]
                /\ fresh' = [fresh EXCEPT ![m] = None]

\* Mutant: the cap is left to the caller, who has looked at it.
BelowCapAlways(m) == TRUE

BelowCap(m) == Cardinality(Active(m)) < Config[m].maxInstances

\* try_spawn, from the permit of the spawn semaphore to the registration.
TrySpawn(m) ==
  LET chosen == SelectGpus(View, FleetWithout({}), m)
      fits == Placeable(View, FleetWithout({}), m)
  IN /\ spawn[m] = "wanted"
     /\ \A n \in Models : spawn[n] # "serial"
     /\ \/ /\ BelowCap(m) /\ fits
           /\ \E i \in Instances :
                /\ state[i] = "absent"
                /\ model' = [model EXCEPT ![i] = m]
                /\ state' = [state EXCEPT ![i] = "loading"]
                /\ devices' = [devices EXCEPT ![i] = chosen]
                /\ listed' = listed \cup {i}
                /\ child' = child \cup {i}
                /\ alive' = alive \cup {i}
                /\ fresh' = [fresh EXCEPT ![m] = i]
           /\ spawn' = [spawn EXCEPT ![m] = "serial"]
        \/ /\ ~BelowCap(m) \/ ~fits
           /\ SpawnEnds(m)
           /\ UNCHANGED <<model, state, devices, listed, child, alive>>
     /\ UNCHANGED <<inFlight, requestVars, released, scaleVars, removalVars>>

\* No port, or no process.
SpawnRefused(m) ==
  /\ spawn[m] = "wanted"
  /\ SpawnEnds(m)
  /\ UNCHANGED <<fleetVars, requestVars, released, scaleVars, removalVars>>

\* A slow load gives the permit back.
SerialWindowEnds(m) ==
  /\ spawn[m] = "serial"
  /\ spawn' = [spawn EXCEPT ![m] = "loading"]
  /\ UNCHANGED <<fleetVars, requestVars, fresh, released, scaleVars, removalVars>>

\* The process answers: Ready, even if the autoscaler has begun to remove it.
SpawnReady(m) ==
  /\ spawn[m] \in {"serial", "loading"}
  /\ fresh[m] \in alive
  /\ state' = [state EXCEPT ![fresh[m]] = "ready"]
  /\ SpawnEnds(m)
  /\ UNCHANGED <<model, devices, listed, child, alive, inFlight,
                 requestVars, released, scaleVars, removalVars>>

\* The process died or was too slow: the spawn task removes the instance.
SpawnFails(m) ==
  /\ spawn[m] \in {"serial", "loading"}
  /\ BeginRemoval(m, fresh[m])
  /\ spawn' = [spawn EXCEPT ![m] = "cleaning"]
  /\ UNCHANGED <<model, devices, listed, alive, inFlight, fresh,
                 requestVars, released, scaleVars, todo>>

SpawnCleaned(m) ==
  /\ spawn[m] = "cleaning" /\ HandFree(m)
  /\ SpawnEnds(m)
  /\ UNCHANGED <<fleetVars, requestVars, released, scaleVars, removalVars>>

-----------------------------------------------------------------------------
(* evaluate_autoscale: model after model. *)

\* Cycle after cycle, in the order of a hash map: any model is next.  What is
\* drained of it is reaped first.
NextModel ==
  /\ turn = None /\ turns < MaxTurns
  /\ turns' = turns + 1
  /\ \E m \in Surplus :
       /\ Of(m) # {}
       /\ turn' = m
       /\ todo' = [todo EXCEPT ![Autoscaler] = Drained(m)]
  /\ UNCHANGED <<fleetVars, requestVars, spawnVars, released, shrinking, spare, hand>>

Reaped == turn # None /\ ~shrinking /\ todo[Autoscaler] = {} /\ HandFree(Autoscaler)

Count == Cardinality(Of(turn))

Turned == turn' = None /\ UNCHANGED <<turns, shrinking, spare, todo>>

\* Nothing to be done, or it is too early for it.
Leave ==
  /\ Reaped
  /\ Turned
  /\ UNCHANGED <<fleetVars, requestVars, spawnVars, released, hand>>

\* The load of the last five minutes is high and no spawn is in flight.
ScaleUp ==
  /\ Reaped
  /\ Config[turn].autoscale
  /\ Count > 0 /\ Count < Config[turn].maxInstances
  /\ spawn[turn] = "idle"
  /\ spawn' = [spawn EXCEPT ![turn] = "wanted"]
  /\ Turned
  /\ UNCHANGED <<fleetVars, requestVars, fresh, released, hand>>

\* The last instance has been idle for long, or there are more than one and the
\* load is low: the instances are listed.  Without an autoscale section all but
\* one may go, otherwise one.
Shrink ==
  /\ Reaped
  /\ Count > 0
  /\ shrinking' = TRUE
  /\ spare' = IF Count = 1 \/ Config[turn].autoscale THEN 1 ELSE Count - 1
  /\ todo' = [todo EXCEPT ![Autoscaler] =
                IF Count = 1 THEN {i \in Of(turn) : state[i] = "ready"} ELSE Of(turn)]
  /\ UNCHANGED <<fleetVars, requestVars, spawnVars, released, turn, turns, hand>>

\* Only an idle and Ready one has expired; a scale-down does not ask for Ready.
\* The order is that of the loads when they were listed: any.
ShrinkNext ==
  /\ shrinking /\ spare > 0 /\ HandFree(Autoscaler)
  /\ \E i \in todo[Autoscaler] :
       /\ todo' = [todo EXCEPT ![Autoscaler] = @ \ {i}]
       /\ \/ /\ state[i] = "ready" \/ Config[turn].autoscale
             /\ RemoveIfIdle(Autoscaler, i)
             /\ spare' = IF hand' # hand THEN spare - 1 ELSE spare
          \/ ~Config[turn].autoscale /\ UNCHANGED <<fleetVars, hand, spare>>
  /\ UNCHANGED <<requestVars, spawnVars, released, turn, turns, shrinking>>

ShrinkEnds ==
  /\ shrinking /\ HandFree(Autoscaler)
  /\ spare = 0 \/ todo[Autoscaler] = {}
  /\ turn' = None /\ shrinking' = FALSE /\ spare' = 0
  /\ todo' = [todo EXCEPT ![Autoscaler] = {}]
  /\ UNCHANGED <<fleetVars, requestVars, spawnVars, released, turns, hand>>

-----------------------------------------------------------------------------
RequestStep(r) ==
  \/ PassA(r) \/ Consider(r) \/ SpawnWaited(r) \/ PlanMakeRoom(r) \/ ExecuteMakeRoom(r)
  \/ AwaitDrained(r) \/ Park(r) \/ Served(r) \/ GiveUp(r) \/ Finish(r)

RemovalStep(w) == Terminate(w) \/ Unregister(w) \/ ReapNext(w)

SpawnStep(m) ==
  \/ TrySpawn(m) \/ SpawnRefused(m) \/ SerialWindowEnds(m)
  \/ SpawnReady(m) \/ SpawnFails(m) \/ SpawnCleaned(m)

AutoscalerStep ==
  NextModel \/ Leave \/ ScaleUp \/ Shrink \/ ShrinkNext \/ ShrinkEnds

AllDone == (\A r \in Requests : pc[r] = "done") /\ UNCHANGED vars

Next ==
  \/ \E r \in Requests : RequestStep(r)
  \/ \E w \in Workers : RemovalStep(w)
  \/ \E m \in Models : SpawnStep(m)
  \/ HandleRelease
  \/ AutoscalerStep
  \/ AllDone

Spec == Init /\ [][Next]_vars

-----------------------------------------------------------------------------
(* Properties. *)

PciSlots == UNION {{SlotOf[k][d] : d \in DOMAIN SlotOf[k]} : k \in DOMAIN SlotOf}

\* No GPU is given more than it has, although feasibility is checked without the
\* spawn semaphore, evictions run beside spawns, and one card has a number in
\* each namespace: what the registered instances declare fits (select_gpus_inner).
NoOversubscription ==
  \A s \in PciSlots \cap DOMAIN Total : Used(View, FleetWithout({}), s) <= Total[s]

\* A model is never spawned twice onto one card.
SpreadOut ==
  \A i, j \in listed :
    i # j /\ model[i] = model[j] =>
      LET fleet == FleetWithout({})
      IN \A s \in PciSlots : Times(View, fleet[i], s) = 0 \/ Times(View, fleet[j], s) = 0

\* The cap on routable instances holds although requests and the autoscaler look
\* at it long before the spawn (try_spawn checks it again).
CapRespected == \A m \in Models : Cardinality(Active(m)) <= Config[m].maxInstances

-----------------------------------------------------------------------------
(* What comments of the code say, and the code does not do. *)

\* scheduler.rs, scale-down: "in-flight requests must never be interrupted": a
\* request is served by a live process until it ends.  (No process crashes here.)
NeverInterrupted == \A r \in Requests : slot[r] # None => slot[r] \in alive

\* scheduler.rs, unregister_instance: "The caller must already have terminated (or
\* reaped) the child process": memory and port are free once an instance is gone.
UnlistedIsDead == alive \subseteq listed
=============================================================================
