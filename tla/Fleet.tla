--------------------------------- MODULE Fleet ---------------------------------
(***************************************************************************)
(* The instances of all models on all GPUs: what is registered, what has a *)
(* process, and which models could be spawned beside them.                 *)
(***************************************************************************)
EXTENDS GpuSelect

CONSTANTS
  Models, Instances,
  Config,   \* model -> its section of the configuration
  SlotOf,   \* namespace -> device -> PCI slot
  Limit,    \* configured VRAM, where there is one: others and cuda, by device
  None

View == [models |-> Config, slots |-> SlotOf, limits |-> Limit]

ASSUME FleetAssumption ==
  DOMAIN Config = Models /\ None \notin Models /\ WellFormed(View)

VARIABLES
  model,    \* instance -> its model, once it is spawned
  state,    \* instance -> absent, loading, ready or failed
  devices,  \* instance -> the devices it was given, in order
  listed,   \* the registry
  child,    \* instances whose handle still owns the child process
  alive,    \* instances whose process runs
  inFlight  \* instance -> its in-flight counter

fleetVars == <<model, state, devices, listed, child, alive, inFlight>>

FleetTypeOK ==
  /\ model \in [Instances -> Models \cup {None}]
  /\ state \in [Instances -> {"absent", "loading", "ready", "failed"}]
  /\ devices \in [Instances -> Seq(Nat)]
  /\ \A i \in Instances : IF model[i] = None THEN devices[i] = <<>>
                          ELSE Range(devices[i]) \subseteq Range(Config[model[i]].pool)
  /\ listed \subseteq Instances /\ child \subseteq alive /\ alive \subseteq Instances
  /\ inFlight \in [Instances -> Nat]

FleetInit ==
  /\ model = [i \in Instances |-> None]
  /\ state = [i \in Instances |-> "absent"]
  /\ devices = [i \in Instances |-> <<>>]
  /\ listed = {} /\ child = {} /\ alive = {}
  /\ inFlight = [i \in Instances |-> 0]

-----------------------------------------------------------------------------
Of(m) == {i \in listed : model[i] = m}

\* Retiring instances do not count: a replacement may be spawned beside them.
Active(m) == {i \in Of(m) : state[i] # "failed"}

\* acquire_ready_slot succeeds on one of these: the least loaded with room.
Warm(m) ==
  LET room == {i \in Of(m) : state[i] = "ready" /\ inFlight[i] < Config[m].maxConcurrent}
  IN {i \in room : \A j \in room : inFlight[i] <= inFlight[j]}

-----------------------------------------------------------------------------
\* Mutant: what is still loading takes no memory yet.
FleetLoaded(gone) ==
  [i \in {j \in listed \ gone : state[j] = "ready"} |-> [model |-> model[i], devices |-> devices[i]]]

\* The registered instances, with those in gone taken for removed.
FleetWithout(gone) == [i \in listed \ gone |-> [model |-> model[i], devices |-> devices[i]]]

\* spawn_feasible: below the cap, and the devices are there.
Feasible(m, gone) ==
  /\ Cardinality(Active(m) \ gone) < Config[m].maxInstances
  /\ Placeable(View, FleetWithout(gone), m)
===============================================================================
