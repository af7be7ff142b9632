------------------------------- MODULE GpuSelect -------------------------------
(***************************************************************************)
(* Which devices a new instance gets (select_gpus_inner).                  *)
(*                                                                         *)
(* Devices are numbered per namespace (Vulkan, CUDA, ROCm); a PCI slot is  *)
(* what two namespaces have in common, so VRAM is accounted by slot.  A    *)
(* view v is what the configuration in force says of models, device maps   *)
(* and limits; a fleet maps instances to their model and their devices.    *)
(***************************************************************************)
EXTENDS Integers, SequencesExt, FiniteSetsExt, TLC

CONSTANT Total  \* PCI slot -> VRAM the GPU reports, where it reports any

ASSUME TotalAssumption == \A s \in DOMAIN Total : Total[s] \in Nat

\* What a parsed configuration is, as far as devices are concerned: every model's
\* namespace has a map, and numbers are numbers.
WellFormed(v) ==
  /\ \A m \in DOMAIN v.models :
       /\ v.models[m].kind \in DOMAIN v.slots
       /\ v.models[m].pool \in Seq(Nat)
       /\ v.models[m].gpus \in Nat \ {0}
       /\ v.models[m].vram \in Nat
  /\ \A d \in DOMAIN v.limits.others : v.limits.others[d] \in Nat
  /\ \A d \in DOMAIN v.limits.cuda : v.limits.cuda[d] \in Nat

\* The device map of an instance.  One of a model that is no longer configured is
\* taken for a Vulkan one without VRAM.
SlotMap(v, x) ==
  v.slots[IF x.model \in DOMAIN v.models THEN v.models[x.model].kind ELSE "vulkan"]

Vram(v, m) == IF m \in DOMAIN v.models THEN v.models[m].vram ELSE 0

\* The devices of an instance, by their place in its list, that are on a slot.
DevicesOn(v, x, s) ==
  {k \in DOMAIN x.devices : x.devices[k] \in DOMAIN SlotMap(v, x)
                             /\ SlotMap(v, x)[x.devices[k]] = s}

Times(v, x, s) == Cardinality(DevicesOn(v, x, s))

Occupants(v, fleet, s) == SumFunction([i \in DOMAIN fleet |-> Times(v, fleet[i], s)])

\* The declared VRAM of an instance counts in full on each of its devices.
Used(v, fleet, s) ==
  SumFunction([i \in DOMAIN fleet |-> Vram(v, fleet[i].model) * Times(v, fleet[i], s)])

\* Vulkan and ROCm devices with one number share the limit set for that number,
\* even where they are different cards.
LimitsOf(v, kind) == IF kind = "cuda" THEN v.limits.cuda ELSE v.limits.others

\* The configured limit caps what the GPU reports; only a CUDA device is used
\* on its limit alone.
Capacities(v, kind, d) ==
  LET s == v.slots[kind][d]
      limits == IF d \in DOMAIN LimitsOf(v, kind) THEN {LimitsOf(v, kind)[d]} ELSE {}
      totals == IF s \in DOMAIN Total THEN {Total[s]} ELSE {}
  IN IF totals = {} /\ kind # "cuda" THEN {} ELSE limits \cup totals

\* Never below nothing, so that a model without VRAM fits everywhere.
Free(v, fleet, kind, d) ==
  Max({0, Min(Capacities(v, kind, d)) - Used(v, fleet, v.slots[kind][d])})

\* Mutant: a second instance of a model may join the first on its card.
FitsBeside(v, fleet, m, d) ==
  LET c == v.models[m]
  IN /\ d \in DOMAIN v.slots[c.kind]
     /\ Capacities(v, c.kind, d) # {}
     /\ Free(v, fleet, c.kind, d) >= c.vram

\* A device of the pool that has room and no instance of the same model.
Fits(v, fleet, m, d) ==
  LET c == v.models[m]
  IN /\ d \in DOMAIN v.slots[c.kind]
     /\ Capacities(v, c.kind, d) # {}
     /\ \A i \in DOMAIN fleet : fleet[i].model = m => Times(v, fleet[i], v.slots[c.kind][d]) = 0
     /\ Free(v, fleet, c.kind, d) >= c.vram

\* The places in the pool whose devices fit.
Candidates(v, fleet, m) == {k \in DOMAIN v.models[m].pool : Fits(v, fleet, m, v.models[m].pool[k])}

\* The candidates in front of each: least occupied first, then most free memory,
\* then the lower number.  The sort is stable: of a device that is named twice the
\* first place is first.
Ahead(v, fleet, m) ==
  LET c == v.models[m]
      candidates == Candidates(v, fleet, m)
      count == [k \in candidates |-> Occupants(v, fleet, v.slots[c.kind][c.pool[k]])]
      free  == [k \in candidates |-> Free(v, fleet, c.kind, c.pool[k])]
      before(j, k) ==
        \/ count[j] < count[k]
        \/ count[j] = count[k] /\ free[j] > free[k]
        \/ count[j] = count[k] /\ free[j] = free[k] /\ c.pool[j] < c.pool[k]
        \/ count[j] = count[k] /\ free[j] = free[k] /\ c.pool[j] = c.pool[k] /\ j < k
  IN [k \in candidates |-> {j \in candidates : before(j, k)}]

\* As many entries of the pool as the model needs, or none.
SelectGpus(v, fleet, m) ==
  LET c == v.models[m]
      candidates == Candidates(v, fleet, m)
      ahead == Ahead(v, fleet, m)
      ranked(n) == CHOOSE k \in candidates : Cardinality(ahead[k]) = n - 1
  IN IF Cardinality(candidates) < c.gpus THEN <<>>
     ELSE [n \in 1..c.gpus |-> c.pool[ranked(n)]]

\* A model without a device pool runs on the CPU, another on all it needs: a spawn
\* is worth the while if SelectGpus would give it that many.
Placeable(v, fleet, m) ==
  v.models[m].pool = <<>> \/ Cardinality(Candidates(v, fleet, m)) >= v.models[m].gpus
===============================================================================
