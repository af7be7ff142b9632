------------------------------ MODULE MCScaling ------------------------------
(* Two models on three cards: the large one needs two of them, which have a *)
(* number in both namespaces; the small one needs one.                      *)
EXTENDS ScalingHistory

CONSTANTS small, large, i1, i2, i3, i4, r1, r2, r3

Pair ==
  [m \in {small, large} |->
    IF m = small
    THEN [kind |-> "vulkan", pool |-> <<0, 1, 2>>, gpus |-> 1, vram |-> 2,
          maxConcurrent |-> 1, maxInstances |-> 2, autoscale |-> TRUE]
    ELSE [kind |-> "rocm", pool |-> <<0, 1>>, gpus |-> 2, vram |-> 3,
          maxConcurrent |-> 1, maxInstances |-> 1, autoscale |-> FALSE]]

\* The pool of the large model names one card twice.
Twice == [Pair EXCEPT ![large].pool = <<0, 0>>]

Cards  == [vulkan |-> 0 :> "s0" @@ 1 :> "s1" @@ 2 :> "s2", rocm |-> 0 :> "s0" @@ 1 :> "s2"]
Limits == [others |-> 0 :> 4, cuda |-> <<>>]
Totals == "s0" :> 4 @@ "s1" :> 4 @@ "s2" :> 4

Direct(m) == [targets |-> <<m>>, policy |-> "prefer_loaded", makeRoom |-> "none"]

Mixed ==
  [r \in {r1, r2, r3} |->
     IF r = r3 THEN [targets |-> <<large, small>>, policy |-> "prefer_order",
                     makeRoom |-> "drain_surplus"]
     ELSE IF r = r2 THEN [targets |-> <<large, small>>, policy |-> "prefer_loaded",
                     makeRoom |-> "evict_idle"]
     ELSE Direct(small)]

Symmetry == Permutations(Instances)
===============================================================================
