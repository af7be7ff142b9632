----------------------------- MODULE MCLifecycle -----------------------------
(* Names for the instances, ports and configurations of the runs.          *)
EXTENDS InstanceLifecycle, TLC

CONSTANTS i1, i2, p1, p2, v1, v2

Symmetry == Permutations(Instances) \cup Permutations(Ports) \cup Permutations(Versions)
===============================================================================
