----------------------------- MODULE MCPortAlloc -----------------------------
(* PortAlloc, with its history, for TLC. *)
EXTENDS PortAllocHistory, TLC

Symmetry == Permutations(Spawns)

\* Overlapping ranges below the last port, and a reload to and from the choice
\* of the operating system.
Mixed == {[start |-> 1, end |-> 2], [start |-> 2, end |-> MaxPort - 1], Ephemeral}

\* A range that ends with the last port of all.
LastPorts == {[start |-> 2, end |-> MaxPort]}
=============================================================================
