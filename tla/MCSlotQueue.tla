----------------------------- MODULE MCSlotQueue -----------------------------
(* Small instances of SlotQueue for TLC. *)
EXTENDS SlotQueue, TLC

\* Requests and instances are interchangeable.  Safety runs only: symmetry is
\* not sound for leads-to properties.
Symmetry == Permutations(Requests) \cup Permutations(Instances)
=============================================================================
