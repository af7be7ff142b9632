---------------------------- MODULE MCKeepAlive ----------------------------
(* KeepAlive, with its history, for TLC: instances are interchangeable, and so are GPUs. *)
EXTENDS KeepAliveHistory, TLC

Symmetry == Permutations(Instances) \cup Permutations(Gpus)
=============================================================================
