------------------------------ MODULE SlotPool ------------------------------
(***************************************************************************)
(* What the instance manager promises the requests for one model: a slot   *)
(* each, at most MaxConcurrent at a time on an instance, or an answer       *)
(* without one.  How requests queue, who wakes them and how instances come  *)
(* and go is left to the modules that implement this one.                   *)
(***************************************************************************)
EXTENDS Integers, FiniteSets

CONSTANTS Requests, Instances, MaxConcurrent, None

VARIABLES
  phase, \* request -> waiting, serving or left
  slot   \* request -> the instance it occupies a slot of, or None

poolVars == <<phase, slot>>

Occupants(i) == {r \in Requests : slot[r] = i}

Init ==
  /\ phase = [r \in Requests |-> "waiting"]
  /\ slot = [r \in Requests |-> None]

\* A waiting request gets a free slot.
Grant(r, i) ==
  /\ phase[r] = "waiting"
  /\ Cardinality(Occupants(i)) < MaxConcurrent
  /\ phase' = [phase EXCEPT ![r] = "serving"]
  /\ slot' = [slot EXCEPT ![r] = i]

\* A request ends, served or not; its slot is free again.
Leave(r) ==
  /\ phase[r] # "left"
  /\ phase' = [phase EXCEPT ![r] = "left"]
  /\ slot' = [slot EXCEPT ![r] = None]

Next == \E r \in Requests : Leave(r) \/ \E i \in Instances : Grant(r, i)

Spec == Init /\ [][Next]_poolVars
=============================================================================
