-------------------------- MODULE MCSlotQueueOrder --------------------------
(* SlotQueue with a history of the order in which requests parked. *)
EXTENDS SlotQueue

VARIABLE arrivals \* the requests in the order of their pushes

Parks(r) == pc[r] = "enqueue" /\ pc'[r] = "parked"

OrderInit == Init /\ arrivals = <<>>

OrderNext ==
  /\ Next
  /\ \/ \E r \in Requests : Parks(r) /\ arrivals' = Append(arrivals, r)
     \/ (\A r \in Requests : ~Parks(r)) /\ UNCHANGED arrivals

OrderSpec == OrderInit /\ [][OrderNext]_<<vars, arrivals>>

Arrival(r) == CHOOSE k \in 1..Len(arrivals) : arrivals[k] = r

\* scheduler.rs, wake_one: a waiter that cannot be served is "re-parked at the
\* head, preserving FIFO order", so the queue is in the order of the pushes.
QueueIsFIFO ==
  \A j, k \in 1..Len(queue) : j < k => Arrival(queue[j]) < Arrival(queue[k])
=============================================================================
