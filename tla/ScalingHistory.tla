---------------------------- MODULE ScalingHistory ----------------------------
(***************************************************************************)
(* Scaling with a history of the instances that came back: mark_ready      *)
(* overwrote the Failed of a removal that had begun.  The history only     *)
(* watches: every step of Scaling is a step here.                          *)
(***************************************************************************)
EXTENDS Scaling

VARIABLE revived \* instances that were Failed and became Ready

historyVars == <<vars, revived>>

HistoryInit == Init /\ revived = {}

Watched ==
  revived' = revived \cup {i \in Instances : state[i] = "failed" /\ state'[i] = "ready"}

HistoryNext == Next /\ Watched

HistorySpec == HistoryInit /\ [][HistoryNext]_historyVars

-----------------------------------------------------------------------------
(* Properties. *)

\* Eviction, scale-down, reaping and the clean-up of a spawn shut a process down only
\* when it serves nobody, however stale the list or the plan is they work from, and
\* although the process goes on for a while after it was found idle.  The exception
\* is an instance that came back in the middle of its removal: NeverInterrupted shows
\* that one serving, and shut down.
OnlyRevivedInterrupted ==
  [][\A i \in alive \ alive' : inFlight[i] > 0 => i \in revived]_historyVars
===============================================================================
