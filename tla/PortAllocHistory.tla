--------------------------- MODULE PortAllocHistory ---------------------------
(***************************************************************************)
(* PortAlloc with a history of what the present scan has tried, and of     *)
(* whether the operating system has ever chosen a port.  The history only  *)
(* watches: every step of PortAlloc is a step here.                        *)
(***************************************************************************)
EXTENDS PortAlloc

VARIABLES
  tried,  \* the ports the present scan has found taken
  osChose \* has the operating system chosen a port?

historyVars == <<vars, tried, osChose>>

HistoryInit == Init /\ tried = {} /\ osChose = FALSE

\* A scan that goes on has found its candidate taken; the next scan starts anew.
Watched ==
  /\ tried' = IF ScanPort /\ holder' # Nobody THEN tried \cup {Candidate}
              ELSE IF holder = Nobody THEN {} ELSE tried
  /\ osChose' = (osChose \/ \E s \in Spawns, p \in Ports : AllocateEphemeral(s, p))

HistoryNext == Next /\ Watched

HistorySpec == HistoryInit /\ [][HistoryNext]_historyVars

-----------------------------------------------------------------------------
(* Properties. *)

\* A scan gives up only when it has found every port of the range taken
\* (port_alloc.rs: "None if no ports are available or the range is exhausted").
ScanIsExhaustive ==
  holder # Nobody /\ left = 0 => range.start..range.end \subseteq tried

\* The table of leases is exact until the operating system chooses a port: it may
\* choose one whose backend has not bound it yet.
TrackedWithoutOs == ~osChose => LeasesTracked
===============================================================================
