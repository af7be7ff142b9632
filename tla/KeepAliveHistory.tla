-------------------------- MODULE KeepAliveHistory --------------------------
(***************************************************************************)
(* KeepAlive with a history of which instances the manager in force has    *)
(* counted, and of the GPUs whose count or task an overlap of operations   *)
(* may have led astray.  The history only watches: every step of KeepAlive *)
(* is a step here.                                                         *)
(***************************************************************************)
EXTENDS KeepAlive

VARIABLES
  counted, \* the instances the manager in force has ever counted
  astray,  \* the GPUs whose count it may have got wrong
  tangled  \* the GPUs on which it was starting and stopping a task at the same time

historyVars == <<vars, counted, astray, tangled>>

HistoryInit == Init /\ counted = {} /\ astray = {} /\ tangled = {}

SlotsOf(S) == {slot[i] : i \in S}

\* The manager has taken its place, and the listed instances are being counted.
Rebuilding(i) == pc[Reloader] = "list" \/ i \in todo

\* An instance is taken out before its spawn task has counted it, or before the
\* rebuild under way has: its reference is given back first, and taken then.
OvertakesCount(i) ==
  Unregister(i) /\ (pc[Spawner(i)] \in {"fetch", "acquire"} \/ Rebuilding(i))

\* An instance is listed after the manager was replaced and before the rebuild
\* lists: it is counted twice.
CountedTwice(i) == Register(i) /\ pc[Reloader] = "list"

\* Its operation has listed or unlisted the instance, and fetches the manager only
\* after it was replaced.
BetweenListAndFetch ==
  {i \in Instances : pc[Spawner(i)] = "fetch" \/ pc[Remover(i)] = "fetch"}

\* An instance whose reference is taken, or is being taken or given back.
AtWork(a) == pc[a] \notin {"idle", "done"}
InUse(i) == i \in listed \/ AtWork(Spawner(i)) \/ AtWork(Remover(i))

\* A reload maps these to another slot: what was taken on the old one will be given
\* back on the new one.
Moved == {i \in Instances : InUse(i) /\ slot'[i] # slot[i]}

\* The manager in force counts an instance for its spawn task, or for the rebuild.
CountsNow(i) ==
  \/ Acquire(Spawner(i), i) /\ mgr[Spawner(i)] = current
  \/ i \in todo \ todo'

\* An actor has counted in the manager in force, and its task is still to follow.
Pending(a, g) == pc[a] \in {"start", "stop"} /\ mgr[a] = current /\ target[a] = g

Tangling == {g \in Gpus : \E a, b \in Actors : a # b /\ Pending(a, g) /\ Pending(b, g)}

\* A new manager starts with nobody counted.
Watched ==
  /\ counted' = IF Replace THEN {} ELSE counted \cup {i \in Instances : CountsNow(i)}
  /\ astray' = IF Replace THEN SlotsOf(BetweenListAndFetch)
               ELSE astray \cup SlotsOf({i \in Instances : OvertakesCount(i) \/ CountedTwice(i)})
                           \cup SlotsOf(Moved) \cup {slot'[i] : i \in Moved}
  /\ tangled' = IF Replace THEN {} ELSE tangled \cup Tangling'

HistoryNext == Next /\ Watched

HistorySpec == HistoryInit /\ [][HistoryNext]_historyVars

-----------------------------------------------------------------------------
(* Properties.  They speak of the moments when nobody is inside an operation. *)

\* Spawns and removals in any order, reloads at any moment: where the operations of
\* an instance have not overlapped in one of the ways above, the count of a GPU is
\* the number of instances on it (scheduler.rs: "refcounting makes concurrent
\* spawn/remove interleavings safe").
CountUnlessAstray ==
  Quiet /\ current # 0 =>
    \A g \in Gpus \ astray : count[current][g] = Cardinality(Users(g))

\* A reload forgets nobody: although spawn tasks go on with a clone of the manager
\* it replaces, every listed instance has been counted by the one in force
\* (scheduler.rs: "acquire once per instance-GPU pair to rebuild the counts").
EveryUserCounted == Quiet /\ current # 0 => listed \subseteq counted

\* The task of a GPU runs if and only if it has references, whatever becomes of the
\* counts, where no two of its tasks' starts and stops were under way at once
\* (keepalive.rs: "The task runs while the count is > 0").
TaskUnlessTangled ==
  Quiet /\ current # 0 =>
    \A g \in Gpus \ tangled : g \in running[current] <=> count[current][g] > 0
=============================================================================
