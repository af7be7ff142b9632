------------------------------ MODULE ConfigReload ------------------------------
(***************************************************************************)
(* Hot reload: the watcher that debounces edits of the configuration file  *)
(* and of the API key file it names, the bounded broadcast channel behind  *)
(* it, and the one task that loads what has changed and puts it in force.  *)
(*                                                                         *)
(* Files are edited at any time: between two steps of a reload, too.       *)
(***************************************************************************)
EXTENDS ConfigRules

CONSTANTS
  Content,     \* name of a file's content -> the configuration in it
  KeysPath,    \* name of a file's content -> the API key file it names
  KeyLines,    \* name of a key file's content -> its lines: label and key
  First,       \* what the configuration file contains at the start
  Missing,     \* no file; of API keys: the empty store, which denies all requests
  Config,      \* the path of the configuration file
  QueueCap,    \* what the broadcast channel holds
  MaxEdits     \* a bound

KeyPaths == Range(KeysPath)

ASSUME ReloadAssumption ==
  /\ \A f \in DOMAIN Content : Parsed(Content[f])
  /\ DOMAIN KeysPath = DOMAIN Content /\ First \in DOMAIN Content
  /\ Config \notin KeyPaths /\ IsFiniteSet(KeyPaths)
  /\ Missing \notin DOMAIN Content \cup DOMAIN KeyLines
  /\ QueueCap \in Nat \ {0} /\ MaxEdits \in Nat

VARIABLES
  clock,     \* the time of the last edit
  file,      \* path -> what it contains, and its mtime
  pending,   \* paths in the hands of the debounce task
  queue,     \* the broadcast channel,
  lost,      \* and whether it has overflowed since the last receive
  pc,        \* where the reload task is,
  resync,    \* whether it looks at both files,
  seen,      \* the mtime and
  loaded,    \* the configuration it has read
  inForce,   \* the configuration that handlers and instance manager use
  managed,   \* the one the instance manager has been reconciled with
  keys,      \* the API keys in force: from which file, and which content
  watched,   \* the API key file the watcher follows
  lastMtime, lastKeysMtime,
  refused,   \* history: mtime of a configuration whose keys did not load
  missed,    \* history: key files edited while the watcher did not follow them
  before,    \* history: what was in force when the configuration's reload began
  crossed    \* history: the keys are those of the file that is followed, loaded when
             \* the configuration in force already named another

fileVars  == <<clock, file, pending, queue, lost>>
readVars  == <<resync, seen, loaded>>
forceVars == <<inForce, managed, keys, watched, lastMtime, lastKeysMtime>>
ghostVars == <<refused, missed, before, crossed>>
vars == <<fileVars, pc, readVars, forceVars, ghostVars>>

Paths == {Config} \cup KeyPaths
Never == 0

TypeOK ==
  /\ clock \in 1..(MaxEdits + 1)
  /\ file \in [Paths -> [content : DOMAIN Content \cup DOMAIN KeyLines \cup {Missing},
                         mtime : 1..(MaxEdits + 1)]]
  /\ pending \subseteq Paths
  /\ queue \in Seq(Paths) /\ Len(queue) <= QueueCap /\ lost \in BOOLEAN
  /\ pc \in {"idle", "stat", "load", "loadkeys", "reconcile", "swap", "keystat", "keyload", "follow"}
  /\ resync \in BOOLEAN
  /\ seen \in 0..(MaxEdits + 1) /\ loaded \in DOMAIN Content
  /\ {inForce, managed} \subseteq DOMAIN Content
  /\ keys \in [path : KeyPaths, content : DOMAIN KeyLines \cup {Missing}]
  /\ watched \in KeyPaths
  /\ {lastMtime, lastKeysMtime, refused} \subseteq 0..(MaxEdits + 1)
  /\ missed \subseteq KeyPaths
  /\ before \in [inForce : DOMAIN Content, managed : DOMAIN Content,
                 keys : [path : KeyPaths, content : DOMAIN KeyLines \cup {Missing}]]
  /\ crossed \in BOOLEAN

\* ApikeysStore::parse: labels and keys are there, and unique.
ValidKeys(c) ==
  c # Missing /\ Unique(Field(KeyLines[c], "label")) /\ Unique(Field(KeyLines[c], "key"))

\* main: no keys at the start that load, no keys at all.
FailClosed(c) == IF ValidKeys(c) THEN c ELSE Missing

InForceNow == [inForce |-> inForce, managed |-> managed, keys |-> keys]

\* main: with a configuration that does not load the program ends; with API keys that
\* do not, it goes on.
Init ==
  /\ clock = 1
  /\ \E start \in [KeyPaths -> DOMAIN KeyLines \cup {Missing}] :
       /\ file = [p \in Paths |-> [content |-> IF p = Config THEN First ELSE start[p],
                                  mtime |-> 1]]
       /\ keys = [path |-> KeysPath[First], content |-> FailClosed(start[KeysPath[First]])]
  /\ pending = {} /\ queue = <<>> /\ lost = FALSE
  /\ pc = "idle" /\ resync = FALSE /\ seen = Never /\ loaded = First
  /\ inForce = First /\ managed = First
  /\ watched = KeysPath[First]
  /\ lastMtime = Never /\ lastKeysMtime = Never
  /\ refused = Never /\ missed = {}
  /\ before = InForceNow /\ crossed = FALSE

-----------------------------------------------------------------------------
(* The files. *)

\* Somebody writes a file, or removes it.  The watcher hears of a file that is
\* there and that it follows.
Edit(p) ==
  /\ clock <= MaxEdits
  /\ clock' = clock + 1
  /\ \E c \in {Missing} \cup IF p = Config THEN DOMAIN Content ELSE DOMAIN KeyLines :
       /\ c # file[p].content
       /\ file' = [file EXCEPT ![p] = [content |-> c, mtime |-> clock + 1]]
       /\ pending' = IF c # Missing /\ p \in {Config, watched} THEN pending \cup {p} ELSE pending
  /\ missed' = IF p \in {Config, watched} THEN missed ELSE missed \cup {p}
  /\ UNCHANGED <<queue, lost, pc, readVars, forceVars, refused, before, crossed>>

\* Mutant: the channel grows by one.
NewestAndOne(events) == SubSeq(events, Max({1, Len(events) - QueueCap}), Len(events))

\* Of a full channel the oldest events are lost.
Newest(events) == SubSeq(events, Max({1, Len(events) - QueueCap + 1}), Len(events))

\* The debounce task: after a burst one event for each path, in any order.
Broadcast ==
  /\ pending # {}
  /\ \E order \in SetToSeqs(pending) :
       LET events == queue \o order
       IN /\ queue' = Newest(events)
          /\ lost' = (lost \/ Len(events) > QueueCap)
  /\ pending' = {}
  /\ UNCHANGED <<clock, file, pc, readVars, forceVars, ghostVars>>

-----------------------------------------------------------------------------
(* The reload task. *)

Goto(l) == pc' = l

\* An event of a file that is there: the path tells which.
Receive ==
  /\ pc = "idle" /\ queue # <<>> /\ ~lost
  /\ LET p == Head(queue)
     IN Goto(IF file[p].content = Missing \/ p \notin {Config, watched} THEN "follow"
             ELSE IF p = Config THEN "stat" ELSE "keystat")
  /\ queue' = Tail(queue)
  /\ UNCHANGED <<clock, file, pending, lost, readVars, forceVars, ghostVars>>

\* Mutant: events that were lost are done without.
LaggedIgnored ==
  /\ pc = "idle" /\ lost
  /\ lost' = FALSE
  /\ UNCHANGED <<clock, file, pending, queue, pc, readVars, forceVars, ghostVars>>

\* Events were lost: both files are looked at.
Lagged ==
  /\ pc = "idle" /\ lost
  /\ lost' = FALSE
  /\ resync' = TRUE
  /\ Goto("stat")
  /\ UNCHANGED <<clock, file, pending, queue, seen, loaded, forceVars, ghostVars>>

\* Behind the configuration come the keys, or the test whether they have moved.
AfterConfig == Goto(IF resync THEN "keystat" ELSE "follow")

AfterKeys ==
  /\ Goto(IF resync THEN "idle" ELSE "follow")
  /\ resync' = FALSE

\* The mtime gate.
Changed(f, last) == f.content # Missing /\ f.mtime # last

\* handle_config_reload: the gate, ...
Stat ==
  /\ pc = "stat"
  /\ LET f == file[Config]
     IN \/ /\ ~Changed(f, lastMtime)
           /\ AfterConfig
           /\ UNCHANGED seen
        \/ /\ Changed(f, lastMtime)
           /\ seen' = f.mtime
           /\ Goto("load")
  /\ before' = InForceNow
  /\ UNCHANGED <<fileVars, resync, loaded, forceVars, refused, missed, crossed>>

\* Config::load
Loadable(c) == c # Missing /\ Valid(Content[c])

\* ... the file as it is now, which may be another than the mtime was read of, ...
Load ==
  /\ pc = "load"
  /\ LET c == file[Config].content
     IN \/ /\ ~Loadable(c)
           /\ AfterConfig
           /\ UNCHANGED loaded
        \/ /\ Loadable(c)
           /\ loaded' = c
           /\ Goto(IF KeysPath[c] # KeysPath[inForce] THEN "loadkeys" ELSE "reconcile")
  /\ UNCHANGED <<fileVars, resync, seen, forceVars, ghostVars>>

\* The program has started, so its configuration was good.
ASSUME StartAssumption == Loadable(First)

\* Mutant: keys that do not load leave no keys.
LoadKeysFailClosed ==
  /\ pc = "loadkeys"
  /\ LET p == KeysPath[loaded]
     IN keys' = [path |-> p, content |-> FailClosed(file[p].content)] /\ missed' = missed \ {p}
  /\ crossed' = FALSE
  /\ Goto("reconcile")
  /\ UNCHANGED <<fileVars, readVars, inForce, managed, watched, lastMtime, lastKeysMtime,
                 refused, before>>

\* Mutant: keys that do not load are kept, and the configuration is replaced.
LoadKeysOrKeep ==
  /\ pc = "loadkeys"
  /\ LET p == KeysPath[loaded]
         c == file[p].content
     IN \/ ~ValidKeys(c) /\ UNCHANGED <<keys, missed, crossed>>
        \/ /\ ValidKeys(c)
           /\ keys' = [path |-> p, content |-> c]
           /\ missed' = missed \ {p}
           /\ crossed' = FALSE
  /\ Goto("reconcile")
  /\ UNCHANGED <<fileVars, readVars, inForce, managed, watched, lastMtime, lastKeysMtime,
                 refused, before>>

\* ... the keys of another path, without which nothing is changed, ...
LoadKeys ==
  /\ pc = "loadkeys"
  /\ LET p == KeysPath[loaded]
         c == file[p].content
     IN \/ /\ ~ValidKeys(c)
           /\ AfterConfig
           /\ refused' = seen
           /\ UNCHANGED <<keys, missed, crossed>>
        \/ /\ ValidKeys(c)
           /\ keys' = [path |-> p, content |-> c]
           /\ missed' = missed \ {p}
           /\ crossed' = FALSE
           /\ Goto("reconcile")
           /\ UNCHANGED refused
  /\ UNCHANGED <<fileVars, readVars, inForce, managed, watched, lastMtime, lastKeysMtime, before>>

\* ... reconcile_config, which may take long, ...
Reconcile ==
  /\ pc = "reconcile"
  /\ managed' = loaded
  /\ Goto("swap")
  /\ UNCHANGED <<fileVars, readVars, inForce, keys, watched, lastMtime, lastKeysMtime, ghostVars>>

\* Mutant: the mtime is read when all is done.
SwapLate ==
  /\ pc = "swap"
  /\ inForce' = loaded
  /\ lastMtime' = file[Config].mtime
  /\ AfterConfig
  /\ UNCHANGED <<fileVars, readVars, managed, keys, watched, lastKeysMtime, ghostVars>>

\* ... and the swap, after which the mtime is recorded.
Swap ==
  /\ pc = "swap"
  /\ inForce' = loaded
  /\ lastMtime' = seen
  /\ AfterConfig
  /\ UNCHANGED <<fileVars, readVars, managed, keys, watched, lastKeysMtime, ghostVars>>

\* handle_apikeys_reload, for the path that is followed: the gate, ...
KeyStat ==
  /\ pc = "keystat"
  /\ LET f == file[watched]
     IN \/ /\ ~Changed(f, lastKeysMtime)
           /\ AfterKeys
           /\ UNCHANGED seen
        \/ /\ Changed(f, lastKeysMtime)
           /\ seen' = f.mtime
           /\ Goto("keyload")
           /\ UNCHANGED resync
  /\ UNCHANGED <<fileVars, loaded, forceVars, ghostVars>>

\* ... and the keys.
KeyLoad ==
  /\ pc = "keyload"
  /\ LET c == file[watched].content
     IN \/ ~ValidKeys(c) /\ UNCHANGED <<keys, lastKeysMtime, missed, crossed>>
        \/ /\ ValidKeys(c)
           /\ keys' = [path |-> watched, content |-> c]
           /\ lastKeysMtime' = seen
           /\ missed' = missed \ {watched}
           /\ crossed' = (watched # KeysPath[inForce])
  /\ AfterKeys
  /\ UNCHANGED <<fileVars, seen, loaded, inForce, managed, watched, lastMtime, refused, before>>

\* A new watcher follows the file that the configuration in force names, unless it
\* cannot be built.
Follow ==
  /\ pc = "follow"
  /\ Goto("idle")
  /\ watched' \in {watched, KeysPath[inForce]}
  /\ UNCHANGED <<fileVars, readVars, inForce, managed, keys, lastMtime, lastKeysMtime, ghostVars>>

-----------------------------------------------------------------------------
AtRest == clock > MaxEdits /\ UNCHANGED vars

Next ==
  \/ \E p \in Paths : Edit(p)
  \/ Broadcast \/ Receive \/ Lagged
  \/ Stat \/ Load \/ LoadKeys \/ Reconcile \/ Swap
  \/ KeyStat \/ KeyLoad \/ Follow
  \/ AtRest

Spec == Init /\ [][Next]_vars

-----------------------------------------------------------------------------
(* Properties. *)

Quiet == pc = "idle" /\ pending = {} /\ queue = <<>> /\ ~lost

\* When no event is under way, the configuration in force is that of the file: no
\* edit is forgotten, although the mtime is read before the file, edits come while
\* a reload takes its time, bursts are collapsed and the channel overflows.  A file
\* that was refused, for itself or for its keys, leaves the old one in force.
ConfigSettles ==
  Quiet =>
    LET f == file[Config]
    IN \/ ~Loadable(f.content)
       \/ f.mtime = refused
       \/ inForce = f.content

\* So it is with the keys, if the watcher follows the file they are from and has
\* not missed an edit of it.
KeysSettle ==
  Quiet /\ keys.path = watched /\ watched \notin missed =>
    LET c == file[watched].content IN ValidKeys(c) => keys.content = c

\* Whatever has been in the files, handlers and instance manager have a
\* configuration that can be served on a machine with the memory it asks for: nothing
\* is promised for models on devices if there is no section of devices, if the memory
\* of one is too little or unknown, or if a pool names one twice (Serviceable).
InForceServiceable == \A c \in {inForce, managed} : Serviceable(Content[c])

\* The handler of a configuration's reload comes to its end.
ReloadEnds == pc \in {"load", "loadkeys", "swap"} /\ pc' \in {"keystat", "follow"}

\* reload.rs: "validate first, swap only on success".  A reload of the configuration
\* replaces the configuration, what the manager was reconciled with and, if it names
\* another key file, the keys, which are good ones of that file; or it leaves all of
\* them as they were when it began, whatever happens to either file meanwhile.
AllOrNothing ==
  [][ReloadEnds =>
       \/ InForceNow' = before
       \/ /\ inForce' = loaded /\ managed' = loaded
          /\ IF KeysPath[loaded] = KeysPath[before.inForce] THEN keys' = before.keys
             ELSE keys'.path = KeysPath[loaded] /\ ValidKeys(keys'.content)]_vars

\* Between reloads the keys in force are from the file that the configuration in force
\* names: one comes into force with the other.  The exception is what the watcher still
\* followed, and was reloaded, when the configuration named another file already.
KeysBelong == pc = "idle" /\ keys.path # KeysPath[inForce] => crossed

-----------------------------------------------------------------------------
(* What comments of the code say, and the code does not do. *)

\* main.rs, lagged events: "reloads are idempotent and mtime-gated, so resync both
\* files": between reloads the keys in force are those of the file that the
\* configuration in force names.
KeysOfConfig == pc = "idle" => keys.path = KeysPath[inForce]

\* main.rs: "rebuild the watcher to follow the new file": when no event is under
\* way and that file is followed, its keys are in force.
KeysFollowed ==
  Quiet /\ watched = KeysPath[inForce] =>
    LET c == file[watched].content IN ValidKeys(c) => keys.content = c
===============================================================================
