----------------------------- MODULE ReloadProofs -----------------------------
(* Theorems about ConfigReload, for any files, any number of edits and any *)
(* capacity of the channel.                                                *)
EXTENDS ConfigReload, GpuSelectProofs

LEMMA SetMax ==
  ASSUME NEW k \in Int
  PROVE  Max({1, k}) = IF k <= 1 THEN 1 ELSE k
<1>1. \E x \in {1, k} : \A y \in {1, k} : x >= y
  OBVIOUS
<1>2. Max({1, k}) \in {1, k} /\ \A y \in {1, k} : Max({1, k}) >= y
  BY <1>1 DEF Max
<1>. QED
  BY <1>2

-----------------------------------------------------------------------------
(* The channel. *)

\* What is broadcast after a burst is each path once.
LEMMA OrderCovers ==
  ASSUME NEW S, IsFiniteSet(S), NEW order \in SetToSeqs(S)
  PROVE  order \in Seq(S) /\ \A x \in S : \E k \in 1..Len(order) : order[k] = x
<1>. DEFINE n == Cardinality(S)
<1>1. n \in Nat
  BY FS_CardinalityType
<1>2. order \in [1..n -> S] /\ \A i, j \in 1..n : i # j => order[i] # order[j]
  BY DEF SetToSeqs
<1>3. order \in Injection(1..n, S)
  BY <1>2 DEF Injection, IsInjective
<1>4. Cardinality(1..n) = n
  BY <1>1, FS_Interval
<1>5. order \in Surjection(1..n, S)
  BY <1>3, <1>4, FS_Injection
<1>6. order \in Seq(S) /\ Len(order) = n
  BY <1>1, <1>2
<1>. QED
  BY <1>5, <1>6 DEF Surjection

\* A channel that does not overflow loses nothing.
LEMMA NewestOfFew ==
  ASSUME ReloadAssumption, NEW events \in Seq(Paths), Len(events) <= QueueCap
  PROVE  Newest(events) = events
<1>1. Len(events) - QueueCap + 1 \in Int /\ Len(events) - QueueCap + 1 <= 1
  BY LenProperties DEF ReloadAssumption
<1>2. Max({1, Len(events) - QueueCap + 1}) = 1
  BY <1>1, SetMax
<1>. QED
  BY <1>2, SubSeqFull DEF Newest

\* It never holds more than its capacity.
LEMMA NewestBounded ==
  ASSUME ReloadAssumption, NEW events \in Seq(Paths)
  PROVE  Newest(events) \in Seq(Paths) /\ Len(Newest(events)) <= QueueCap
<1>. DEFINE m == Max({1, Len(events) - QueueCap + 1})
<1>1. Len(events) \in Nat /\ QueueCap \in Nat \ {0} /\ Len(events) - QueueCap + 1 \in Int
  BY LenProperties DEF ReloadAssumption
<1>2. m = IF Len(events) - QueueCap + 1 <= 1 THEN 1 ELSE Len(events) - QueueCap + 1
  BY <1>1, SetMax
<1>3. \A i \in m..Len(events) : events[i] \in Paths
  BY <1>1, <1>2, ElementOfSeq
<1>4. m \in Int
  BY <1>1, <1>2
<1>. HIDE DEF m
<1>5. /\ SubSeq(events, m, Len(events)) \in Seq(Paths)
      /\ Len(SubSeq(events, m, Len(events))) = IF m <= Len(events) THEN Len(events) - m + 1 ELSE 0
  BY <1>1, <1>3, <1>4, SubSeqProperties
<1>6. Newest(events) = SubSeq(events, m, Len(events))
  BY DEF Newest, m
<1>. QED
  BY <1>1, <1>2, <1>5, <1>6

Queued(p) == \E k \in 1..Len(queue) : queue[k] = p

\* An event of p is on its way to the reload task.
Underway(p) == p \in pending \/ Queued(p) \/ lost

\* The debounce task drops no event without leaving word of it.
LEMMA BroadcastKeeps ==
  ASSUME ReloadAssumption, IsFiniteSet(Paths), pending \subseteq Paths, queue \in Seq(Paths),
         NEW p, Underway(p), Broadcast
  PROVE  Underway(p)'
<1>1. PICK order \in SetToSeqs(pending) :
        /\ queue' = Newest(queue \o order)
        /\ lost' = (lost \/ Len(queue \o order) > QueueCap)
  BY DEF Broadcast
<1>2. IsFiniteSet(pending)
  BY FS_Subset
<1>3. order \in Seq(pending) /\ \A x \in pending : \E k \in 1..Len(order) : order[k] = x
  BY <1>2, OrderCovers
<1>4. order \in Seq(Paths)
  BY <1>3, SeqMonotonic
<1>5. /\ queue \o order \in Seq(Paths)
      /\ Len(queue \o order) = Len(queue) + Len(order)
      /\ \A i \in 1..(Len(queue) + Len(order)) :
           (queue \o order)[i] = IF i <= Len(queue) THEN queue[i] ELSE order[i - Len(queue)]
  BY <1>4, ConcatProperties
<1>6. Len(queue) \in Nat /\ Len(order) \in Nat /\ QueueCap \in Nat
  BY <1>4, LenProperties DEF ReloadAssumption
<1>7. CASE lost \/ Len(queue \o order) > QueueCap
  BY <1>1, <1>7 DEF Underway
<1>8. CASE ~lost /\ Len(queue \o order) <= QueueCap
  <2>1. queue' = queue \o order
    BY <1>1, <1>5, <1>8, NewestOfFew
  <2>2. CASE p \in pending
    <3>1. PICK k \in 1..Len(order) : order[k] = p
      BY <1>3, <2>2
    <3>2. (queue \o order)[Len(queue) + k] = p /\ Len(queue) + k \in 1..(Len(queue) + Len(order))
      BY <1>5, <1>6, <3>1
    <3>. QED
      BY <1>5, <2>1, <3>2 DEF Underway, Queued
  <2>3. CASE Queued(p)
    <3>1. PICK k \in 1..Len(queue) : queue[k] = p
      BY <2>3 DEF Queued
    <3>2. (queue \o order)[k] = p /\ k \in 1..(Len(queue) + Len(order))
      BY <1>5, <1>6, <3>1
    <3>. QED
      BY <1>5, <2>1, <3>2 DEF Underway, Queued
  <2>. QED
    BY <1>8, <2>2, <2>3 DEF Underway
<1>. QED
  BY <1>5, <1>6, <1>7, <1>8

\* The reload task takes one event at a time.
LEMMA ReceiveTakesOne ==
  ASSUME queue \in Seq(Paths), Receive, NEW p, Underway(p), p # Head(queue)
  PROVE  Underway(p)'
<1>1. queue # <<>> /\ queue' = Tail(queue) /\ UNCHANGED <<pending, lost>>
  BY DEF Receive
<1>2. CASE Queued(p)
  <2>1. PICK k \in 1..Len(queue) : queue[k] = p
    BY <1>2 DEF Queued
  <2>2. Len(queue) \in Nat /\ k # 1
    BY <2>1
  <2>3. k - 1 \in 1..Len(Tail(queue)) /\ Tail(queue)[k - 1] = p
    BY <1>1, <2>1, <2>2, HeadTailProperties
  <2>. QED
    BY <1>1, <2>3 DEF Underway, Queued
<1>. QED
  BY <1>1, <1>2 DEF Underway

-----------------------------------------------------------------------------
(* Types. *)

FileTypes ==
  /\ clock \in 1..(MaxEdits + 1)
  /\ file \in [Paths -> [content : DOMAIN Content \cup DOMAIN KeyLines \cup {Missing},
                         mtime : 1..(MaxEdits + 1)]]
  /\ file[Config].content \in DOMAIN Content \cup {Missing}
  /\ \A p \in KeyPaths : file[p].content \in DOMAIN KeyLines \cup {Missing}
  /\ \A p \in Paths : file[p].mtime <= clock
  /\ pending \subseteq Paths
  /\ queue \in Seq(Paths) /\ Len(queue) <= QueueCap

Flags == lost \in BOOLEAN /\ resync \in BOOLEAN /\ crossed \in BOOLEAN

\* No time is known that is yet to come.
TaskTypes ==
  /\ pc \in {"idle", "stat", "load", "loadkeys", "reconcile", "swap", "keystat", "keyload", "follow"}
  /\ seen \in 0..clock /\ lastMtime \in 0..clock /\ lastKeysMtime \in 0..clock
  /\ refused \in 0..clock
  /\ {loaded, inForce, managed} \subseteq DOMAIN Content
  /\ keys \in [path : KeyPaths, content : DOMAIN KeyLines \cup {Missing}]
  /\ watched \in KeyPaths
  /\ missed \subseteq KeyPaths
  /\ before \in [inForce : DOMAIN Content, managed : DOMAIN Content,
                 keys : [path : KeyPaths, content : DOMAIN KeyLines \cup {Missing}]]

Shape == FileTypes /\ Flags /\ TaskTypes

LEMMA PathsFinite == IsFiniteSet(Paths) /\ KeyPaths \subseteq Paths /\ Config \in Paths
  BY ReloadAssumption, FS_AddElement DEF ReloadAssumption, Paths

LEMMA NamedPaths == \A c \in DOMAIN Content : KeysPath[c] \in KeyPaths
  BY ReloadAssumption DEF ReloadAssumption, KeyPaths, Range

\* The names of the configurations and of the key files.
LEMMA GoodIsThere ==
  /\ ~Loadable(Missing) /\ ~ValidKeys(Missing)
  /\ First \in DOMAIN Content
  /\ \A c \in DOMAIN KeyLines \cup {Missing} : FailClosed(c) \in DOMAIN KeyLines \cup {Missing}
  BY ReloadAssumption DEF ReloadAssumption, Loadable, ValidKeys, FailClosed

LEMMA ShapeInit == Init => Shape
<1>. SUFFICES ASSUME Init PROVE Shape
  OBVIOUS
<1>. USE DEF Init
<1>0. PICK start \in [KeyPaths -> DOMAIN KeyLines \cup {Missing}] :
        /\ file = [p \in Paths |-> [content |-> IF p = Config THEN First ELSE start[p],
                                   mtime |-> 1]]
        /\ keys = [path |-> KeysPath[First], content |-> FailClosed(start[KeysPath[First]])]
  BY Zenon
<1>1. FileTypes
  BY <1>0, PathsFinite, GoodIsThere, ReloadAssumption, EmptySeq
  DEF FileTypes, ReloadAssumption, Paths
<1>2. Flags
  BY Zenon DEF Flags
<1>3. TaskTypes
  <2>1. KeysPath[First] \in KeyPaths /\ start[KeysPath[First]] \in DOMAIN KeyLines \cup {Missing}
    BY GoodIsThere, NamedPaths
  <2>2. keys \in [path : KeyPaths, content : DOMAIN KeyLines \cup {Missing}]
    BY <1>0, <2>1, GoodIsThere
  <2>. QED
    BY <2>1, <2>2, GoodIsThere DEF TaskTypes, Never, InForceNow
<1>. QED
  BY <1>1, <1>2, <1>3 DEF Shape

LEMMA FlagsStep ==
  ASSUME Shape, [Next]_vars PROVE Flags'
<1>1. lost' \in BOOLEAN
  <2>1. CASE Broadcast
    BY <2>1, Zenon DEF Broadcast
  <2>2. CASE Lagged
    BY <2>2, Zenon DEF Lagged
  <2>3. CASE UNCHANGED lost
    BY <2>3, Zenon DEF Shape, Flags
  <2>. QED
    BY <2>1, <2>2, <2>3
    DEF Next, Edit, Receive, Stat, Load, LoadKeys, Reconcile, Swap, KeyStat, KeyLoad, Follow,
        AtRest, vars, fileVars
<1>2. resync' \in {resync, TRUE, FALSE}
  BY DEF Next, Edit, Broadcast, Receive, Lagged, Stat, Load, LoadKeys, Reconcile, Swap, KeyStat,
         KeyLoad, Follow, AtRest, AfterKeys, vars, readVars
<1>3. crossed' \in BOOLEAN
  <2>1. CASE LoadKeys
    BY <2>1, Zenon DEF LoadKeys, Shape, Flags
  <2>2. CASE KeyLoad
    BY <2>2, Zenon DEF KeyLoad, Shape, Flags
  <2>3. CASE UNCHANGED crossed
    BY <2>3, Zenon DEF Shape, Flags
  <2>. QED
    BY <2>1, <2>2, <2>3
    DEF Next, Edit, Broadcast, Receive, Lagged, Stat, Load, Reconcile, Swap, KeyStat, Follow,
        AtRest, vars, ghostVars
<1>. QED
  BY <1>1, <1>2, <1>3, Zenon DEF Flags, Shape

LEMMA FileTypesStep ==
  ASSUME Shape, [Next]_vars PROVE FileTypes'
<1>. USE ReloadAssumption, PathsFinite DEF Shape, FileTypes, ReloadAssumption
<1>1. ASSUME NEW p \in Paths, Edit(p) PROVE FileTypes'
  BY <1>1 DEF Edit
<1>2. CASE Broadcast
  <2>1. PICK order \in SetToSeqs(pending) : queue' = Newest(queue \o order)
    BY <1>2 DEF Broadcast
  <2>2. order \in Seq(Paths)
    <3>1. order \in Seq(pending)
      BY FS_Subset, OrderCovers
    <3>. QED
      BY <3>1, SeqMonotonic
  <2>3. queue \o order \in Seq(Paths)
    BY <2>2, ConcatProperties
  <2>. QED
    BY <1>2, <2>1, <2>3, NewestBounded DEF Broadcast
<1>3. CASE Receive
  BY <1>3, HeadTailProperties DEF Receive
<1>4. CASE UNCHANGED <<clock, file, pending, queue>>
  BY <1>4
<1>. QED
  BY <1>1, <1>2, <1>3, <1>4
  DEF Next, Lagged, Stat, Load, LoadKeys, Reconcile, Swap, KeyStat, KeyLoad, Follow, AtRest,
      vars, fileVars

LEMMA TaskTypesStep ==
  ASSUME Shape, [Next]_vars PROVE TaskTypes'
<1>. USE PathsFinite, NamedPaths, GoodIsThere
     DEF TaskTypes, Goto, AfterConfig, AfterKeys, forceVars, readVars, ghostVars, fileVars
<1>. FileTypes /\ TaskTypes
  BY DEF Shape
<1>0. clock \in Nat
  BY DEF FileTypes
<1>1. ASSUME NEW p \in Paths, Edit(p) PROVE TaskTypes'
  BY <1>0, <1>1 DEF Edit, Paths
<1>2. CASE Broadcast \/ Lagged
  BY <1>2 DEF Broadcast, Lagged
<1>3. CASE Receive
  BY <1>3 DEF Receive
<1>4. CASE Stat
  BY <1>4 DEF Stat, FileTypes, InForceNow
<1>5. CASE Load
  <2>1. Loadable(file[Config].content) => file[Config].content \in DOMAIN Content
    BY DEF FileTypes
  <2>. QED
    BY <1>5, <2>1 DEF Load
<1>6. CASE LoadKeys
  <2>1. KeysPath[loaded] \in KeyPaths
    OBVIOUS
  <2>2. ValidKeys(file[KeysPath[loaded]].content) => file[KeysPath[loaded]].content \in DOMAIN KeyLines
    BY <2>1 DEF FileTypes
  <2>. QED
    BY <1>6, <2>1, <2>2 DEF LoadKeys
<1>7. CASE Reconcile \/ Swap
  BY <1>7 DEF Reconcile, Swap
<1>8. CASE KeyStat
  BY <1>8 DEF KeyStat, FileTypes
<1>9. CASE KeyLoad
  <2>1. ValidKeys(file[watched].content) => file[watched].content \in DOMAIN KeyLines
    BY DEF FileTypes
  <2>. QED
    BY <1>9, <2>1 DEF KeyLoad
<1>10. CASE Follow
  BY <1>10 DEF Follow
<1>11. CASE UNCHANGED vars
  BY <1>11 DEF vars
<1>. QED
  BY <1>1, <1>2, <1>3, <1>4, <1>5, <1>6, <1>7, <1>8, <1>9, <1>10, <1>11 DEF Next, AtRest

LEMMA ShapeStep == Shape /\ [Next]_vars => Shape'
  BY FileTypesStep, FlagsStep, TaskTypesStep DEF Shape

\* Every variable keeps its type.
THEOREM ReloadTypes == Spec => []TypeOK
<1>1. Shape => TypeOK
  BY ReloadAssumption DEF Shape, FileTypes, Flags, TaskTypes, TypeOK, ReloadAssumption
<1>. QED
  BY ShapeInit, ShapeStep, <1>1, PTL DEF Spec

-----------------------------------------------------------------------------
(* Configuration, manager and keys change together. *)

\* The keys are those of the configuration that has been read, or were left alone
\* because it names the same file.
KeysMatch ==
  IF KeysPath[loaded] = KeysPath[before.inForce] THEN keys = before.keys
  ELSE keys.path = KeysPath[loaded] /\ ValidKeys(keys.content)

\* What a reload of the configuration has changed at each of its steps.
SoFar ==
  /\ pc \in {"load", "loadkeys"} => InForceNow = before
  /\ pc = "loadkeys" => KeysPath[loaded] # KeysPath[before.inForce]
  /\ pc \in {"reconcile", "swap"} => inForce = before.inForce /\ KeysMatch
  /\ pc = "swap" => managed = loaded

LEMMA SoFarStep ==
  ASSUME Shape, SoFar, [Next]_vars PROVE SoFar'
<1>. USE DEF SoFar, KeysMatch, InForceNow, Goto, AfterConfig, AfterKeys, forceVars, readVars, ghostVars
<1>. TaskTypes
  BY DEF Shape
<1>1. CASE Stat
  BY <1>1 DEF Stat
<1>2. CASE Load
  BY <1>2 DEF Load, TaskTypes
<1>3. CASE LoadKeys
  BY <1>3 DEF LoadKeys, TaskTypes
<1>4. CASE Reconcile \/ Swap
  BY <1>4 DEF Reconcile, Swap
<1>5. CASE Lagged \/ Receive \/ KeyStat \/ KeyLoad \/ Follow
  BY <1>5 DEF Lagged, Receive, KeyStat, KeyLoad, Follow
<1>6. CASE UNCHANGED <<pc, loaded, inForce, managed, keys, before>>
  BY <1>6
<1>. QED
  BY <1>1, <1>2, <1>3, <1>4, <1>5, <1>6 DEF Next, Edit, Broadcast, AtRest, vars

\* A reload of the configuration replaces configuration, manager and keys together, or
\* leaves all of them as they were when it began: whatever is written into either file
\* between its steps, and whichever of them does not load.
THEOREM ReloadIsAtomic == Spec => AllOrNothing
<1>1. Init => SoFar
  BY DEF Init, SoFar
<1>2. SoFar /\ [Next]_vars =>
        [ReloadEnds =>
           \/ InForceNow' = before
           \/ /\ inForce' = loaded /\ managed' = loaded
              /\ IF KeysPath[loaded] = KeysPath[before.inForce] THEN keys' = before.keys
                 ELSE keys'.path = KeysPath[loaded] /\ ValidKeys(keys'.content)]_vars
  <2>. SUFFICES ASSUME SoFar, [Next]_vars, ReloadEnds
       PROVE  \/ InForceNow' = before
              \/ /\ inForce' = loaded /\ managed' = loaded
                 /\ IF KeysPath[loaded] = KeysPath[before.inForce] THEN keys' = before.keys
                    ELSE keys'.path = KeysPath[loaded] /\ ValidKeys(keys'.content)
    OBVIOUS
  <2>. USE DEF SoFar, ReloadEnds, Goto
  <2>1. CASE Load \/ LoadKeys
    BY <2>1 DEF Load, LoadKeys, InForceNow, forceVars
  <2>2. CASE Swap
    BY <2>2 DEF Swap, KeysMatch
  <2>3. CASE Stat \/ Reconcile \/ Receive \/ Lagged \/ KeyStat \/ KeyLoad \/ Follow
    BY <2>3 DEF Stat, Reconcile, Receive, Lagged, KeyStat, KeyLoad, Follow
  <2>4. CASE UNCHANGED pc
    BY <2>4
  <2>. QED
    BY <2>1, <2>2, <2>3, <2>4 DEF Next, Edit, Broadcast, AtRest, vars
<1>. QED
  BY ShapeInit, ShapeStep, SoFarStep, <1>1, <1>2, PTL DEF Spec, AllOrNothing

\* The keys belong to the configuration in force, or to the one that will be next.
Belong ==
  ~crossed => keys.path = KeysPath[IF pc \in {"reconcile", "swap"} THEN loaded ELSE inForce]

LEMMA BelongStep ==
  ASSUME Shape, Belong, [Next]_vars PROVE Belong'
<1>. USE DEF Belong, Goto, AfterConfig, AfterKeys, forceVars, readVars, ghostVars
<1>1. CASE Load
  BY <1>1 DEF Load
<1>2. CASE LoadKeys
  BY <1>2 DEF LoadKeys
<1>3. CASE KeyLoad
  <2>1. pc = "keyload" /\ pc' \notin {"reconcile", "swap"} /\ UNCHANGED inForce
    BY <1>3 DEF KeyLoad
  <2>2. CASE UNCHANGED <<keys, crossed>>
    BY <2>1, <2>2
  <2>3. CASE /\ keys' = [path |-> watched, content |-> file[watched].content]
             /\ crossed' = (watched # KeysPath[inForce])
    <3>1. ~crossed' => watched = KeysPath[inForce]
      BY <2>3, Zenon
    <3>. QED
      BY <2>1, <2>3, <3>1
  <2>. QED
    BY <1>3, <2>2, <2>3, Zenon DEF KeyLoad
<1>4. CASE Reconcile \/ Swap
  BY <1>4 DEF Reconcile, Swap
<1>5. CASE Lagged \/ Receive \/ Stat \/ KeyStat \/ Follow
  BY <1>5 DEF Lagged, Receive, Stat, KeyStat, Follow
<1>6. CASE UNCHANGED <<pc, loaded, inForce, keys, crossed>>
  BY <1>6
<1>. QED
  BY <1>1, <1>2, <1>3, <1>4, <1>5, <1>6 DEF Next, Edit, Broadcast, AtRest, vars

\* No configuration comes into force without the keys of the file it names; another
\* file's keys take their place only when the watcher still follows that one.
THEOREM KeysStayWithConfig == Spec => []KeysBelong
<1>1. Init => Belong
  BY DEF Init, Belong
<1>2. Belong => KeysBelong
  BY DEF Belong, KeysBelong
<1>. QED
  BY ShapeInit, ShapeStep, BelongStep, <1>1, <1>2, PTL DEF Spec

-----------------------------------------------------------------------------
(* The configuration file. *)

Now == file[Config]

\* The reload task has the file in hand, as far as it goes.
InHand == pc \in {"load", "loadkeys", "reconcile", "swap"}
Read   == pc \in {"loadkeys", "reconcile", "swap"}

\* The gate lets pass whatever differs from what is in force.
GateKnows == lastMtime = Now.mtime => inForce = Now.content

\* What the reload task knows of the file is true, or it will hear of it.
TaskKnows ==
  /\ InHand => seen = Now.mtime \/ Underway(Config) \/ Now.content = Missing
  /\ Read => loaded = Now.content \/ Underway(Config) \/ Now.content = Missing
  /\ Read /\ seen = Now.mtime => loaded = Now.content

Settled == ~Loadable(Now.content) \/ Now.mtime = refused \/ inForce = Now.content

\* The configuration in force is that of the file, or will be.
Settles ==
  \/ Settled \/ Underway(Config) \/ pc \in {"stat", "load"}
  \/ Read /\ loaded = Now.content

ConfigInv == Shape /\ GateKnows /\ TaskKnows /\ Settles

LEMMA ConfigInit == Init => ConfigInv
<1>. SUFFICES ASSUME Init PROVE ConfigInv
  OBVIOUS
<1>1. Now.content = First /\ Now.mtime = 1
  BY PathsFinite, ReloadAssumption DEF Init, Now, ReloadAssumption
<1>2. pc = "idle" /\ inForce = First /\ lastMtime = Never
  BY DEF Init
<1>. QED
  BY <1>1, <1>2, ShapeInit
  DEF ConfigInv, GateKnows, TaskKnows, Settles, Settled, InHand, Read, Never

LEMMA ConfigStep ==
  ASSUME ConfigInv, [Next]_vars PROVE GateKnows' /\ TaskKnows' /\ Settles'
<1>. USE PathsFinite, GoodIsThere, ReloadAssumption
     DEF GateKnows, TaskKnows, Settles, Settled, Now, InHand, Read,
         Goto, AfterConfig, AfterKeys, forceVars, readVars, ghostVars, fileVars
<1>. Shape /\ FileTypes /\ TaskTypes /\ GateKnows /\ TaskKnows /\ Settles
  BY DEF ConfigInv, Shape
<1>1. ASSUME NEW p \in Paths, Edit(p), p # Config PROVE GateKnows' /\ TaskKnows' /\ Settles'
  <2>1. UNCHANGED <<file[Config], queue, lost, pc, readVars, forceVars, refused>> /\ pending \subseteq pending'
    BY <1>1 DEF Edit, FileTypes
  <2>2. Underway(Config) => Underway(Config)'
    BY <2>1 DEF Underway, Queued
  <2>. QED
    BY <2>1, <2>2
<1>2. CASE Edit(Config)
  <2>1. /\ UNCHANGED <<queue, lost, pc, readVars, forceVars, refused>>
        /\ file'[Config].mtime = clock + 1
        /\ file'[Config].content # Missing => Config \in pending'
    BY <1>2 DEF Edit, FileTypes
  <2>2. file'[Config].mtime # seen /\ file'[Config].mtime # lastMtime
    BY <2>1 DEF FileTypes, TaskTypes
  <2>. QED
    BY <2>1, <2>2 DEF Underway
<1>3. CASE Broadcast
  <2>1. Underway(Config) => Underway(Config)'
    BY <1>3, BroadcastKeeps DEF FileTypes, ReloadAssumption
  <2>. QED
    BY <1>3, <2>1 DEF Broadcast
<1>4. CASE Receive
  <2>1. pc = "idle" /\ UNCHANGED <<file, readVars, forceVars, ghostVars>>
    BY <1>4 DEF Receive
  <2>2. CASE Head(queue) = Config
    <3>. watched # Config
      BY DEF ReloadAssumption, TaskTypes
    <3>1. Now.content = Missing \/ pc' = "stat"
      BY <1>4, <2>2 DEF Receive
    <3>2. Now.content = Missing => pc' = "follow"
      BY <1>4, <2>2 DEF Receive
    <3>. QED
      BY <2>1, <3>1, <3>2
  <2>3. CASE Head(queue) # Config
    <3>1. Underway(Config) => Underway(Config)'
      BY <1>4, <2>3, ReceiveTakesOne DEF FileTypes
    <3>2. pc' \in {"keystat", "follow"}
      BY <1>4, <2>3 DEF Receive
    <3>. QED
      BY <2>1, <3>1, <3>2
  <2>. QED
    BY <2>2, <2>3
<1>5. CASE Lagged
  BY <1>5 DEF Lagged
<1>6. ASSUME UNCHANGED <<pending, queue, lost>> PROVE Underway(Config)' <=> Underway(Config)
  BY <1>6 DEF Underway, Queued
<1>7. CASE Stat
  BY <1>6, <1>7 DEF Stat, Changed
<1>8. CASE Load
  BY <1>6, <1>8 DEF Load
<1>9. CASE LoadKeys
  BY <1>6, <1>9 DEF LoadKeys
<1>10. CASE Reconcile
  BY <1>6, <1>10 DEF Reconcile
<1>11. CASE Swap
  BY <1>6, <1>11 DEF Swap
<1>12. CASE KeyStat \/ KeyLoad \/ Follow
  BY <1>6, <1>12 DEF KeyStat, KeyLoad, Follow
<1>13. CASE UNCHANGED vars
  BY <1>6, <1>13 DEF vars
<1>. QED
  BY <1>1, <1>2, <1>3, <1>4, <1>5, <1>7, <1>8, <1>9, <1>10, <1>11, <1>12, <1>13 DEF Next, AtRest

\* No edit of the configuration is forgotten: the mtime is read before the file,
\* edits come at any time, and the channel overflows, but when all is quiet the
\* configuration in force is that of the file, unless the file was refused.
THEOREM NoEditForgotten == Spec => []ConfigSettles
<1>1. ConfigInv /\ [Next]_vars => ConfigInv'
  BY ShapeStep, ConfigStep DEF ConfigInv
<1>2. ConfigInv => ConfigSettles
  BY DEF ConfigInv, ConfigSettles, Quiet, Settles, Settled, Underway, Queued, Read, Now
<1>. QED
  BY ConfigInit, <1>1, <1>2, PTL DEF Spec

-----------------------------------------------------------------------------
(* The API keys. *)

\* The content of the file that the keys in force are from.
KeyFile == file[keys.path]
Stale == ValidKeys(KeyFile.content) /\ keys.content # KeyFile.content

\* The gate lets pass whatever differs from what is in force.
KeyGateKnows == lastKeysMtime = KeyFile.mtime => ~Stale

\* A resync ends with the keys.
ResyncEnds ==
  resync => pc \in {"stat", "load", "loadkeys", "reconcile", "swap", "keystat", "keyload"}

\* Keys of a file that is not followed are those of the file, until it is edited
\* unnoticed, as long as a configuration that names it is, or will be, in force.
UnwatchedKept ==
  keys.path # watched /\ keys.path \notin missed
  /\ \/ keys.path = KeysPath[inForce]
     \/ pc \in {"reconcile", "swap"} /\ keys.path = KeysPath[loaded]
  => ~Stale

\* Keys of the file that is followed are those of the file, or will be.
WatchedSettles ==
  keys.path = watched /\ watched \notin missed /\ Stale
  => Underway(watched) \/ resync \/ pc \in {"keystat", "keyload"}

KeysInv == Shape /\ KeyGateKnows /\ ResyncEnds /\ UnwatchedKept /\ WatchedSettles

LEMMA KeysStep ==
  ASSUME KeysInv, [Next]_vars PROVE KeyGateKnows' /\ ResyncEnds' /\ UnwatchedKept' /\ WatchedSettles'
<1>. USE PathsFinite, NamedPaths, GoodIsThere, ReloadAssumption
     DEF KeyGateKnows, ResyncEnds, UnwatchedKept, WatchedSettles, Stale, KeyFile,
         Goto, AfterConfig, AfterKeys, forceVars, readVars, ghostVars, fileVars
<1>. DEFINE Kept == KeyGateKnows' /\ ResyncEnds' /\ UnwatchedKept' /\ WatchedSettles'
<1>. Shape /\ FileTypes /\ TaskTypes /\ KeyGateKnows /\ ResyncEnds /\ UnwatchedKept /\ WatchedSettles
  BY DEF KeysInv, Shape
<1>0. keys.path \in KeyPaths /\ watched \in KeyPaths
  BY DEF TaskTypes
<1>1. ASSUME NEW p \in Paths, Edit(p), p # keys.path PROVE Kept
  <2>1. UNCHANGED <<file[keys.path], queue, lost, pc, readVars, forceVars>> /\ pending \subseteq pending'
    BY <1>0, <1>1 DEF Edit, FileTypes
  <2>2. Underway(watched) => Underway(watched)'
    BY <2>1 DEF Underway, Queued
  <2>3. missed \subseteq missed'
    BY <1>1 DEF Edit
  <2>. QED
    BY <2>1, <2>2, <2>3
<1>2. CASE Edit(keys.path)
  <2>1. /\ UNCHANGED <<queue, lost, pc, readVars, forceVars>>
        /\ file'[keys.path].mtime = clock + 1
        /\ file'[keys.path].content # Missing /\ keys.path = watched => watched \in pending'
        /\ keys.path # watched => keys.path \in missed'
    BY <1>0, <1>2 DEF Edit, FileTypes
  <2>2. file'[keys.path].mtime # lastKeysMtime
    BY <2>1 DEF FileTypes, TaskTypes
  <2>. QED
    BY <2>1, <2>2 DEF Underway
<1>3. CASE Broadcast
  <2>0. PICK w \in KeyPaths : w = watched
    BY <1>0
  <2>1. Underway(w) => Underway(w)'
    BY <1>3, BroadcastKeeps DEF FileTypes, ReloadAssumption
  <2>2. w = watched'
    BY <1>3, <2>0 DEF Broadcast
  <2>3. Underway(watched) => Underway(watched)'
    BY <2>0, <2>1, <2>2 DEF Underway, Queued
  <2>. QED
    BY <1>3, <2>3 DEF Broadcast
<1>4. CASE Receive
  <2>1. pc = "idle" /\ UNCHANGED <<file, readVars, forceVars, ghostVars>>
    BY <1>4 DEF Receive
  <2>2. CASE Head(queue) = watched
    <3>1. file[watched].content = Missing \/ pc' = "keystat"
      BY <1>0, <1>4, <2>2 DEF Receive
    <3>2. pc' \notin {"reconcile", "swap"}
      BY <1>4 DEF Receive
    <3>. QED
      BY <2>1, <3>1, <3>2
  <2>3. CASE Head(queue) # watched
    <3>0. PICK w \in KeyPaths : w = watched
      BY <1>0
    <3>3. Underway(w) => Underway(w)'
      BY <1>4, <2>3, <3>0, ReceiveTakesOne DEF FileTypes
    <3>4. w = watched'
      BY <2>1, <3>0
    <3>1. Underway(watched) => Underway(watched)'
      BY <3>0, <3>3, <3>4 DEF Underway, Queued
    <3>2. pc' \notin {"reconcile", "swap"}
      BY <1>4 DEF Receive
    <3>. QED
      BY <2>1, <3>1, <3>2
  <2>. QED
    BY <2>2, <2>3
<1>5. CASE Lagged
  BY <1>5 DEF Lagged
<1>6. ASSUME UNCHANGED <<pending, queue, lost, watched>> PROVE Underway(watched)' <=> Underway(watched)
  BY <1>6 DEF Underway, Queued
<1>7. CASE Stat
  BY <1>6, <1>7 DEF Stat
<1>8. CASE Load
  BY <1>6, <1>8 DEF Load, TaskTypes
<1>9. CASE LoadKeys
  <2>1. CASE UNCHANGED <<keys, missed>>
    BY <1>6, <1>9, <2>1 DEF LoadKeys
  <2>2. CASE keys' = [path |-> KeysPath[loaded], content |-> file[KeysPath[loaded]].content]
    BY <1>6, <1>9, <2>2 DEF LoadKeys
  <2>. QED
    BY <1>9, <2>1, <2>2 DEF LoadKeys
<1>10. CASE Reconcile \/ Swap
  BY <1>6, <1>10 DEF Reconcile, Swap
<1>11. CASE KeyStat
  BY <1>6, <1>11 DEF KeyStat, Changed
<1>12. CASE KeyLoad
  <2>1. CASE keys' = [path |-> watched, content |-> file[watched].content]
    BY <1>6, <1>12, <2>1 DEF KeyLoad
  <2>2. CASE ~ValidKeys(file[watched].content) /\ UNCHANGED <<keys, lastKeysMtime, missed>>
    BY <1>6, <1>12, <2>2 DEF KeyLoad
  <2>. QED
    BY <1>12, <2>1, <2>2 DEF KeyLoad
<1>13. CASE Follow
  <2>1. CASE UNCHANGED watched
    BY <1>6, <1>13, <2>1 DEF Follow
  <2>2. CASE watched' = KeysPath[inForce] /\ watched' # watched
    BY <1>13, <2>2 DEF Follow
  <2>. QED
    BY <1>13, <2>1, <2>2 DEF Follow
<1>14. CASE UNCHANGED vars
  BY <1>6, <1>14 DEF vars
<1>. QED
  BY <1>0, <1>1, <1>2, <1>3, <1>4, <1>5, <1>7, <1>8, <1>9, <1>10, <1>11, <1>12, <1>13, <1>14 DEF Next, AtRest

\* Nor is an edit of the API keys, as long as the file they are from is followed,
\* and was not edited while it was not.
THEOREM NoKeysForgotten == Spec => []KeysSettle
<1>1. ASSUME Init PROVE KeysInv
  <2>0. PICK start \in [KeyPaths -> DOMAIN KeyLines \cup {Missing}] :
          /\ file = [p \in Paths |-> [content |-> IF p = Config THEN First ELSE start[p],
                                     mtime |-> 1]]
          /\ keys = [path |-> KeysPath[First], content |-> FailClosed(start[KeysPath[First]])]
    BY <1>1, Zenon DEF Init
  <2>1. keys.path \in KeyPaths /\ keys.path = watched /\ ~Stale
    BY <1>1, <2>0, GoodIsThere, PathsFinite, NamedPaths, ReloadAssumption
    DEF Init, KeyFile, ReloadAssumption, Stale, FailClosed
  <2>2. ~resync
    BY <1>1 DEF Init
  <2>. QED
    BY <1>1, <2>1, <2>2, ShapeInit
    DEF KeysInv, KeyGateKnows, ResyncEnds, UnwatchedKept, WatchedSettles, Stale
<1>2. KeysInv /\ [Next]_vars => KeysInv'
  BY ShapeStep, KeysStep DEF KeysInv
<1>3. KeysInv => KeysSettle
  BY DEF KeysInv, KeysSettle, Quiet, WatchedSettles, ResyncEnds, Stale, KeyFile, Underway, Queued
<1>. QED
  BY <1>1, <1>2, <1>3, PTL DEF Spec

-----------------------------------------------------------------------------
(* What a valid configuration is good for. *)

LEMMA SectionOf ==
  ASSUME NEW c, Unique(Field(c.models, "name")), NEW k \in DOMAIN c.models
  PROVE  /\ c.models[k].name \in DOMAIN ViewOf(c).models
         /\ ViewOf(c).models[c.models[k].name] = Section(c.models[k])
<1>. DEFINE n == c.models[k].name
            j == CHOOSE x \in DOMAIN c.models : c.models[x].name = n
<1>1. n \in Names(c.models)
  BY DEF Names, Field, Range
<1>2. j \in DOMAIN c.models /\ c.models[j].name = n
  OBVIOUS
<1>3. j = k
  BY <1>2 DEF Unique, Field, IsInjective
<1>4. ViewOf(c).models[n] = Section(c.models[j]) /\ n \in DOMAIN ViewOf(c).models
  BY <1>1 DEF ViewOf
<1>. QED
  BY <1>3, <1>4

LEMMA KindIsNamespace == \A m : DeviceKind(m) \in Namespaces
BY DEF DeviceKind, Namespaces

LEMMA ViewIsWellFormed ==
  ASSUME NEW c, Parsed(c), ModelRules(c) PROVE WellFormed(ViewOf(c))
<1>1. ASSUME NEW n \in DOMAIN ViewOf(c).models
      PROVE  \E k \in DOMAIN c.models : ViewOf(c).models[n] = Section(c.models[k])
  <2>1. n \in Names(c.models)
    BY DEF ViewOf
  <2>2. PICK k \in DOMAIN c.models : n = c.models[k].name
    BY <2>1 DEF Names, Field, Range
  <2>. QED
    BY <2>2, SectionOf DEF ModelRules
<1>2. ASSUME NEW k \in DOMAIN c.models
      PROVE  /\ Section(c.models[k]).kind \in DOMAIN c.slots
             /\ Section(c.models[k]).pool \in Seq(Nat)
             /\ Section(c.models[k]).gpus \in Nat \ {0}
             /\ Section(c.models[k]).vram \in Nat
  <2>. DEFINE m == c.models[k]
  <2>1. m.gpus \in Nat /\ m.vram \in Nat /\ \A n \in Namespaces : m[n] \in Seq(Nat)
    BY DEF Parsed
  <2>2. m.gpus > 0
    BY DEF ModelRules
  <2>3. DeviceKind(m) \in Namespaces /\ DOMAIN c.slots = Namespaces
    BY KindIsNamespace DEF Parsed
  <2>4. /\ Section(m).kind = DeviceKind(m) /\ Section(m).pool = m[DeviceKind(m)]
        /\ Section(m).gpus = m.gpus /\ Section(m).vram = m.vram
    BY DEF Section
  <2>. HIDE DEF m
  <2>5. /\ Section(m).kind \in DOMAIN c.slots /\ Section(m).pool \in Seq(Nat)
        /\ Section(m).gpus \in Nat \ {0} /\ Section(m).vram \in Nat
    BY <2>1, <2>2, <2>3, <2>4
  <2>. QED
    BY <2>5 DEF m
<1>3. ViewOf(c).slots = c.slots /\ ViewOf(c).limits = c.limits
  BY DEF ViewOf
<1>. QED
  BY <1>1, <1>2, <1>3 DEF WellFormed, Parsed

\* A model on the CPU is told not to offload, or says so itself.
LEMMA CpuStaysOnCpu ==
  ASSUME NEW c, NEW m,
         ResolvedArgs(c, m) \in Seq([flag : BOOLEAN, inline : BOOLEAN, value : Seq(Int)]),
         Llama(m), ~RequestsOffload(c, m)
  PROVE  OffloadDecl(CpuArgs(c, m)) = Layers(0)
<1>. DEFINE args == ResolvedArgs(c, m)
            n == Len(args)
            more == args \o <<Flag, Word(0)>>
<1>1. OffloadDecl(args) \in {Absent, Layers(0)}
  BY DEF RequestsOffload
<1>2. CASE OffloadDecl(args) # Absent
  BY <1>1, <1>2 DEF CpuArgs
<1>3. CASE OffloadDecl(args) = Absent
  <2>1. CpuArgs(c, m) = more
    BY <1>3 DEF CpuArgs
  <2>2. Absent # Layers(0) /\ Absent # Invalid /\ \A k : Absent # Layers(k)
    BY DEF Absent, Layers, Invalid
  <2>3. {k \in DOMAIN args : args[k].flag} = {}
    <3>1. \A value : Declared(value) # Absent
      BY <2>2 DEF Declared
    <3>. QED
      BY <1>3, <2>2, <3>1 DEF OffloadDecl
  <2>4. /\ n \in Nat /\ DOMAIN args = 1..n
        /\ Len(more) = n + 2 /\ DOMAIN more = 1..(n + 2)
        /\ \A k \in 1..n : more[k] = args[k]
        /\ more[n + 1] = Flag /\ more[n + 2] = Word(0)
    OBVIOUS
  <2>. HIDE DEF args, more, n
  <2>5. {k \in DOMAIN more : more[k].flag} = {n + 1}
    <3>1. ASSUME NEW k \in DOMAIN more PROVE more[k].flag <=> k = n + 1
      <4>1. k \in 1..n \/ k = n + 1 \/ k = n + 2
        BY <2>4
      <4>2. CASE k \in 1..n
        BY <2>3, <2>4, <4>2
      <4>3. Flag.flag /\ ~Word(0).flag
        BY DEF Flag, Word
      <4>. QED
        BY <2>4, <4>1, <4>2, <4>3
    <3>. QED
      BY <2>4, <3>1
  <2>6. Max({n + 1}) = n + 1
    <3>1. \A x \in {n + 1} : x >= n + 1
      BY <2>4
    <3>. QED
      BY <3>1 DEF Max
  <2>7. OffloadDecl(more) = Declared(more[(n + 1) + 1].value)
    <3>1. ~more[n + 1].inline
      BY <2>4 DEF Flag
    <3>. DEFINE F == {k \in DOMAIN more : more[k].flag}
    <3>2. OffloadDecl(more) =
            IF F = {} THEN Absent
            ELSE IF more[Max(F)].inline THEN Declared(more[Max(F)].value)
            ELSE IF Max(F) < Len(more) THEN Declared(more[Max(F) + 1].value)
            ELSE Invalid
      BY DEF OffloadDecl
    <3>3. F = {n + 1} /\ Max(F) = n + 1
      BY <2>5, <2>6
    <3>. HIDE DEF F
    <3>4. n + 1 < Len(more) /\ F # {}
      BY <2>4, <3>3
    <3>. QED
      BY <3>1, <3>2, <3>3, <3>4
  <2>8. Declared(Word(0).value) = Layers(0)
    BY DEF Declared, Word, NotANumber
  <2>9. more[(n + 1) + 1] = Word(0)
    BY <2>4
  <2>. QED
    BY <2>1, <2>7, <2>8, <2>9
<1>. QED
  BY <1>2, <1>3

LEMMA NothingUsed == \A v, s : Used(v, <<>>, s) = 0 /\ IsFleet(<<>>)
<1>1. DOMAIN <<>> = {}
  OBVIOUS
<1>2. IsFleet(<<>>)
  BY <1>1, FS_EmptySet DEF IsFleet
<1>3. ASSUME NEW v, NEW s PROVE Used(v, <<>>, s) = 0
  BY <1>1, UsedIsSum, SumOfNone
<1>. QED
  BY <1>2, <1>3

\* On an idle machine a device with enough memory fits.
LEMMA RoomyFits ==
  ASSUME NEW v, WellFormed(v), NEW m \in DOMAIN v.models, NEW d \in DOMAIN v.slots[v.models[m].kind],
         Capacities(v, v.models[m].kind, d) # {},
         v.models[m].vram <= Min(Capacities(v, v.models[m].kind, d))
  PROVE  Fits(v, <<>>, m, d)
<1>. DEFINE kind == v.models[m].kind
            vram == v.models[m].vram
            least == Min(Capacities(v, kind, d))
            free == Free(v, <<>>, kind, d)
            used == Used(v, <<>>, v.slots[kind][d])
<1>1. used = 0 /\ IsFleet(<<>>)
  BY NothingUsed
<1>2. vram \in Nat /\ least \in Nat
  BY CapacityType DEF WellFormed
<1>3. free = IF least <= used THEN 0 ELSE least - used
  BY <1>1, FreeType
<1>4. vram <= least
  OBVIOUS
<1>. HIDE DEF vram, least, free, used
<1>5. free >= vram
  BY <1>1, <1>2, <1>3, <1>4
<1>6. DOMAIN <<>> = {}
  OBVIOUS
<1>. QED
  BY <1>5, <1>6 DEF Fits, free, vram

LEMMA PlacesOf ==
  ASSUME NEW pool \in Seq(Nat)
  PROVE  Len(pool) \in Nat /\ Cardinality(DOMAIN pool) = Len(pool)
<1>1. Len(pool) \in Nat /\ DOMAIN pool = 1..Len(pool)
  OBVIOUS
<1>2. \A n \in Int : Cardinality(1..n) = IF 1 > n THEN 0 ELSE n - 1 + 1
  <2>1. 1 \in Int
    OBVIOUS
  <2>. QED
    BY <2>1, FS_Interval, Zenon
<1>. QED
  BY <1>1, <1>2

\* What a valid configuration spawns on an idle machine.
LEMMA SpawnsAll ==
  ASSUME NEW c, Parsed(c), Valid(c), NEW k \in DOMAIN c.models, NEW m, m = c.models[k],
         NEW v, v = ViewOf(c), NEW pool, pool = v.models[m.name].pool, pool # <<>>, c.devices,
         IsInjective(pool),
         \A d \in Range(pool) : d \in DOMAIN c.slots[DeviceKind(m)] => Roomy(c, m, d),
         NEW chosen, chosen = SelectGpus(v, <<>>, m.name)
  PROVE  /\ Len(chosen) = m.gpus
         /\ IsInjective([n \in DOMAIN chosen |-> c.slots[DeviceKind(m)][chosen[n]]])
<1>. DEFINE kind == DeviceKind(m)
            C == Candidates(v, <<>>, m.name)
<1>1. m.name \in DOMAIN v.models /\ v.models[m.name] = Section(m) /\ pool = m[kind]
  <2>1. Unique(Field(c.models, "name"))
    BY DEF Valid, ModelRules
  <2>2. m.name \in DOMAIN v.models /\ v.models[m.name] = Section(m)
    BY <2>1, SectionOf
  <2>3. Section(m).pool = m[kind]
    BY DEF Section
  <2>. QED
    BY <2>2, <2>3
<1>2. WellFormed(v) /\ v.slots = c.slots
  BY ViewIsWellFormed DEF Valid, ViewOf
<1>3. kind \in Namespaces /\ pool \in Seq(Nat) /\ m.gpus \in Nat /\ m.gpus <= Len(pool)
  <2>1. kind \in Namespaces
    BY KindIsNamespace
  <2>2. m.gpus \in Nat /\ m[kind] \in Seq(Nat)
    BY <2>1 DEF Parsed
  <2>3. PoolRules(c, m, m[kind])
    BY DEF Valid, ModelRules
  <2>. QED
    BY <1>1, <2>1, <2>2, <2>3 DEF PoolRules
<1>4. Range(pool) \subseteq DOMAIN c.slots[kind]
  BY <1>1, <1>3 DEF Valid, PoolsKnown
<1>5. IsInjective(c.slots[kind])
  BY <1>3 DEF Valid, DeviceRules
<1>6. C = DOMAIN pool
  <2>. SUFFICES ASSUME NEW j \in DOMAIN pool PROVE Fits(v, <<>>, m.name, pool[j])
    BY <1>1 DEF Candidates
  <2>. DEFINE d == pool[j]
  <2>1. d \in DOMAIN v.slots[kind] /\ Roomy(c, m, d)
    BY <1>2, <1>4 DEF Range
  <2>2. v.models[m.name].kind = kind /\ v.models[m.name].vram = m.vram
    BY <1>1 DEF Section
  <2>. HIDE DEF d
  <2>3. Capacities(v, kind, d) # {} /\ m.vram <= Min(Capacities(v, kind, d))
    BY <2>1 DEF Roomy
  <2>4. Fits(v, <<>>, m.name, d)
    BY <1>1, <1>2, <2>1, <2>2, <2>3, RoomyFits
  <2>. QED
    BY <2>4 DEF d
<1>7. Len(pool) \in Nat /\ Cardinality(C) = Len(pool)
  BY <1>3, <1>6, PlacesOf
<1>8. /\ chosen \in Seq(Nat) /\ PicksFrom(chosen, C, v.models[m.name].pool)
      /\ Len(chosen) = IF Cardinality(C) < v.models[m.name].gpus
                       THEN 0 ELSE v.models[m.name].gpus
  BY <1>1, <1>2, NothingUsed, Selected
<1>9. Len(chosen) = m.gpus
  <2>1. v.models[m.name].gpus = m.gpus
    BY <1>1 DEF Section
  <2>. HIDE DEF C, kind
  <2>2. ~(Cardinality(C) < m.gpus)
    <3>. DEFINE n == Len(pool)
                g == m.gpus
    <3>1. n \in Nat /\ g \in Nat /\ g <= n /\ Cardinality(C) = n
      BY <1>3, <1>7
    <3>. HIDE DEF n, g
    <3>2. ~(n < g)
      BY <3>1
    <3>. QED
      BY <3>1, <3>2, Zenon DEF g
  <2>. QED
    BY <1>8, <2>1, <2>2, Zenon
<1>10. \A a, b \in DOMAIN chosen : c.slots[kind][chosen[a]] = c.slots[kind][chosen[b]] => a = b
  <2>. HIDE DEF C, kind
  <2>0. PicksFrom(chosen, C, pool)
    BY <1>8
  <2>1. PICK p \in [DOMAIN chosen -> C] :
          /\ \A a, b \in DOMAIN chosen : p[a] = p[b] => a = b
          /\ \A n \in DOMAIN chosen : chosen[n] = pool[p[n]]
    BY <2>0 DEF PicksFrom
  <2>. SUFFICES ASSUME NEW a \in DOMAIN chosen, NEW b \in DOMAIN chosen,
                       c.slots[kind][chosen[a]] = c.slots[kind][chosen[b]]
       PROVE  a = b
    OBVIOUS
  <2>2. p[a] \in DOMAIN pool /\ p[b] \in DOMAIN pool
        /\ chosen[a] = pool[p[a]] /\ chosen[b] = pool[p[b]]
    BY <1>6, <2>1
  <2>3. chosen[a] \in DOMAIN c.slots[kind] /\ chosen[b] \in DOMAIN c.slots[kind]
    BY <1>4, <2>2 DEF Range
  <2>4. chosen[a] = chosen[b]
    BY <1>5, <2>3 DEF IsInjective
  <2>5. p[a] = p[b]
    <3>1. \A x, y \in DOMAIN pool : pool[x] = pool[y] => x = y
      BY DEF IsInjective
    <3>2. pool[p[a]] = pool[p[b]]
      BY <2>2, <2>4
    <3>. QED
      BY <2>2, <3>1, <3>2
  <2>. QED
    BY <2>1, <2>5
<1>11. IsInjective([n \in DOMAIN chosen |-> c.slots[kind][chosen[n]]])
  <2>. DEFINE given == [n \in DOMAIN chosen |-> c.slots[kind][chosen[n]]]
  <2>1. DOMAIN given = DOMAIN chosen
        /\ \A n \in DOMAIN chosen : given[n] = c.slots[kind][chosen[n]]
    OBVIOUS
  <2>. HIDE DEF given, kind
  <2>2. \A a, b \in DOMAIN given : given[a] = given[b] => a = b
    <3>. SUFFICES ASSUME NEW a \in DOMAIN chosen, NEW b \in DOMAIN chosen,
                         given[a] = given[b]
         PROVE  a = b
      BY <2>1
    <3>1. c.slots[kind][chosen[a]] = c.slots[kind][chosen[b]]
      BY <2>1
    <3>. QED
      BY <1>10, <3>1
  <2>3. IsInjective(given)
    BY <2>2, Zenon DEF IsInjective
  <2>. QED
    BY <2>3 DEF given
<1>. QED
  BY <1>9, <1>11

\* What validate accepts can be served: an idle machine has the devices every model
\* needs, a model without devices stays on the CPU, and an alias leads to models.  Of
\* a model on devices nothing is said if there is no section of devices, if a device
\* has too little memory or unknown memory, or if its pool names a device twice.
THEOREM ValidServes ==
  ASSUME NEW c, Parsed(c), Valid(c) PROVE Serviceable(c)
<1>. DEFINE v == ViewOf(c)
<1>1. ASSUME NEW k \in DOMAIN c.models,
             v.models[c.models[k].name].pool = <<>>, Llama(c.models[k])
      PROVE  OffloadDecl(CpuArgs(c, c.models[k])) = Layers(0)
  <2>. DEFINE m == c.models[k]
  <2>1. m[DeviceKind(m)] = <<>>
    <3>1. Unique(Field(c.models, "name"))
      BY DEF Valid, ModelRules
    <3>2. v.models[m.name] = Section(m)
      BY <3>1, SectionOf
    <3>3. Section(m).pool = m[DeviceKind(m)]
      BY DEF Section
    <3>. QED
      BY <1>1, <3>2, <3>3
  <2>2. ~RequestsOffload(c, m)
    BY <2>1 DEF Valid, ModelRules, PoolRules
  <2>3. ResolvedArgs(c, m) \in Seq([flag : BOOLEAN, inline : BOOLEAN, value : Seq(Int)])
    BY DEF Parsed
  <2>. HIDE DEF m
  <2>4. OffloadDecl(CpuArgs(c, m)) = Layers(0)
    BY <1>1, <2>2, <2>3, CpuStaysOnCpu DEF m
  <2>. QED
    BY <2>4 DEF m
<1>2. ASSUME NEW k \in DOMAIN c.models,
             v.models[c.models[k].name].pool # <<>>, c.devices,
             IsInjective(v.models[c.models[k].name].pool),
             \A d \in Range(v.models[c.models[k].name].pool) :
               d \in DOMAIN c.slots[DeviceKind(c.models[k])] => Roomy(c, c.models[k], d),
             NEW chosen, chosen = SelectGpus(v, <<>>, c.models[k].name)
      PROVE  /\ Len(chosen) = c.models[k].gpus
             /\ IsInjective([n \in DOMAIN chosen |->
                               c.slots[DeviceKind(c.models[k])][chosen[n]]])
  BY <1>2, SpawnsAll
<1>3. \A k \in DOMAIN c.aliases : Range(c.aliases[k].targets) \subseteq DOMAIN v.models
  BY DEF Valid, AliasRules, ViewOf
<1>. QED
  BY <1>1, <1>2, <1>3 DEF Serviceable

-----------------------------------------------------------------------------
\* What the task has read, and what is in force, has passed validate.
ValidInv ==
  /\ Valid(Content[inForce]) /\ Valid(Content[managed])
  /\ Read => Valid(Content[loaded])

LEMMA ValidStep ==
  ASSUME Shape, ValidInv, [Next]_vars PROVE ValidInv'
<1>. USE DEF ValidInv, Read, Goto, AfterConfig, AfterKeys, forceVars, readVars
<1>1. CASE Load
  BY <1>1 DEF Load, Loadable
<1>2. CASE LoadKeys \/ KeyLoad
  BY <1>2 DEF LoadKeys, KeyLoad
<1>3. CASE Reconcile \/ Swap
  BY <1>3 DEF Reconcile, Swap
<1>4. CASE Lagged \/ Receive \/ Stat \/ KeyStat \/ Follow
  BY <1>4 DEF Lagged, Receive, Stat, KeyStat, Follow
<1>5. CASE UNCHANGED <<pc, readVars, inForce, managed, keys>>
  BY <1>5
<1>. QED
  BY <1>1, <1>2, <1>3, <1>4, <1>5 DEF Next, Edit, Broadcast, AtRest, vars

\* Handlers and instance manager never have a configuration that could not be
\* served, with the exceptions of ValidServes, whatever has been written into the files
\* and however a reload failed.
THEOREM AlwaysServiceable == Spec => []InForceServiceable
<1>1. Init => ValidInv
  BY StartAssumption DEF Init, ValidInv, Loadable, Read
<1>2. Shape /\ ValidInv => InForceServiceable
  <2>. SUFFICES ASSUME Shape, ValidInv PROVE InForceServiceable
    OBVIOUS
  <2>1. inForce \in DOMAIN Content /\ managed \in DOMAIN Content
    BY DEF Shape, TaskTypes
  <2>2. Parsed(Content[inForce]) /\ Parsed(Content[managed])
    BY <2>1, ReloadAssumption
  <2>. QED
    BY <2>2, ValidServes DEF ValidInv, InForceServiceable
<1>. QED
  BY ShapeInit, ShapeStep, ValidStep, <1>1, <1>2, PTL DEF Spec
===============================================================================
