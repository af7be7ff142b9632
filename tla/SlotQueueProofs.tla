--------------------------- MODULE SlotQueueProofs ---------------------------
(* Theorems about SlotQueue, for any number of requests, instances and slots,
   and that it implements SlotPool. *)
EXTENDS SlotQueue, FiniteSetTheorems, SequenceTheorems, TLAPS

Hands   == {"find", "take", "send", "repark"}
Spawns  == {"loading", "check"}

\* How the program counters, hands and selections of the tasks go together.
TaskShape == \A r \in Requests : task[r] \in {"idle", "start", "pop"} \cup Hands
WakeShape == \A r \in Requests : task[r] # "idle" => pc[r] = "parked"
HandShape == \A w \in Wakers : hand[w] # None <=> task[w] \in Hands
PickShape == \A w \in Wakers : task[w] \in {"take", "send"} => pick[w] \in Instances
TakeShape == \A r \in Requests : pc[r] \in {"take", "retry"} => pick[r] \in Instances
SpawnShape == task[SpawnTask] \in Spawns => pick[SpawnTask] \in Instances
Shape == TaskShape /\ WakeShape /\ HandShape /\ PickShape /\ TakeShape /\ SpawnShape

\* Initially every task is idle and holds nothing.
LEMMA ShapeInit == Init => TypeOK /\ Shape
  BY SentinelsAssumption, TasksAssumption
  DEF Init, TypeOK, Shape, TaskShape, WakeShape, HandShape, PickShape, TakeShape, SpawnShape,
      Wakers, Workers, PCs, Waiting, Tasks, Removals, Hands, Spawns

\* Every step keeps the counters, hands and selections in step.
LEMMA ShapeStep == TypeOK /\ Shape /\ [Next]_vars => Shape'
<1>. SUFFICES ASSUME TypeOK, Shape, [Next]_vars PROVE Shape'
  OBVIOUS
<1>. /\ task \in [Workers -> Tasks] /\ hand \in [Workers -> Requests \cup {None}]
     /\ pick \in [Workers -> Instances \cup {None}] /\ pc \in [Requests -> PCs]
     /\ queue \in Seq(Requests) /\ registry \subseteq Instances
  BY DEF TypeOK
<1>. /\ Requests \subseteq Wakers /\ Wakers \subseteq Workers
     /\ {ReleaseTask, SpawnTask} \subseteq Wakers \ Requests
     /\ {Autoscaler, Reloader} \subseteq Workers \ Wakers
     /\ Reapers = {ReleaseTask, Autoscaler} /\ SpawnTask \notin Reapers
     /\ None \notin Workers /\ None \notin Instances
     /\ \A w \in Wakers : w \in Requests \/ w = ReleaseTask \/ w = SpawnTask
  BY SentinelsAssumption, TasksAssumption DEF Wakers, Workers, Reapers
<1>. USE DEF Hands, Spawns, Shape, TaskShape, WakeShape, HandShape, PickShape, TakeShape,
             SpawnShape, instVars, slotVars, wakeVars, planVars
<1>1. ASSUME NEW r \in Requests, GetOrSpawn(r) PROVE Shape'
  BY <1>1 DEF GetOrSpawn, Goto, SpawnOrQueue, EnsureSpawn, LeastLoaded
<1>2. ASSUME NEW r \in Requests, SpawnWaited(r) PROVE Shape'
  BY <1>2 DEF SpawnWaited, Goto, LeastLoaded
<1>3. ASSUME NEW r \in Requests, TakeSlot(r) PROVE Shape'
  BY <1>3 DEF TakeSlot, Goto, AcquireSlot, SpawnOrQueue, EnsureSpawn
<1>4. ASSUME NEW r \in Requests, Enqueue(r) PROVE Shape'
  BY <1>4 DEF Enqueue, Goto
<1>5. ASSUME NEW r \in Requests, Receive(r) PROVE Shape'
  BY <1>5 DEF Receive, Goto, Awaits
<1>6. ASSUME NEW r \in Requests, ReceiveClosed(r) PROVE Shape'
  BY <1>6 DEF ReceiveClosed, Goto, Awaits
<1>7. ASSUME NEW r \in Requests, Timeout(r) PROVE Shape'
  BY <1>7 DEF Timeout, Goto, Awaits, DropGuard, ReleaseSlot
<1>8. ASSUME NEW r \in Requests, RemoveQueued(r) PROVE Shape'
  BY <1>8 DEF RemoveQueued, Goto
<1>9. ASSUME NEW r \in Requests, Finish(r) PROVE Shape'
  BY <1>9 DEF Finish, Goto, DropGuard, ReleaseSlot
<1>10. ASSUME NEW r \in Requests, Disconnect(r) PROVE Shape'
  BY <1>10 DEF Disconnect, Goto, Awaits, DropGuard, ReleaseSlot
<1>11. ASSUME NEW w \in Wakers, WakePop(w) PROVE Shape'
  BY <1>11 DEF WakePop, WakeReturns
<1>12. ASSUME NEW w \in Wakers, WakeFind(w) PROVE Shape'
  BY <1>12 DEF WakeFind, LeastLoaded
<1>13. ASSUME NEW w \in Wakers, WakeTake(w) PROVE Shape'
  BY <1>13 DEF WakeTake, AcquireSlot
<1>14. ASSUME NEW w \in Wakers, WakeSend(w) PROVE Shape'
  <2>1. TaskShape'
    BY <1>14 DEF WakeSend, WakeReturns, ReleaseSlot, ReceiverAlive
  <2>2. WakeShape'
    BY <1>14 DEF WakeSend, WakeReturns, ReleaseSlot, ReceiverAlive
  <2>3. HandShape'
    BY <1>14 DEF WakeSend, WakeReturns, ReleaseSlot, ReceiverAlive
  <2>4. PickShape'
    BY <1>14 DEF WakeSend, WakeReturns, ReleaseSlot, ReceiverAlive
  <2>5. TakeShape'
    BY <1>14 DEF WakeSend, WakeReturns, ReleaseSlot, ReceiverAlive
  <2>6. SpawnShape'
    BY <1>14 DEF WakeSend, WakeReturns, ReleaseSlot, ReceiverAlive
  <2>. QED
    BY <2>1, <2>2, <2>3, <2>4, <2>5, <2>6
<1>15. ASSUME NEW w \in Wakers, WakeRepark(w) PROVE Shape'
  BY <1>15 DEF WakeRepark, WakeReturns
<1>16. CASE ReceiveRelease
  BY <1>16 DEF ReceiveRelease
<1>17. ASSUME NEW w \in Reapers, ReapDrained(w) PROVE Shape'
  BY <1>17 DEF ReapDrained, Drained
<1>18. ASSUME NEW w \in Reapers, ReapNext(w) PROVE Shape'
  BY <1>18 DEF ReapNext, BeginRemoval
<1>19. ASSUME NEW w \in Workers, Removed(w) PROVE Shape'
  BY <1>19 DEF Removed
<1>20. CASE UnloadModel
  BY <1>20 DEF UnloadModel
<1>21. CASE UnloadNext
  BY <1>21 DEF UnloadNext, DrainInstance, BeginRemoval
<1>22. CASE RemoveModel
  BY <1>22 DEF RemoveModel
<1>23. CASE SpawnRefused
  BY <1>23 DEF SpawnRefused
<1>24. CASE SpawnReady
  BY <1>24 DEF SpawnReady
<1>25. CASE SpawnFailed
  BY <1>25 DEF SpawnFailed, DiscardSpawn, BeginRemoval
<1>26. CASE SpawnCheck
  BY <1>26 DEF SpawnCheck, DiscardSpawn, BeginRemoval
<1>27. ASSUME NEW i \in Instances, SpawnRegister(i) PROVE Shape'
  BY <1>27 DEF SpawnRegister
<1>28. ASSUME NEW i \in Instances, Unlist(i) PROVE Shape'
  BY <1>28 DEF Unlist
<1>29. ASSUME NEW i \in Instances, DrainCheck(i) PROVE Shape'
  BY <1>29 DEF DrainCheck
<1>30. ASSUME NEW i \in Instances, DrainQueue(i) PROVE Shape'
  BY <1>30 DEF DrainQueue
<1>31. ASSUME NEW i \in Instances, RemoveInstance(i) PROVE Shape'
  BY <1>31 DEF RemoveInstance, DrainInstance, BeginRemoval
<1>32. ASSUME NEW i \in Instances, RetireStale(i) PROVE Shape'
  BY <1>32 DEF RetireStale
<1>33. ASSUME NEW i \in Instances, HandleCrash(i) PROVE Shape'
  BY <1>33 DEF HandleCrash, BeginRemoval
<1>34. CASE UNCHANGED vars
  BY <1>34 DEF vars
<1>. QED
  BY <1>1, <1>2, <1>3, <1>4, <1>5, <1>6, <1>7, <1>8, <1>9, <1>10, <1>11, <1>12, <1>13, <1>14,
     <1>15, <1>16, <1>17, <1>18, <1>19, <1>20, <1>21, <1>22, <1>23, <1>24, <1>25, <1>26, <1>27,
     <1>28, <1>29, <1>30, <1>31, <1>32, <1>33, <1>34
  DEF Next, RequestStep, WakeStep, ReleaseStep, ReapStep, Reapers, UnloadStep, SpawnStep,
      RemovalStep, AllAnswered

-----------------------------------------------------------------------------
(* The queue as a sequence without repetitions. *)

In(q, r)    == \E k \in 1..Len(q) : q[k] = r
Distinct(q) == \A j, k \in 1..Len(q) : q[j] = q[k] => j = k
Splice(q, k) == SubSeq(q, 1, k - 1) \o SubSeq(q, k + 1, Len(q))

\* A push at the tail adds one element.
LEMMA PushTail ==
  ASSUME NEW S, NEW q \in Seq(S), NEW e \in S, ~In(q, e), Distinct(q)
  PROVE  /\ Append(q, e) \in Seq(S) /\ Distinct(Append(q, e))
         /\ \A r : In(Append(q, e), r) <=> r = e \/ In(q, r)
<1>1. Append(q, e) \in Seq(S) /\ Len(Append(q, e)) = Len(q) + 1 /\ Len(q) \in Nat
  OBVIOUS
<1>2. \A k \in 1..Len(q) : Append(q, e)[k] = q[k]
  OBVIOUS
<1>3. Append(q, e)[Len(q) + 1] = e
  OBVIOUS
<1>. QED
  BY <1>1, <1>2, <1>3 DEF In, Distinct

\* A push at the head adds one element.
LEMMA PushHead ==
  ASSUME NEW S, NEW q \in Seq(S), NEW e \in S, ~In(q, e), Distinct(q)
  PROVE  /\ <<e>> \o q \in Seq(S) /\ Distinct(<<e>> \o q)
         /\ \A r : In(<<e>> \o q, r) <=> r = e \/ In(q, r)
<1>. DEFINE p == <<e>> \o q
<1>1. p \in Seq(S) /\ Len(p) = Len(q) + 1 /\ Len(q) \in Nat
  OBVIOUS
<1>2. p[1] = e /\ \A k \in 2..Len(q) + 1 : p[k] = q[k - 1]
  OBVIOUS
<1>. HIDE DEF p
<1>3. ASSUME NEW k \in 1..Len(p)
      PROVE  \/ k = 1 /\ p[k] = e
             \/ k - 1 \in 1..Len(q) /\ p[k] = q[k - 1]
  BY <1>1, <1>2
<1>4. ASSUME NEW j \in 1..Len(p), NEW k \in 1..Len(p), p[j] = p[k] PROVE j = k
  <2>1. \A i \in 1..Len(q) : q[i] # e
    BY DEF In
  <2>2. j \in Int /\ k \in Int
    BY <1>1
  <2>3. CASE j = 1
    BY <2>1, <2>2, <2>3, <1>3, <1>4
  <2>4. CASE k = 1
    BY <2>1, <2>2, <2>4, <1>3, <1>4
  <2>5. CASE j # 1 /\ k # 1
    <3>1. j - 1 \in 1..Len(q) /\ k - 1 \in 1..Len(q) /\ q[j - 1] = q[k - 1]
      BY <1>3, <1>4, <2>5
    <3>2. j - 1 = k - 1
      BY <3>1 DEF Distinct
    <3>. QED
      BY <3>2, <2>2
  <2>. QED
    BY <2>3, <2>4, <2>5
<1>5. ASSUME NEW r PROVE In(p, r) <=> r = e \/ In(q, r)
  <2>1. ASSUME NEW k \in 1..Len(q) PROVE k + 1 \in 1..Len(p) /\ p[k + 1] = q[k]
    BY <1>1, <1>3
  <2>2. 1 \in 1..Len(p) /\ p[1] = e
    BY <1>1, <1>3
  <2>3. ASSUME NEW k \in 1..Len(p), p[k] = r PROVE r = e \/ In(q, r)
    BY <1>3, <2>3 DEF In
  <2>. QED
    BY <2>1, <2>2, <2>3 DEF In
<1>. QED
  BY <1>1, <1>4, <1>5 DEF p, Distinct

\* A pop takes the head, and nothing else, away.
LEMMA PopHead ==
  ASSUME NEW S, NEW q \in Seq(S), q # <<>>, Distinct(q)
  PROVE  /\ Head(q) \in S /\ Tail(q) \in Seq(S) /\ Distinct(Tail(q)) /\ In(q, Head(q))
         /\ \A r : In(Tail(q), r) <=> r # Head(q) /\ In(q, r)
<1>1. Len(q) \in Nat \ {0} /\ Tail(q) \in Seq(S) /\ Len(Tail(q)) = Len(q) - 1
  OBVIOUS
<1>2. Head(q) = q[1] /\ \A k \in 1..Len(q) - 1 : Tail(q)[k] = q[k + 1]
  OBVIOUS
<1>3. \A k \in 2..Len(q) : q[k] = Tail(q)[k - 1]
  BY <1>1, <1>2
<1>4. Distinct(Tail(q))
  BY <1>1, <1>2 DEF Distinct
<1>5. ASSUME NEW r PROVE In(Tail(q), r) <=> r # Head(q) /\ In(q, r)
  BY <1>1, <1>2, <1>3 DEF In, Distinct
<1>. QED
  BY <1>1, <1>2, <1>4, <1>5 DEF In

\* What p = q without its k-th element means, in terms of indices.
LEMMA ShorterByOne ==
  ASSUME NEW q, NEW p, Len(q) \in Nat, NEW k \in 1..Len(q), Distinct(q),
         Len(p) = Len(q) - 1,
         \A j \in 1..Len(q) - 1 : p[j] = IF j < k THEN q[j] ELSE q[j + 1]
  PROVE  Distinct(p) /\ \A r : In(p, r) <=> r # q[k] /\ In(q, r)
<1>. DEFINE from(j) == IF j < k THEN j ELSE j + 1
<1>1. \A j \in 1..Len(p) : from(j) \in 1..Len(q) /\ from(j) # k /\ p[j] = q[from(j)]
  OBVIOUS
<1>2. \A i, j \in 1..Len(p) : from(i) = from(j) => i = j
  OBVIOUS
<1>3. \A i \in 1..Len(q) : i # k => \E j \in 1..Len(p) : from(j) = i
  <2>. SUFFICES ASSUME NEW i \in 1..Len(q), i # k PROVE \E j \in 1..Len(p) : from(j) = i
    OBVIOUS
  <2>1. CASE i < k
    <3>1. i \in 1..Len(p) /\ from(i) = i
      BY <2>1
    <3>. QED
      BY <3>1
  <2>2. CASE i > k
    <3>1. i - 1 \in 1..Len(p) /\ from(i - 1) = i
      BY <2>2
    <3>. QED
      BY <3>1
  <2>. QED
    BY <2>1, <2>2
<1>. HIDE DEF from
<1>4. Distinct(p)
  BY <1>1, <1>2 DEF Distinct
<1>5. ASSUME NEW r PROVE In(p, r) <=> r # q[k] /\ In(q, r)
  <2>1. ASSUME NEW j \in 1..Len(p), p[j] = r PROVE r # q[k] /\ In(q, r)
    BY <1>1, <2>1 DEF In, Distinct
  <2>2. ASSUME NEW i \in 1..Len(q), q[i] = r, r # q[k] PROVE In(p, r)
    BY <1>1, <1>3, <2>2 DEF In
  <2>. QED
    BY <2>1, <2>2 DEF In
<1>. QED
  BY <1>4, <1>5

\* Removing the k-th element takes it, and nothing else, away.
LEMMA Removal ==
  ASSUME NEW S, NEW q \in Seq(S), NEW k \in 1..Len(q), Distinct(q)
  PROVE  /\ Splice(q, k) \in Seq(S) /\ Distinct(Splice(q, k))
         /\ \A r : In(Splice(q, k), r) <=> r # q[k] /\ In(q, r)
<1>. DEFINE p == Splice(q, k)
            a == SubSeq(q, 1, k - 1)
            b == SubSeq(q, k + 1, Len(q))
<1>1. /\ a \in Seq(S) /\ Len(a) = k - 1 /\ \A j \in 1..k - 1 : a[j] = q[j]
      /\ b \in Seq(S) /\ Len(b) = Len(q) - k /\ \A j \in 1..Len(q) - k : b[j] = q[j + k]
  OBVIOUS
<1>2. Len(q) \in Nat /\ k \in Nat /\ 1 <= k /\ k <= Len(q) /\ p = a \o b
  BY DEF Splice
<1>. HIDE DEF p, a, b
<1>. a \in Seq(S) /\ b \in Seq(S)
  BY <1>1
<1>3. /\ a \o b \in Seq(S)
      /\ Len(a \o b) = Len(a) + Len(b)
      /\ \A j \in 1..Len(a) + Len(b) : (a \o b)[j] = IF j <= Len(a) THEN a[j] ELSE b[j - Len(a)]
  BY ONLY a \in Seq(S), b \in Seq(S), ConcatProperties, Zenon
<1>4. Len(p) = Len(q) - 1
  BY ONLY <1>1, <1>2, <1>3
<1>5. ASSUME NEW j \in 1..Len(q) - 1
      PROVE  p[j] = IF j < k THEN q[j] ELSE q[j + 1]
  <2>1. CASE j < k
    BY ONLY <1>1, <1>2, <1>3, <2>1, j \in 1..Len(q) - 1
  <2>2. CASE ~(j < k)
    <3>1. p[j] = b[j - (k - 1)] /\ j - (k - 1) \in 1..Len(q) - k
      BY ONLY <1>1, <1>2, <1>3, <2>2, j \in 1..Len(q) - 1
    <3>2. b[j - (k - 1)] = q[(j - (k - 1)) + k]
      BY <1>1, <3>1
    <3>3. (j - (k - 1)) + k = j + 1
      BY <1>2
    <3>. QED
      BY <3>1, <3>2, <3>3, <2>2
  <2>. QED
    BY <2>1, <2>2
<1>. QED
  BY <1>2, <1>3, <1>4, <1>5, ShorterByOne DEF p

-----------------------------------------------------------------------------
(* Entries: who may have one, and who may hold a guard. *)

Entered(r) == InQueue(r) \/ InHand(r)

\* An entry belongs to a request that parked and has not been given anything; a
\* guard (or the news that the queue was drained) to one that is parked or served.
EntryOwner == \A r \in Requests :
  Entered(r) => guard[r] = None /\ pc[r] \in {"parked", "removing", "timeout", "gone"}
GuardOwner == \A r \in Requests : guard[r] # None => pc[r] \in {"parked", "serving"}
ParkedKept == \A r \in Requests : pc[r] = "parked" /\ guard[r] = None => Entered(r)
QueueDistinct == Distinct(queue)
HandsDistinct == \A v, w \in Wakers : hand[v] = hand[w] /\ hand[v] # None => v = w
HandsApart    == \A w \in Wakers : ~InQueue(hand[w])
Entries == EntryOwner /\ GuardOwner /\ ParkedKept /\ QueueDistinct /\ HandsDistinct /\ HandsApart

\* A step that touches neither the queue nor the hands leaves every entry where
\* it is.
LEMMA EntriesFrame ==
  ASSUME UNCHANGED <<queue, hand>>
  PROVE  /\ \A r : (InQueue(r)' <=> InQueue(r)) /\ (InHand(r)' <=> InHand(r))
         /\ QueueDistinct' = QueueDistinct
  BY DEF InQueue, InHand, QueueDistinct, Distinct

\* Initially nobody has an entry or a guard.
LEMMA EntriesInit == Init => Entries
  BY SentinelsAssumption DEF Init, Entries, EntryOwner, GuardOwner, ParkedKept, QueueDistinct,
     HandsDistinct, HandsApart, Entered, InQueue, InHand, Distinct, Wakers, Workers

\* Every step keeps entries unique, and with requests that may still have one.
LEMMA EntriesStep == TypeOK /\ Shape /\ Entries /\ [Next]_vars => Entries'
<1>. SUFFICES ASSUME TypeOK, Shape, Entries, [Next]_vars PROVE Entries'
  OBVIOUS
<1>. /\ task \in [Workers -> Tasks] /\ hand \in [Workers -> Requests \cup {None}]
     /\ pc \in [Requests -> PCs] /\ guard \in [Requests -> Instances \cup {None, Closed}]
     /\ pick \in [Workers -> Instances \cup {None}]
     /\ queue \in Seq(Requests)
  BY DEF TypeOK
<1>. /\ Requests \subseteq Wakers /\ Wakers \subseteq Workers /\ None \notin Requests /\ None \notin Instances
     /\ Closed \notin Instances /\ None # Closed
  BY SentinelsAssumption DEF Wakers, Workers
<1>. /\ WakeShape /\ HandShape /\ PickShape
  BY DEF Shape
<1>. USE DEF Hands, WakeShape, HandShape, PickShape, Entries, EntryOwner, GuardOwner, ParkedKept,
             HandsDistinct, HandsApart, Entered, instVars, slotVars, wakeVars, planVars
<1>1. ASSUME NEW r \in Requests, GetOrSpawn(r) PROVE Entries'
  BY <1>1, EntriesFrame DEF GetOrSpawn, Goto, SpawnOrQueue, EnsureSpawn, LeastLoaded
<1>2. ASSUME NEW r \in Requests, SpawnWaited(r) PROVE Entries'
  BY <1>2, EntriesFrame DEF SpawnWaited, Goto, LeastLoaded
<1>3. ASSUME NEW r \in Requests, TakeSlot(r) PROVE Entries'
  BY <1>3, EntriesFrame DEF TakeSlot, Goto, AcquireSlot, SpawnOrQueue, EnsureSpawn
<1>4. ASSUME NEW r \in Requests, Enqueue(r) PROVE Entries'
  <2>1. pc[r] = "enqueue" /\ ~In(queue, r) /\ ~InHand(r) /\ guard[r] = None
    BY <1>4 DEF Enqueue, InQueue, In
  <2>2. UNCHANGED <<guard, hand>> /\ \E l \in {"noinst", "full", "parked"} : pc' = [pc EXCEPT ![r] = l]
    BY <1>4 DEF Enqueue, Goto
  <2>3. CASE UNCHANGED queue
    <3>1. pc'[r] # "parked"
      BY <1>4, <2>3 DEF Enqueue, Goto
    <3>. QED
      BY <2>1, <2>2, <2>3, <3>1, EntriesFrame
  <2>4. CASE queue' = Append(queue, r) /\ pc' = [pc EXCEPT ![r] = "parked"]
    <3>1. Distinct(queue') /\ \A s : InQueue(s)' <=> s = r \/ InQueue(s)
      BY <2>1, <2>4, PushTail DEF InQueue, In, QueueDistinct
    <3>2. \A s : InHand(s)' <=> InHand(s)
      BY <2>2 DEF InHand
    <3>3. EntryOwner' /\ GuardOwner'
      BY <2>1, <2>2, <2>4, <3>1, <3>2
    <3>4. ParkedKept' /\ QueueDistinct'
      BY <2>1, <2>2, <2>4, <3>1, <3>2 DEF QueueDistinct
    <3>5. HandsDistinct' /\ HandsApart'
      BY <2>1, <2>2, <3>1 DEF InHand
    <3>. QED
      BY <3>3, <3>4, <3>5 DEF Entries
  <2>. QED
    BY <1>4, <2>3, <2>4 DEF Enqueue, Goto
<1>5. ASSUME NEW r \in Requests, Receive(r) PROVE Entries'
  BY <1>5, EntriesFrame DEF Receive, Goto, Awaits
<1>6. ASSUME NEW r \in Requests, ReceiveClosed(r) PROVE Entries'
  BY <1>6, EntriesFrame DEF ReceiveClosed, Goto, Awaits
<1>7. ASSUME NEW r \in Requests, Timeout(r) PROVE Entries'
  BY <1>7, EntriesFrame DEF Timeout, Goto, Awaits, DropGuard, ReleaseSlot
<1>8. ASSUME NEW r \in Requests, RemoveQueued(r) PROVE Entries'
  <2>1. /\ pc[r] = "removing" /\ pc' = [pc EXCEPT ![r] = "timeout"]
        /\ UNCHANGED <<guard, hand>>
    BY <1>8 DEF RemoveQueued, Goto
  <2>2. Distinct(queue') /\ \A s : InQueue(s)' => InQueue(s)
    <3>1. CASE UNCHANGED queue
      BY <3>1 DEF InQueue, QueueDistinct
    <3>2. ASSUME NEW k \in 1..Len(queue), queue' = Without(k)
          PROVE  Distinct(queue') /\ \A s : InQueue(s)' => InQueue(s)
      <4>1. /\ Distinct(Splice(queue, k))
            /\ \A s : In(Splice(queue, k), s) <=> s # queue[k] /\ In(queue, s)
        BY Removal, Zenon DEF QueueDistinct
      <4>2. queue' = Splice(queue, k)
        BY <3>2 DEF Without, Splice
      <4>3. \A s : (InQueue(s) <=> In(queue, s)) /\ (InQueue(s)' <=> In(queue', s))
        BY DEF InQueue, In
      <4>. QED
        BY <4>1, <4>2, <4>3
    <3>. QED
      BY <1>8, <3>1, <3>2 DEF RemoveQueued
  <2>3. \A s \in Requests : s # r /\ InQueue(s) => InQueue(s)'
    <3>1. CASE UNCHANGED queue
      BY <3>1 DEF InQueue
    <3>2. ASSUME NEW k \in 1..Len(queue), queue' = Without(k), queue[k] = r
          PROVE  \A s : s # r /\ InQueue(s) => InQueue(s)'
      <4>1. \A s : In(Splice(queue, k), s) <=> s # queue[k] /\ In(queue, s)
        BY Removal, Zenon DEF QueueDistinct
      <4>2. queue' = Splice(queue, k)
        BY <3>2 DEF Without, Splice
      <4>3. \A s : (InQueue(s) <=> In(queue, s)) /\ (InQueue(s)' <=> In(queue', s))
        BY DEF InQueue, In
      <4>. QED
        BY <3>2, <4>1, <4>2, <4>3
    <3>. QED
      BY <1>8, <3>1, <3>2 DEF RemoveQueued
  <2>4. \A s : InHand(s)' <=> InHand(s)
    BY <2>1 DEF InHand
  <2>. QED
    BY <2>1, <2>2, <2>3, <2>4 DEF QueueDistinct
<1>9. ASSUME NEW r \in Requests, Finish(r) PROVE Entries'
  BY <1>9, EntriesFrame DEF Finish, Goto, DropGuard, ReleaseSlot
<1>10. ASSUME NEW r \in Requests, Disconnect(r) PROVE Entries'
  BY <1>10, EntriesFrame DEF Disconnect, Goto, Awaits, DropGuard, ReleaseSlot
<1>11. ASSUME NEW w \in Wakers, WakePop(w) PROVE Entries'
  <2>0. UNCHANGED <<pc, guard>> /\ hand[w] = None
    BY <1>11 DEF WakePop
  <2>1. CASE UNCHANGED queue /\ hand' = [hand EXCEPT ![w] = None]
    <3>1. hand' = hand
      BY <2>0, <2>1
    <3>2. /\ \A s : (InQueue(s)' <=> InQueue(s)) /\ (InHand(s)' <=> InHand(s))
          /\ QueueDistinct' = QueueDistinct
      BY <2>1, <3>1, EntriesFrame
    <3>3. EntryOwner' /\ GuardOwner' /\ ParkedKept' /\ QueueDistinct'
      BY <2>0, <3>2
    <3>4. HandsDistinct' /\ HandsApart'
      BY <3>1, <3>2
    <3>. QED
      BY <3>3, <3>4
  <2>2. CASE queue # <<>> /\ queue' = Tail(queue) /\ hand' = [hand EXCEPT ![w] = Head(queue)]
    <3>1. /\ Head(queue) \in Requests /\ InQueue(Head(queue)) /\ Distinct(queue')
          /\ \A s : InQueue(s)' <=> s # Head(queue) /\ InQueue(s)
      <4>1. /\ Head(queue) \in Requests /\ Distinct(Tail(queue)) /\ In(queue, Head(queue))
            /\ \A s : In(Tail(queue), s) <=> s # Head(queue) /\ In(queue, s)
        BY <2>2, PopHead, Zenon DEF QueueDistinct
      <4>. QED
        BY <2>2, <4>1 DEF InQueue, In
    <3>2. \A s \in Requests : InHand(s)' <=> s = Head(queue) \/ InHand(s)
      BY <2>0, <2>2, <3>1 DEF InHand
    <3>3. \A v \in Wakers : hand'[v] = IF v = w THEN Head(queue) ELSE hand[v]
      BY <2>2
    <3>4. EntryOwner' /\ GuardOwner' /\ ParkedKept' /\ QueueDistinct'
      BY <2>0, <3>1, <3>2 DEF QueueDistinct
    <3>5. HandsDistinct' /\ HandsApart'
      BY <3>1, <3>3
    <3>. QED
      BY <3>4, <3>5
  <2>. QED
    BY <1>11, <2>1, <2>2 DEF WakePop, WakeReturns, Popped
<1>12. ASSUME NEW w \in Wakers, WakeFind(w) PROVE Entries'
  BY <1>12, EntriesFrame DEF WakeFind, LeastLoaded
<1>13. ASSUME NEW w \in Wakers, WakeTake(w) PROVE Entries'
  BY <1>13, EntriesFrame DEF WakeTake, AcquireSlot
<1>14. ASSUME NEW w \in Wakers, WakeSend(w) PROVE Entries'
  <2>1. hand[w] \in Requests /\ InHand(hand[w]) /\ pick[w] \in Instances
    BY <1>14 DEF WakeSend, InHand
  <2>2. UNCHANGED <<queue, pc>> /\ hand' = [hand EXCEPT ![w] = None]
    BY <1>14 DEF WakeSend, WakeReturns
  <2>3. \A s : InQueue(s)' <=> InQueue(s)
    BY <2>2 DEF InQueue
  <2>4. \A s \in Requests : InHand(s)' <=> s # hand[w] /\ InHand(s)
    BY <2>2 DEF InHand
  <2>5. \A v \in Wakers : hand'[v] = IF v = w THEN None ELSE hand[v]
    BY <2>2
  <2>6. ~InQueue(None)
    BY DEF InQueue
  <2>7. QueueDistinct' /\ HandsDistinct' /\ HandsApart'
    BY <2>2, <2>3, <2>5, <2>6 DEF QueueDistinct, Distinct
  <2>8. CASE pc[hand[w]] = "parked" /\ guard' = [guard EXCEPT ![hand[w]] = pick[w]]
    <3>1. EntryOwner' /\ GuardOwner' /\ ParkedKept'
      BY <2>1, <2>2, <2>3, <2>4, <2>8
    <3>. QED
      BY <2>7, <3>1
  <2>9. CASE pc[hand[w]] # "parked" /\ UNCHANGED guard
    <3>1. EntryOwner' /\ GuardOwner' /\ ParkedKept'
      BY <2>1, <2>2, <2>3, <2>4, <2>9
    <3>. QED
      BY <2>7, <3>1
  <2>. QED
    BY <1>14, <2>8, <2>9 DEF WakeSend, ReceiverAlive
<1>15. ASSUME NEW w \in Wakers, WakeRepark(w) PROVE Entries'
  <2>1. hand[w] \in Requests /\ InHand(hand[w]) /\ ~In(queue, hand[w])
    BY <1>15 DEF WakeRepark, InHand, InQueue, In
  <2>2. /\ UNCHANGED <<pc, guard>> /\ hand' = [hand EXCEPT ![w] = None]
        /\ queue' = <<hand[w]>> \o queue
    BY <1>15 DEF WakeRepark, WakeReturns
  <2>3. queue' \in Seq(Requests) /\ Distinct(queue') /\ \A s : InQueue(s)' <=> s = hand[w] \/ InQueue(s)
    BY <2>1, <2>2, PushHead DEF InQueue, In, QueueDistinct
  <2>4. \A s \in Requests : InHand(s)' <=> s # hand[w] /\ InHand(s)
    BY <2>2 DEF InHand
  <2>5. \A v \in Wakers : hand'[v] = IF v = w THEN None ELSE hand[v]
    BY <2>2
  <2>6. ~InQueue(None)
    BY DEF InQueue
  <2>7. EntryOwner' /\ GuardOwner' /\ ParkedKept' /\ QueueDistinct'
    BY <2>1, <2>2, <2>3, <2>4 DEF QueueDistinct
  <2>8. HandsDistinct' /\ HandsApart'
    BY <2>1, <2>3, <2>5, <2>6
  <2>. QED
    BY <2>7, <2>8
<1>16. CASE ReceiveRelease
  BY <1>16, EntriesFrame DEF ReceiveRelease
<1>17. ASSUME NEW w \in Reapers, ReapDrained(w) PROVE Entries'
  BY <1>17, EntriesFrame DEF ReapDrained, Drained
<1>18. ASSUME NEW w \in Reapers, ReapNext(w) PROVE Entries'
  BY <1>18, EntriesFrame DEF ReapNext, BeginRemoval
<1>19. ASSUME NEW w \in Workers, Removed(w) PROVE Entries'
  BY <1>19, EntriesFrame DEF Removed
<1>20. CASE UnloadModel
  BY <1>20, EntriesFrame DEF UnloadModel
<1>21. CASE UnloadNext
  BY <1>21, EntriesFrame DEF UnloadNext, DrainInstance, BeginRemoval
<1>22. CASE RemoveModel
  BY <1>22, EntriesFrame DEF RemoveModel
<1>23. CASE SpawnRefused
  BY <1>23, EntriesFrame DEF SpawnRefused
<1>24. CASE SpawnReady
  BY <1>24, EntriesFrame DEF SpawnReady
<1>25. CASE SpawnFailed
  BY <1>25, EntriesFrame DEF SpawnFailed, DiscardSpawn, BeginRemoval
<1>26. CASE SpawnCheck
  BY <1>26, EntriesFrame DEF SpawnCheck, DiscardSpawn, BeginRemoval
<1>27. ASSUME NEW i \in Instances, SpawnRegister(i) PROVE Entries'
  BY <1>27, EntriesFrame DEF SpawnRegister
<1>28. ASSUME NEW i \in Instances, Unlist(i) PROVE Entries'
  BY <1>28, EntriesFrame DEF Unlist
<1>29. ASSUME NEW i \in Instances, DrainCheck(i) PROVE Entries'
  BY <1>29, EntriesFrame DEF DrainCheck
<1>30. ASSUME NEW i \in Instances, DrainQueue(i) PROVE Entries'
  <2>1. UNCHANGED <<pc, hand>> /\ queue' = <<>>
    BY <1>30 DEF DrainQueue
  <2>2. \A s \in Requests : guard'[s] = IF pc[s] = "parked" /\ InQueue(s) THEN Closed ELSE guard[s]
    BY <1>30 DEF DrainQueue, InQueue
  <2>3. QueueDistinct' /\ \A s : ~InQueue(s)' /\ (InHand(s)' <=> InHand(s))
    BY <2>1 DEF InQueue, InHand, QueueDistinct, Distinct
  <2>4. \A s \in Requests : InHand(s) => ~InQueue(s)
    BY DEF InHand
  <2>5. EntryOwner' /\ GuardOwner' /\ ParkedKept'
    BY <2>1, <2>2, <2>3, <2>4
  <2>. QED
    BY <2>1, <2>3, <2>5
<1>31. ASSUME NEW i \in Instances, RemoveInstance(i) PROVE Entries'
  BY <1>31, EntriesFrame DEF RemoveInstance, DrainInstance, BeginRemoval
<1>32. ASSUME NEW i \in Instances, RetireStale(i) PROVE Entries'
  BY <1>32, EntriesFrame DEF RetireStale
<1>33. ASSUME NEW i \in Instances, HandleCrash(i) PROVE Entries'
  BY <1>33, EntriesFrame DEF HandleCrash, BeginRemoval
<1>34. CASE UNCHANGED vars
  BY <1>34, EntriesFrame DEF vars
<1>. QED
  BY <1>1, <1>2, <1>3, <1>4, <1>5, <1>6, <1>7, <1>8, <1>9, <1>10, <1>11, <1>12, <1>13, <1>14,
     <1>15, <1>16, <1>17, <1>18, <1>19, <1>20, <1>21, <1>22, <1>23, <1>24, <1>25, <1>26, <1>27,
     <1>28, <1>29, <1>30, <1>31, <1>32, <1>33, <1>34
  DEF Next, RequestStep, WakeStep, ReleaseStep, ReapStep, Reapers, UnloadStep, SpawnStep,
      RemovalStep, AllAnswered

-----------------------------------------------------------------------------
(* Slots: every guard in existence is counted, once. *)

\* The guards in existence are finitely many.
LEMMA HoldersFinite ==
  ASSUME NEW i
  PROVE  /\ IsFiniteSet(Holders(i)) /\ Cardinality(Holders(i)) \in Nat
         /\ IsFiniteSet(Carriers(i)) /\ Cardinality(Carriers(i)) \in Nat
<1>1. IsFiniteSet(Wakers)
  <2>1. Wakers = (Requests \cup {ReleaseTask}) \cup {SpawnTask}
    BY DEF Wakers
  <2>2. IsFiniteSet(Requests \cup {ReleaseTask})
    BY RequestsAssumption, FS_AddElement
  <2>. QED
    BY <2>1, <2>2, FS_AddElement
<1>2. Holders(i) \subseteq Requests /\ Carriers(i) \subseteq Wakers
  BY DEF Holders, Carriers
<1>. QED
  BY <1>1, <1>2, RequestsAssumption, FS_Subset, FS_CardinalityType

\* A guard or a carried slot is a slot in use.
LEMMA InUse ==
  ASSUME SlotConservation, NEW i \in Instances, Holders(i) # {} \/ Carriers(i) # {}
  PROVE  inFlight[i] >= 1
<1>1. Cardinality(Holders(i)) >= 1 \/ Cardinality(Carriers(i)) >= 1
  BY HoldersFinite, FS_EmptySet
<1>. QED
  BY <1>1, HoldersFinite DEF SlotConservation

\* A step that moves no guard keeps the count.
LEMMA SlotsFrame ==
  ASSUME SlotConservation, UNCHANGED inFlight,
         \A i \in Instances : Holders(i)' = Holders(i) /\ Carriers(i)' = Carriers(i)
  PROVE  SlotConservation'
  BY DEF SlotConservation

\* Dropping what a request owns keeps the count.
LEMMA DropKeepsCount ==
  ASSUME TypeOK, SlotConservation, NEW r \in Requests, DropGuard(r), UNCHANGED <<task, pick>>
  PROVE  SlotConservation'
<1>. guard \in [Requests -> Instances \cup {None, Closed}] /\ inFlight \in [Instances -> Nat]
  BY DEF TypeOK
<1>. None \notin Instances
  BY SentinelsAssumption
<1>1. guard' = [guard EXCEPT ![r] = None]
  BY DEF DropGuard
<1>2. \A i \in Instances : Carriers(i)' = Carriers(i)
  BY DEF Carriers
<1>3. \A i \in Instances : Holders(i)' = Holders(i) \ {r}
  BY <1>1 DEF Holders
<1>4. \A i \in Instances : r \in Holders(i) <=> guard[r] = i
  BY DEF Holders
<1>5. ASSUME NEW g \in Instances, guard[r] = g, inFlight' = [inFlight EXCEPT ![g] = @ - 1]
      PROVE  SlotConservation'
  <2>1. Cardinality(Holders(g)') = Cardinality(Holders(g)) - 1
    BY <1>3, <1>4, <1>5, HoldersFinite, FS_RemoveElement
  <2>2. ASSUME NEW i \in Instances
        PROVE  inFlight'[i] = Cardinality(Holders(i)') + Cardinality(Carriers(i)')
    <3>1. CASE i = g
      BY <1>2, <1>5, <2>1, <3>1, HoldersFinite DEF SlotConservation
    <3>2. CASE i # g
      <4>1. Holders(i)' = Holders(i)
        BY <1>3, <1>4, <1>5, <3>2
      <4>. QED
        BY <1>2, <1>5, <3>2, <4>1 DEF SlotConservation
    <3>. QED
      BY <3>1, <3>2
  <2>. QED
    BY <2>2 DEF SlotConservation
<1>6. CASE guard[r] \notin Instances /\ UNCHANGED inFlight
  <2>1. \A i \in Instances : r \notin Holders(i)
    BY <1>4, <1>6
  <2>2. \A i \in Instances : Holders(i)' = Holders(i)
    BY <1>3, <2>1
  <2>. QED
    BY <1>2, <1>6, <2>2, SlotsFrame
<1>. QED
  BY <1>5, <1>6 DEF DropGuard, ReleaseSlot, slotVars

\* A guard newly owned by a request, for a newly acquired slot, keeps the count.
LEMMA GainHolder ==
  ASSUME TypeOK, SlotConservation, NEW r \in Requests, NEW p \in Instances, guard[r] \notin Instances,
         guard' = [guard EXCEPT ![r] = p], inFlight' = [inFlight EXCEPT ![p] = @ + 1],
         \A i \in Instances : Carriers(i)' = Carriers(i)
  PROVE  SlotConservation'
<1>. guard \in [Requests -> Instances \cup {None, Closed}] /\ inFlight \in [Instances -> Nat]
  BY DEF TypeOK
<1>1. \A i \in Instances : Holders(i)' = IF i = p THEN Holders(i) \cup {r} ELSE Holders(i)
  BY DEF Holders
<1>2. r \notin Holders(p)
  BY DEF Holders
<1>3. Cardinality(Holders(p)') = Cardinality(Holders(p)) + 1
  BY <1>1, <1>2, HoldersFinite, FS_AddElement
<1>4. ASSUME NEW i \in Instances
      PROVE  inFlight'[i] = Cardinality(Holders(i)') + Cardinality(Carriers(i)')
  <2>1. CASE i = p
    BY <1>3, <2>1, HoldersFinite DEF SlotConservation
  <2>2. CASE i # p
    BY <1>1, <2>2 DEF SlotConservation
  <2>. QED
    BY <2>1, <2>2
<1>. QED
  BY <1>4 DEF SlotConservation

\* A step of a task that is not sending and does not begin to keeps the count.
LEMMA QuietStep ==
  ASSUME SlotConservation, UNCHANGED <<inFlight, guard>>,
         \A w \in Wakers : task'[w] = "send" \/ task[w] = "send" =>
                             task'[w] = task[w] /\ pick'[w] = pick[w]
  PROVE  SlotConservation'
<1>1. \A i \in Instances : Holders(i)' = Holders(i) /\ Carriers(i)' = Carriers(i)
  BY DEF Holders, Carriers
<1>. QED
  BY <1>1, SlotsFrame

\* Initially no slot is in use and no guard exists.
LEMMA SlotsInit == Init => SlotConservation
<1>. SUFFICES ASSUME Init, NEW i \in Instances
              PROVE  inFlight[i] = Cardinality(Holders(i)) + Cardinality(Carriers(i))
  BY DEF SlotConservation
<1>1. Holders(i) = {} /\ Carriers(i) = {} /\ inFlight[i] = 0
  BY SentinelsAssumption DEF Init, Holders, Carriers, Wakers, Workers
<1>. QED
  BY <1>1, FS_EmptySet

\* Every step counts the guards it creates, moves and drops.
LEMMA SlotsStep == TypeOK /\ Shape /\ Entries /\ SlotConservation /\ [Next]_vars => SlotConservation'
<1>. SUFFICES ASSUME TypeOK, Shape, Entries, SlotConservation, [Next]_vars PROVE SlotConservation'
  OBVIOUS
<1>. /\ task \in [Workers -> Tasks] /\ hand \in [Workers -> Requests \cup {None}]
     /\ pick \in [Workers -> Instances \cup {None}] /\ pc \in [Requests -> PCs]
     /\ guard \in [Requests -> Instances \cup {None, Closed}]
     /\ inFlight \in [Instances -> Nat]
  BY DEF TypeOK
<1>. /\ Requests \subseteq Wakers /\ Wakers \subseteq Workers
     /\ {ReleaseTask, SpawnTask} \subseteq Wakers \ Requests
     /\ {Autoscaler, Reloader} \subseteq Workers \ Wakers /\ Reapers = {ReleaseTask, Autoscaler}
     /\ None \notin Instances /\ Closed \notin Instances
  BY SentinelsAssumption, TasksAssumption DEF Wakers, Workers, Reapers
<1>. TaskShape /\ WakeShape /\ HandShape /\ PickShape /\ TakeShape /\ SpawnShape /\ EntryOwner /\ GuardOwner
  BY DEF Shape, Entries
<1>. USE DEF Hands, TaskShape, WakeShape, HandShape, PickShape, TakeShape, SpawnShape, instVars,
             slotVars, wakeVars, planVars
<1>1. ASSUME NEW r \in Requests, GetOrSpawn(r) PROVE SlotConservation'
  BY <1>1, QuietStep DEF GetOrSpawn, Goto, SpawnOrQueue, EnsureSpawn, LeastLoaded
<1>2. ASSUME NEW r \in Requests, SpawnWaited(r) PROVE SlotConservation'
  BY <1>2, QuietStep DEF SpawnWaited, Goto, LeastLoaded
<1>3. ASSUME NEW r \in Requests, TakeSlot(r) PROVE SlotConservation'
  <2>1. pick[r] \in Instances /\ guard[r] \notin Instances /\ task[r] # "send"
    BY <1>3 DEF TakeSlot, GuardOwner
  <2>2. \A i \in Instances : Carriers(i)' = Carriers(i)
    <3>1. pick' = [pick EXCEPT ![r] = None]
      BY <1>3 DEF TakeSlot
    <3>2. \A v \in Wakers : task'[v] = "send" <=> task[v] = "send"
      BY <1>3 DEF TakeSlot, SpawnOrQueue, EnsureSpawn
    <3>. QED
      BY <2>1, <3>1, <3>2 DEF Carriers
  <2>3. CASE UNCHANGED <<inFlight, guard>>
    <3>1. \A i \in Instances : Holders(i)' = Holders(i)
      BY <2>3 DEF Holders
    <3>. QED
      BY <2>2, <2>3, <3>1, SlotsFrame
  <2>4. ASSUME NEW p \in Instances, guard' = [guard EXCEPT ![r] = p],
               inFlight' = [inFlight EXCEPT ![p] = @ + 1]
        PROVE  SlotConservation'
    BY <2>1, <2>2, <2>4, GainHolder
  <2>. QED
    BY <1>3, <2>1, <2>3, <2>4 DEF TakeSlot, AcquireSlot
<1>4. ASSUME NEW r \in Requests, Enqueue(r) PROVE SlotConservation'
  BY <1>4, QuietStep DEF Enqueue, Goto
<1>5. ASSUME NEW r \in Requests, Receive(r) PROVE SlotConservation'
  BY <1>5, QuietStep DEF Receive, Goto, Awaits
<1>6. ASSUME NEW r \in Requests, ReceiveClosed(r) PROVE SlotConservation'
  <2>1. UNCHANGED inFlight /\ \A j \in Instances : Holders(j)' = Holders(j) /\ Carriers(j)' = Carriers(j)
    BY <1>6 DEF ReceiveClosed, Holders, Carriers
  <2>. QED
    BY <2>1, SlotsFrame
<1>7. ASSUME NEW r \in Requests, Timeout(r) PROVE SlotConservation'
  BY <1>7, DropKeepsCount DEF Timeout
<1>8. ASSUME NEW r \in Requests, RemoveQueued(r) PROVE SlotConservation'
  BY <1>8, QuietStep DEF RemoveQueued, Goto
<1>9. ASSUME NEW r \in Requests, Finish(r) PROVE SlotConservation'
  BY <1>9, DropKeepsCount DEF Finish
<1>10. ASSUME NEW r \in Requests, Disconnect(r) PROVE SlotConservation'
  BY <1>10, DropKeepsCount DEF Disconnect
<1>11. ASSUME NEW w \in Wakers, WakePop(w) PROVE SlotConservation'
  BY <1>11, QuietStep DEF WakePop, WakeReturns
<1>12. ASSUME NEW w \in Wakers, WakeFind(w) PROVE SlotConservation'
  BY <1>12, QuietStep DEF WakeFind, LeastLoaded
<1>13. ASSUME NEW w \in Wakers, WakeTake(w) PROVE SlotConservation'
  <2>1. pick[w] \in Instances /\ task[w] = "take" /\ UNCHANGED <<pick, guard>>
    BY <1>13 DEF WakeTake
  <2>2. \A i \in Instances : Holders(i)' = Holders(i)
    BY <2>1 DEF Holders
  <2>3. CASE UNCHANGED inFlight /\ task' = [task EXCEPT ![w] = "repark"]
    <3>1. \A i \in Instances : Carriers(i)' = Carriers(i)
      BY <2>1, <2>3 DEF Carriers
    <3>. QED
      BY <2>2, <2>3, <3>1, SlotsFrame
  <2>4. ASSUME NEW p \in Instances, p = pick[w],
               inFlight' = [inFlight EXCEPT ![p] = @ + 1], task' = [task EXCEPT ![w] = "send"]
        PROVE  SlotConservation'
    <3>1. \A i \in Instances : Carriers(i)' = IF i = p THEN Carriers(i) \cup {w} ELSE Carriers(i)
      BY <2>1, <2>4 DEF Carriers
    <3>2. w \notin Carriers(p)
      BY <2>1 DEF Carriers
    <3>3. Cardinality(Carriers(p)') = Cardinality(Carriers(p)) + 1
      <4>1. Carriers(p)' = Carriers(p) \cup {w}
        BY <3>1
      <4>. QED
        BY ONLY <4>1, <3>2, HoldersFinite, FS_AddElement
    <3>4. ASSUME NEW i \in Instances
          PROVE  inFlight'[i] = Cardinality(Holders(i)') + Cardinality(Carriers(i)')
      <4>1. CASE i = p
        BY <2>2, <2>4, <3>3, <4>1, HoldersFinite DEF SlotConservation
      <4>2. CASE i # p
        BY <2>2, <2>4, <3>1, <4>2 DEF SlotConservation
      <4>. QED
        BY <4>1, <4>2
    <3>. QED
      BY <3>4 DEF SlotConservation
  <2>. QED
    BY <1>13, <2>1, <2>3, <2>4 DEF WakeTake, AcquireSlot
<1>14. ASSUME NEW w \in Wakers, WakeSend(w) PROVE SlotConservation'
  <2>1. pick[w] \in Instances /\ task[w] = "send" /\ hand[w] \in Requests
    BY <1>14 DEF WakeSend
  <2>2. guard[hand[w]] = None
    BY <2>1 DEF EntryOwner, Entered, InHand
  <2>3. ASSUME NEW p \in Instances, p = pick[w], NEW s \in Requests, s = hand[w]
        PROVE  SlotConservation'
    <3>1. \A i \in Instances : Carriers(i)' = IF i = p THEN Carriers(i) \ {w} ELSE Carriers(i)
      <4>1. task'[w] # "send" /\ \A v \in Wakers : v # w => task'[v] = task[v]
        BY <1>14 DEF WakeSend, WakeReturns
      <4>2. \A v \in Wakers : v # w => pick'[v] = pick[v]
        BY <1>14 DEF WakeSend, WakeReturns
      <4>. QED
        BY <2>3, <4>1, <4>2 DEF Carriers
    <3>2. w \in Carriers(p)
      BY <2>1, <2>3 DEF Carriers
    <3>3. Cardinality(Carriers(p)') = Cardinality(Carriers(p)) - 1
      BY <3>1, <3>2, HoldersFinite, FS_RemoveElement
    <3>4. CASE UNCHANGED inFlight /\ guard' = [guard EXCEPT ![s] = p]
      <4>1. \A i \in Instances : Holders(i)' = IF i = p THEN Holders(i) \cup {s} ELSE Holders(i)
        BY <2>2, <2>3, <3>4 DEF Holders
      <4>2. s \notin Holders(p)
        BY <2>2, <2>3 DEF Holders
      <4>3. Cardinality(Holders(p)') = Cardinality(Holders(p)) + 1
        BY <4>1, <4>2, HoldersFinite, FS_AddElement
      <4>4. ASSUME NEW i \in Instances
            PROVE  inFlight'[i] = Cardinality(Holders(i)') + Cardinality(Carriers(i)')
        <5>1. CASE i = p
          BY <3>3, <3>4, <4>3, <5>1, HoldersFinite DEF SlotConservation
        <5>2. CASE i # p
          BY <3>1, <3>4, <4>1, <5>2 DEF SlotConservation
        <5>. QED
          BY <5>1, <5>2
      <4>. QED
        BY <4>4 DEF SlotConservation
    <3>5. CASE UNCHANGED guard /\ inFlight' = [inFlight EXCEPT ![p] = @ - 1]
      <4>1. \A i \in Instances : Holders(i)' = Holders(i)
        BY <3>5 DEF Holders
      <4>2. ASSUME NEW i \in Instances
            PROVE  inFlight'[i] = Cardinality(Holders(i)') + Cardinality(Carriers(i)')
        <5>1. CASE i = p
          BY <3>3, <3>5, <4>1, <5>1, HoldersFinite DEF SlotConservation
        <5>2. CASE i # p
          BY <3>1, <3>5, <4>1, <5>2 DEF SlotConservation
        <5>. QED
          BY <5>1, <5>2
      <4>. QED
        BY <4>2 DEF SlotConservation
    <3>. QED
      BY <1>14, <2>3, <3>4, <3>5 DEF WakeSend, ReleaseSlot
  <2>. QED
    BY <2>1, <2>3
<1>15. ASSUME NEW w \in Wakers, WakeRepark(w) PROVE SlotConservation'
  BY <1>15, QuietStep DEF WakeRepark, WakeReturns
<1>16. CASE ReceiveRelease
  BY <1>16, QuietStep DEF ReceiveRelease
<1>17. ASSUME NEW w \in Reapers, ReapDrained(w) PROVE SlotConservation'
  BY <1>17, QuietStep DEF ReapDrained, Drained
<1>18. ASSUME NEW w \in Reapers, ReapNext(w) PROVE SlotConservation'
  BY <1>18, QuietStep DEF ReapNext, BeginRemoval
<1>19. ASSUME NEW w \in Workers, Removed(w) PROVE SlotConservation'
  BY <1>19, QuietStep DEF Removed
<1>20. CASE UnloadModel
  BY <1>20, QuietStep DEF UnloadModel
<1>21. CASE UnloadNext
  BY <1>21, QuietStep DEF UnloadNext, DrainInstance, BeginRemoval
<1>22. CASE RemoveModel
  BY <1>22, QuietStep DEF RemoveModel
<1>23. CASE SpawnRefused
  BY <1>23, QuietStep DEF SpawnRefused
<1>24. CASE SpawnReady
  BY <1>24, QuietStep DEF SpawnReady
<1>25. CASE SpawnFailed
  BY <1>25, QuietStep DEF SpawnFailed, DiscardSpawn, BeginRemoval
<1>26. CASE SpawnCheck
  BY <1>26, QuietStep DEF SpawnCheck, DiscardSpawn, BeginRemoval
<1>27. ASSUME NEW i \in Instances, SpawnRegister(i) PROVE SlotConservation'
  BY <1>27, QuietStep DEF SpawnRegister
<1>28. ASSUME NEW i \in Instances, Unlist(i) PROVE SlotConservation'
  BY <1>28, QuietStep DEF Unlist
<1>29. ASSUME NEW i \in Instances, DrainCheck(i) PROVE SlotConservation'
  BY <1>29, QuietStep DEF DrainCheck
<1>30. ASSUME NEW i \in Instances, DrainQueue(i) PROVE SlotConservation'
  <2>1. \A r \in Requests : guard'[r] # guard[r] => guard[r] = None /\ guard'[r] = Closed
    BY <1>30 DEF DrainQueue, EntryOwner, Entered, InQueue
  <2>2. \A j \in Instances : Holders(j)' = Holders(j)
    BY <2>1 DEF Holders
  <2>3. \A j \in Instances : Carriers(j)' = Carriers(j)
    BY <1>30 DEF DrainQueue, Carriers
  <2>. QED
    BY <1>30, <2>2, <2>3, SlotsFrame DEF DrainQueue
<1>31. ASSUME NEW i \in Instances, RemoveInstance(i) PROVE SlotConservation'
  BY <1>31, QuietStep DEF RemoveInstance, DrainInstance, BeginRemoval
<1>32. ASSUME NEW i \in Instances, RetireStale(i) PROVE SlotConservation'
  BY <1>32, QuietStep DEF RetireStale
<1>33. ASSUME NEW i \in Instances, HandleCrash(i) PROVE SlotConservation'
  BY <1>33, QuietStep DEF HandleCrash, BeginRemoval
<1>34. CASE UNCHANGED vars
  BY <1>34, QuietStep DEF vars
<1>. QED
  BY <1>1, <1>2, <1>3, <1>4, <1>5, <1>6, <1>7, <1>8, <1>9, <1>10, <1>11, <1>12, <1>13, <1>14,
     <1>15, <1>16, <1>17, <1>18, <1>19, <1>20, <1>21, <1>22, <1>23, <1>24, <1>25, <1>26, <1>27,
     <1>28, <1>29, <1>30, <1>31, <1>32, <1>33, <1>34
  DEF Next, RequestStep, WakeStep, ReleaseStep, ReapStep, Reapers, UnloadStep, SpawnStep,
      RemovalStep, AllAnswered

-----------------------------------------------------------------------------
(* Types, capacity, and the invariant. *)

TypeInstances ==
  /\ configured \in BOOLEAN /\ registry \in SUBSET Instances
  /\ istate \in [Instances -> {"absent", "loading", "ready", "failed"}]
  /\ removal \in [Instances -> Removals]
TypeQueue ==
  /\ inFlight \in [Instances -> Nat] /\ releases \in Nat /\ queue \in Seq(Requests)
  /\ guard \in [Requests -> Instances \cup {None, Closed}]
TypeTasks ==
  /\ pc \in [Requests -> PCs] /\ task \in [Workers -> Tasks]
  /\ hand \in [Workers -> Requests \cup {None}] /\ pick \in [Workers -> Instances \cup {None}]
  /\ doomed \in [Workers -> SUBSET Instances]

\* The type invariant, by groups of variables that change together.
LEMMA TypeGroups == TypeOK <=> TypeInstances /\ TypeQueue /\ TypeTasks
  BY DEF TypeOK, TypeInstances, TypeQueue, TypeTasks

\* Dropping a guard counts down from at least one.
LEMMA DropTyped ==
  ASSUME TypeOK, SlotConservation, NEW r \in Requests, DropGuard(r)
  PROVE  /\ inFlight' \in [Instances -> Nat] /\ releases' \in Nat
         /\ guard' \in [Requests -> Instances \cup {None, Closed}]
<1>. /\ inFlight \in [Instances -> Nat] /\ releases \in Nat
     /\ guard \in [Requests -> Instances \cup {None, Closed}]
  BY DEF TypeOK
<1>1. ASSUME NEW g \in Instances, g = guard[r] PROVE inFlight[g] >= 1
  BY <1>1, InUse DEF Holders
<1>2. ASSUME NEW g \in Instances, g = guard[r], ReleaseSlot(g)
      PROVE  inFlight' \in [Instances -> Nat] /\ releases' \in Nat
  BY <1>1, <1>2 DEF ReleaseSlot
<1>. QED
  BY <1>2 DEF DropGuard, slotVars

\* Every step keeps the types; counters do not go below zero.
LEMMA TypeStep == TypeOK /\ Shape /\ Entries /\ SlotConservation /\ [Next]_vars => TypeOK'
<1>. SUFFICES ASSUME TypeOK, Shape, Entries, SlotConservation, [Next]_vars
              PROVE  TypeInstances' /\ TypeQueue' /\ TypeTasks'
  BY DEF TypeOK, TypeInstances, TypeQueue, TypeTasks
<1>. /\ Requests \subseteq Wakers /\ Wakers \subseteq Workers /\ Reapers \subseteq Workers
     /\ {ReleaseTask, SpawnTask, Autoscaler, Reloader} \subseteq Workers
     /\ None \notin Instances /\ Closed \notin Instances
  BY SentinelsAssumption DEF Wakers, Workers, Reapers
<1>. PickShape /\ HandShape /\ QueueDistinct
  BY DEF Shape, Entries
<1>b. \A w \in Wakers : task[w] = "send" => pick[w] \in Instances /\ inFlight[pick[w]] >= 1
  <2>1. ASSUME NEW w \in Wakers, task[w] = "send" PROVE pick[w] \in Instances /\ w \in Carriers(pick[w])
    BY <2>1 DEF PickShape, Carriers
  <2>. QED
    BY <2>1, InUse
<1>c. /\ \A r \in Requests : pc[r] \in {"take", "retry"} => pick[r] \in Instances
      /\ \A w \in Wakers : task[w] = "repark" => hand[w] # None
  BY DEF Shape, TakeShape, HandShape, Hands
<1>. TypeInstances /\ TypeQueue /\ TypeTasks
  BY TypeGroups
<1>. USE DEF TypeInstances, TypeQueue, TypeTasks, instVars, slotVars, wakeVars, planVars
<1>1. ASSUME NEW r \in Requests, GetOrSpawn(r) PROVE TypeInstances' /\ TypeQueue' /\ TypeTasks'
  <2>1. pc' \in [Requests -> PCs]
    BY <1>1 DEF GetOrSpawn, Goto, SpawnOrQueue, EnsureSpawn, LeastLoaded, PCs, Waiting, Answered
  <2>2. task' \in [Workers -> Tasks]
    BY <1>1 DEF GetOrSpawn, Goto, SpawnOrQueue, EnsureSpawn, LeastLoaded, Tasks
  <2>3. pick' \in [Workers -> Instances \cup {None}]
    BY <1>1 DEF GetOrSpawn, Goto, SpawnOrQueue, EnsureSpawn, LeastLoaded
  <2>. QED
    BY <1>1, <2>1, <2>2, <2>3 DEF GetOrSpawn
<1>2. ASSUME NEW r \in Requests, SpawnWaited(r) PROVE TypeInstances' /\ TypeQueue' /\ TypeTasks'
  <2>1. pc' \in [Requests -> PCs]
    BY <1>2 DEF SpawnWaited, Goto, LeastLoaded, PCs, Waiting, Answered
  <2>2. pick' \in [Workers -> Instances \cup {None}]
    BY <1>2 DEF SpawnWaited, Goto, LeastLoaded
  <2>. QED
    BY <1>2, <2>1, <2>2 DEF SpawnWaited
<1>3. ASSUME NEW r \in Requests, TakeSlot(r) PROVE TypeInstances' /\ TypeQueue' /\ TypeTasks'
  <2>1. inFlight' \in [Instances -> Nat] /\ releases' \in Nat
    <3>1. ASSUME NEW p \in Instances, inFlight' = [inFlight EXCEPT ![p] = @ + 1], UNCHANGED releases
          PROVE  inFlight' \in [Instances -> Nat] /\ releases' \in Nat
      BY <3>1
    <3>. QED
      BY <1>3, <1>c, <3>1 DEF TakeSlot, AcquireSlot
  <2>2. guard' \in [Requests -> Instances \cup {None, Closed}]
    BY <1>3, <1>c DEF TakeSlot, Goto, AcquireSlot, SpawnOrQueue, EnsureSpawn
  <2>3. pc' \in [Requests -> PCs]
    BY <1>3 DEF TakeSlot, Goto, AcquireSlot, SpawnOrQueue, EnsureSpawn, PCs, Waiting, Answered
  <2>4. task' \in [Workers -> Tasks]
    BY <1>3 DEF TakeSlot, Goto, AcquireSlot, SpawnOrQueue, EnsureSpawn, Tasks
  <2>5. pick' \in [Workers -> Instances \cup {None}]
    BY <1>3 DEF TakeSlot, Goto, AcquireSlot, SpawnOrQueue, EnsureSpawn
  <2>. QED
    BY <1>3, <2>1, <2>2, <2>3, <2>4, <2>5 DEF TakeSlot
<1>4. ASSUME NEW r \in Requests, Enqueue(r) PROVE TypeInstances' /\ TypeQueue' /\ TypeTasks'
  <2>1. queue' \in Seq(Requests)
    <3>1. UNCHANGED queue \/ queue' = Append(queue, r)
      BY <1>4 DEF Enqueue
    <3>2. queue \in Seq(Requests) /\ Append(queue, r) \in Seq(Requests)
      BY AppendProperties
    <3>. QED
      BY <3>1, <3>2, Zenon
  <2>2. pc' \in [Requests -> PCs]
    <3>1. \E l \in {"noinst", "full", "parked"} : pc' = [pc EXCEPT ![r] = l]
      BY <1>4 DEF Enqueue, Goto
    <3>. QED
      BY <3>1 DEF PCs, Waiting, Answered
  <2>3. task' \in [Workers -> Tasks]
    BY <1>4 DEF Enqueue, Goto, Tasks
  <2>. QED
    BY <1>4, <2>1, <2>2, <2>3 DEF Enqueue
<1>5. ASSUME NEW r \in Requests, Receive(r) PROVE TypeInstances' /\ TypeQueue' /\ TypeTasks'
  BY <1>5 DEF Receive, Goto, Awaits, PCs, Waiting, Answered, Tasks, Removals
<1>6. ASSUME NEW r \in Requests, ReceiveClosed(r) PROVE TypeInstances' /\ TypeQueue' /\ TypeTasks'
  BY <1>6 DEF ReceiveClosed, Goto, Awaits, PCs, Waiting, Answered, Tasks, Removals
<1>7. ASSUME NEW r \in Requests, Timeout(r) PROVE TypeInstances' /\ TypeQueue' /\ TypeTasks'
  <2>1. pc' \in [Requests -> PCs]
    BY <1>7 DEF Timeout, Goto, PCs, Waiting, Answered
  <2>2. /\ inFlight' \in [Instances -> Nat] /\ releases' \in Nat
        /\ guard' \in [Requests -> Instances \cup {None, Closed}]
    BY <1>7, DropTyped DEF Timeout
  <2>. QED
    BY <1>7, <2>1, <2>2 DEF Timeout
<1>8. ASSUME NEW r \in Requests, RemoveQueued(r) PROVE TypeInstances' /\ TypeQueue' /\ TypeTasks'
  <2>1. queue' \in Seq(Requests)
    <3>1. ASSUME NEW k \in 1..Len(queue), queue' = Without(k) PROVE queue' \in Seq(Requests)
      <4>1. queue' = Splice(queue, k)
        BY <3>1 DEF Without, Splice
      <4>2. Splice(queue, k) \in Seq(Requests)
        BY Removal, Zenon DEF QueueDistinct
      <4>. QED
        BY <4>1, <4>2
    <3>. QED
      BY <1>8, <3>1 DEF RemoveQueued
  <2>. QED
    BY <1>8, <2>1 DEF RemoveQueued, Goto, PCs, Answered
<1>9. ASSUME NEW r \in Requests, Finish(r) PROVE TypeInstances' /\ TypeQueue' /\ TypeTasks'
  <2>1. pc' \in [Requests -> PCs]
    BY <1>9 DEF Finish, Goto, PCs, Waiting, Answered
  <2>2. /\ inFlight' \in [Instances -> Nat] /\ releases' \in Nat
        /\ guard' \in [Requests -> Instances \cup {None, Closed}]
    BY <1>9, DropTyped DEF Finish
  <2>. QED
    BY <1>9, <2>1, <2>2 DEF Finish
<1>10. ASSUME NEW r \in Requests, Disconnect(r) PROVE TypeInstances' /\ TypeQueue' /\ TypeTasks'
  <2>1. pc' \in [Requests -> PCs]
    BY <1>10 DEF Disconnect, Goto, PCs, Waiting, Answered
  <2>2. /\ inFlight' \in [Instances -> Nat] /\ releases' \in Nat
        /\ guard' \in [Requests -> Instances \cup {None, Closed}]
    BY <1>10, DropTyped DEF Disconnect
  <2>. QED
    BY <1>10, <2>1, <2>2 DEF Disconnect
<1>11. ASSUME NEW w \in Wakers, WakePop(w) PROVE TypeInstances' /\ TypeQueue' /\ TypeTasks'
  <2>1. queue' \in Seq(Requests)
    <3>1. queue \in Seq(Requests) /\ (queue # <<>> => Tail(queue) \in Seq(Requests))
      BY HeadTailProperties
    <3>2. CASE UNCHANGED queue
      BY <3>1, <3>2
    <3>3. CASE queue # <<>> /\ queue' = Tail(queue)
      BY ONLY <3>1, <3>3, Zenon
    <3>. QED
      BY <1>11, <3>2, <3>3, Zenon DEF WakePop, Popped
  <2>2. task' \in [Workers -> Tasks]
    BY <1>11, ZenonT(40) DEF WakePop, WakeReturns, Tasks
  <2>3. hand' \in [Workers -> Requests \cup {None}]
    <3>1. \/ hand' = [hand EXCEPT ![w] = None]
          \/ queue # <<>> /\ hand' = [hand EXCEPT ![w] = Head(queue)]
      BY <1>11 DEF WakePop, WakeReturns
    <3>2. queue # <<>> => Head(queue) \in Requests
      OBVIOUS
    <3>. QED
      BY <3>1, <3>2
  <2>4. pick' \in [Workers -> Instances \cup {None}]
    BY <1>11 DEF WakePop, WakeReturns
  <2>. QED
    BY <1>11, <2>1, <2>2, <2>3, <2>4 DEF WakePop
<1>12. ASSUME NEW w \in Wakers, WakeFind(w) PROVE TypeInstances' /\ TypeQueue' /\ TypeTasks'
  <2>1. task' \in [Workers -> Tasks]
    BY <1>12 DEF WakeFind, LeastLoaded, Tasks
  <2>2. pick' \in [Workers -> Instances \cup {None}]
    BY <1>12 DEF WakeFind, LeastLoaded
  <2>. QED
    BY <1>12, <2>1, <2>2 DEF WakeFind
<1>13. ASSUME NEW w \in Wakers, WakeTake(w) PROVE TypeInstances' /\ TypeQueue' /\ TypeTasks'
  <2>1. inFlight' \in [Instances -> Nat] /\ releases' \in Nat
    BY <1>13, <1>b DEF WakeTake, AcquireSlot
  <2>2. task' \in [Workers -> Tasks]
    BY <1>13 DEF WakeTake, AcquireSlot, Tasks
  <2>. QED
    BY <1>13, <2>1, <2>2 DEF WakeTake
<1>14. ASSUME NEW w \in Wakers, WakeSend(w) PROVE TypeInstances' /\ TypeQueue' /\ TypeTasks'
  <2>1. inFlight' \in [Instances -> Nat] /\ releases' \in Nat
    <3>1. ASSUME NEW p \in Instances, p = pick[w], ReleaseSlot(p)
          PROVE  inFlight' \in [Instances -> Nat] /\ releases' \in Nat
      <4>1. inFlight[p] >= 1
        BY <1>14, <1>b, <3>1 DEF WakeSend
      <4>. QED
        BY <3>1, <4>1 DEF ReleaseSlot
    <3>. QED
      BY <1>14, <1>b, <3>1 DEF WakeSend
  <2>2. guard' \in [Requests -> Instances \cup {None, Closed}]
    BY <1>14, <1>b DEF WakeSend, WakeReturns, ReleaseSlot, ReceiverAlive
  <2>3. task' \in [Workers -> Tasks]
    BY <1>14, ZenonT(40) DEF WakeSend, WakeReturns, ReleaseSlot, ReceiverAlive, Tasks
  <2>4. hand' \in [Workers -> Requests \cup {None}]
    BY <1>14 DEF WakeSend, WakeReturns, ReleaseSlot, ReceiverAlive
  <2>5. pick' \in [Workers -> Instances \cup {None}]
    BY <1>14 DEF WakeSend, WakeReturns, ReleaseSlot, ReceiverAlive
  <2>. QED
    BY <1>14, <2>1, <2>2, <2>3, <2>4, <2>5 DEF WakeSend
<1>15. ASSUME NEW w \in Wakers, WakeRepark(w) PROVE TypeInstances' /\ TypeQueue' /\ TypeTasks'
  <2>1. queue' \in Seq(Requests)
    BY <1>15, <1>c DEF WakeRepark, WakeReturns
  <2>2. task' \in [Workers -> Tasks]
    BY <1>15 DEF WakeRepark, WakeReturns, Tasks
  <2>3. hand' \in [Workers -> Requests \cup {None}]
    BY <1>15 DEF WakeRepark, WakeReturns
  <2>4. pick' \in [Workers -> Instances \cup {None}]
    BY <1>15 DEF WakeRepark, WakeReturns
  <2>. QED
    BY <1>15, <2>1, <2>2, <2>3, <2>4 DEF WakeRepark
<1>16. CASE ReceiveRelease
  <2>1. inFlight' \in [Instances -> Nat] /\ releases' \in Nat
    BY <1>16, <1>b DEF ReceiveRelease
  <2>2. task' \in [Workers -> Tasks]
    BY <1>16 DEF ReceiveRelease, Tasks
  <2>. QED
    BY <1>16, <2>1, <2>2 DEF ReceiveRelease
<1>17. ASSUME NEW w \in Reapers, ReapDrained(w) PROVE TypeInstances' /\ TypeQueue' /\ TypeTasks'
  <2>1. task' \in [Workers -> Tasks]
    BY <1>17 DEF ReapDrained, Drained, Tasks
  <2>2. doomed' \in [Workers -> SUBSET Instances]
    BY <1>17 DEF ReapDrained, Drained
  <2>. QED
    BY <1>17, <2>1, <2>2 DEF ReapDrained
<1>18. ASSUME NEW w \in Reapers, ReapNext(w) PROVE TypeInstances' /\ TypeQueue' /\ TypeTasks'
  <2>1. istate' \in [Instances -> {"absent", "loading", "ready", "failed"}]
    BY <1>18 DEF ReapNext, BeginRemoval
  <2>2. removal' \in [Instances -> Removals]
    BY <1>18 DEF ReapNext, BeginRemoval, Removals
  <2>3. pick' \in [Workers -> Instances \cup {None}]
    BY <1>18 DEF ReapNext, BeginRemoval
  <2>4. doomed' \in [Workers -> SUBSET Instances]
    BY <1>18 DEF ReapNext, BeginRemoval
  <2>. QED
    BY <1>18, <2>1, <2>2, <2>3, <2>4 DEF ReapNext
<1>19. ASSUME NEW w \in Workers, Removed(w) PROVE TypeInstances' /\ TypeQueue' /\ TypeTasks'
  <2>1. task' \in [Workers -> Tasks]
    BY <1>19 DEF Removed, Tasks
  <2>2. pick' \in [Workers -> Instances \cup {None}]
    BY <1>19 DEF Removed
  <2>. QED
    BY <1>19, <2>1, <2>2 DEF Removed
<1>20. CASE UnloadModel
  <2>1. task' \in [Workers -> Tasks]
    BY <1>20 DEF UnloadModel, Tasks
  <2>2. doomed' \in [Workers -> SUBSET Instances]
    BY <1>20 DEF UnloadModel
  <2>. QED
    BY <1>20, <2>1, <2>2 DEF UnloadModel
<1>21. CASE UnloadNext
  <2>1. istate' \in [Instances -> {"absent", "loading", "ready", "failed"}]
    BY <1>21 DEF UnloadNext, DrainInstance, BeginRemoval
  <2>2. removal' \in [Instances -> Removals]
    <3>1. ASSUME NEW i \in Instances, DrainInstance(i) PROVE removal' \in [Instances -> Removals]
      BY <3>1 DEF DrainInstance, BeginRemoval, Removals
    <3>. QED
      BY <1>21, <3>1 DEF UnloadNext
  <2>3. pick' \in [Workers -> Instances \cup {None}]
    BY <1>21 DEF UnloadNext, DrainInstance, BeginRemoval
  <2>4. doomed' \in [Workers -> SUBSET Instances]
    BY <1>21 DEF UnloadNext, DrainInstance, BeginRemoval
  <2>. QED
    BY <1>21, <2>1, <2>2, <2>3, <2>4 DEF UnloadNext
<1>22. CASE RemoveModel
  BY <1>22 DEF RemoveModel, PCs, Waiting, Answered, Tasks, Removals
<1>23. CASE SpawnRefused
  BY <1>23 DEF SpawnRefused, PCs, Waiting, Answered, Tasks, Removals
<1>24. CASE SpawnReady
  BY <1>24 DEF SpawnReady, PCs, Waiting, Answered, Tasks, Removals
<1>25. CASE SpawnFailed
  <2>1. istate' \in [Instances -> {"absent", "loading", "ready", "failed"}]
    BY <1>25 DEF SpawnFailed, DiscardSpawn, BeginRemoval
  <2>2. removal' \in [Instances -> Removals]
    BY <1>25 DEF SpawnFailed, DiscardSpawn, BeginRemoval, Removals
  <2>3. task' \in [Workers -> Tasks]
    BY <1>25 DEF SpawnFailed, DiscardSpawn, BeginRemoval, Tasks
  <2>. QED
    BY <1>25, <2>1, <2>2, <2>3 DEF SpawnFailed, DiscardSpawn
<1>26. CASE SpawnCheck
  <2>1. istate' \in [Instances -> {"absent", "loading", "ready", "failed"}]
    BY <1>26 DEF SpawnCheck, DiscardSpawn, BeginRemoval
  <2>2. removal' \in [Instances -> Removals]
    BY <1>26 DEF SpawnCheck, DiscardSpawn, BeginRemoval, Removals
  <2>3. task' \in [Workers -> Tasks]
    BY <1>26 DEF SpawnCheck, DiscardSpawn, BeginRemoval, Tasks
  <2>4. pick' \in [Workers -> Instances \cup {None}]
    BY <1>26 DEF SpawnCheck, DiscardSpawn, BeginRemoval
  <2>. QED
    BY <1>26, <2>1, <2>2, <2>3, <2>4 DEF SpawnCheck
<1>27. ASSUME NEW i \in Instances, SpawnRegister(i) PROVE TypeInstances' /\ TypeQueue' /\ TypeTasks'
  BY <1>27 DEF SpawnRegister, PCs, Waiting, Answered, Tasks, Removals
<1>28. ASSUME NEW i \in Instances, Unlist(i) PROVE TypeInstances' /\ TypeQueue' /\ TypeTasks'
  BY <1>28 DEF Unlist, PCs, Waiting, Answered, Tasks, Removals
<1>29. ASSUME NEW i \in Instances, DrainCheck(i) PROVE TypeInstances' /\ TypeQueue' /\ TypeTasks'
  BY <1>29 DEF DrainCheck, PCs, Waiting, Answered, Tasks, Removals
<1>30. ASSUME NEW i \in Instances, DrainQueue(i) PROVE TypeInstances' /\ TypeQueue' /\ TypeTasks'
  BY <1>30 DEF DrainQueue, PCs, Waiting, Answered, Tasks, Removals
<1>31. ASSUME NEW i \in Instances, RemoveInstance(i) PROVE TypeInstances' /\ TypeQueue' /\ TypeTasks'
  BY <1>31, ZenonT(40) DEF RemoveInstance, DrainInstance, BeginRemoval, PCs, Waiting, Answered, Tasks, Removals
<1>32. ASSUME NEW i \in Instances, RetireStale(i) PROVE TypeInstances' /\ TypeQueue' /\ TypeTasks'
  BY <1>32 DEF RetireStale, PCs, Waiting, Answered, Tasks, Removals
<1>33. ASSUME NEW i \in Instances, HandleCrash(i) PROVE TypeInstances' /\ TypeQueue' /\ TypeTasks'
  BY <1>33 DEF HandleCrash, BeginRemoval, PCs, Waiting, Answered, Tasks, Removals
<1>34. CASE UNCHANGED vars
  BY <1>34 DEF vars
<1>. QED
  BY <1>1, <1>2, <1>3, <1>4, <1>5, <1>6, <1>7, <1>8, <1>9, <1>10, <1>11, <1>12, <1>13, <1>14,
     <1>15, <1>16, <1>17, <1>18, <1>19, <1>20, <1>21, <1>22, <1>23, <1>24, <1>25, <1>26, <1>27,
     <1>28, <1>29, <1>30, <1>31, <1>32, <1>33, <1>34
  DEF Next, RequestStep, WakeStep, ReleaseStep, ReapStep, Reapers, UnloadStep, SpawnStep,
      RemovalStep, AllAnswered

\* A slot is taken under the instance lock, where the limit is checked.
LEMMA CapacityStep == TypeOK /\ CapacityRespected /\ [Next]_vars => CapacityRespected'
<1>. SUFFICES ASSUME TypeOK, CapacityRespected, [Next]_vars PROVE CapacityRespected'
  OBVIOUS
<1>. inFlight \in [Instances -> Nat] /\ MaxConcurrent \in Nat
  BY LimitsAssumption DEF TypeOK
<1>. USE DEF CapacityRespected, instVars, slotVars, wakeVars, planVars, HasCapacity
<1>1. ASSUME NEW r \in Requests, GetOrSpawn(r) PROVE CapacityRespected'
  BY <1>1 DEF GetOrSpawn, Goto, SpawnOrQueue, EnsureSpawn, LeastLoaded
<1>2. ASSUME NEW r \in Requests, SpawnWaited(r) PROVE CapacityRespected'
  BY <1>2 DEF SpawnWaited, Goto, LeastLoaded
<1>3. ASSUME NEW r \in Requests, TakeSlot(r) PROVE CapacityRespected'
  BY <1>3 DEF TakeSlot, Goto, AcquireSlot, SpawnOrQueue, EnsureSpawn
<1>4. ASSUME NEW r \in Requests, Enqueue(r) PROVE CapacityRespected'
  BY <1>4 DEF Enqueue, Goto
<1>5. ASSUME NEW r \in Requests, Receive(r) PROVE CapacityRespected'
  BY <1>5 DEF Receive, Goto, Awaits
<1>6. ASSUME NEW r \in Requests, ReceiveClosed(r) PROVE CapacityRespected'
  BY <1>6 DEF ReceiveClosed, Goto, Awaits
<1>7. ASSUME NEW r \in Requests, Timeout(r) PROVE CapacityRespected'
  BY <1>7 DEF Timeout, Goto, Awaits, DropGuard, ReleaseSlot
<1>8. ASSUME NEW r \in Requests, RemoveQueued(r) PROVE CapacityRespected'
  BY <1>8 DEF RemoveQueued, Goto
<1>9. ASSUME NEW r \in Requests, Finish(r) PROVE CapacityRespected'
  BY <1>9 DEF Finish, Goto, DropGuard, ReleaseSlot
<1>10. ASSUME NEW r \in Requests, Disconnect(r) PROVE CapacityRespected'
  BY <1>10 DEF Disconnect, Goto, Awaits, DropGuard, ReleaseSlot
<1>11. ASSUME NEW w \in Wakers, WakePop(w) PROVE CapacityRespected'
  BY <1>11 DEF WakePop, WakeReturns
<1>12. ASSUME NEW w \in Wakers, WakeFind(w) PROVE CapacityRespected'
  BY <1>12 DEF WakeFind, LeastLoaded
<1>13. ASSUME NEW w \in Wakers, WakeTake(w) PROVE CapacityRespected'
  BY <1>13 DEF WakeTake, AcquireSlot
<1>14. ASSUME NEW w \in Wakers, WakeSend(w) PROVE CapacityRespected'
  BY <1>14 DEF WakeSend, WakeReturns, ReleaseSlot, ReceiverAlive
<1>15. ASSUME NEW w \in Wakers, WakeRepark(w) PROVE CapacityRespected'
  BY <1>15 DEF WakeRepark, WakeReturns
<1>16. CASE ReceiveRelease
  BY <1>16 DEF ReceiveRelease
<1>17. ASSUME NEW w \in Reapers, ReapDrained(w) PROVE CapacityRespected'
  BY <1>17 DEF ReapDrained, Drained
<1>18. ASSUME NEW w \in Reapers, ReapNext(w) PROVE CapacityRespected'
  BY <1>18 DEF ReapNext, BeginRemoval
<1>19. ASSUME NEW w \in Workers, Removed(w) PROVE CapacityRespected'
  BY <1>19 DEF Removed
<1>20. CASE UnloadModel
  BY <1>20 DEF UnloadModel
<1>21. CASE UnloadNext
  BY <1>21 DEF UnloadNext, DrainInstance, BeginRemoval
<1>22. CASE RemoveModel
  BY <1>22 DEF RemoveModel
<1>23. CASE SpawnRefused
  BY <1>23 DEF SpawnRefused
<1>24. CASE SpawnReady
  BY <1>24 DEF SpawnReady
<1>25. CASE SpawnFailed
  BY <1>25 DEF SpawnFailed, DiscardSpawn, BeginRemoval
<1>26. CASE SpawnCheck
  BY <1>26 DEF SpawnCheck, DiscardSpawn, BeginRemoval
<1>27. ASSUME NEW i \in Instances, SpawnRegister(i) PROVE CapacityRespected'
  BY <1>27 DEF SpawnRegister
<1>28. ASSUME NEW i \in Instances, Unlist(i) PROVE CapacityRespected'
  BY <1>28 DEF Unlist
<1>29. ASSUME NEW i \in Instances, DrainCheck(i) PROVE CapacityRespected'
  BY <1>29 DEF DrainCheck
<1>30. ASSUME NEW i \in Instances, DrainQueue(i) PROVE CapacityRespected'
  BY <1>30 DEF DrainQueue
<1>31. ASSUME NEW i \in Instances, RemoveInstance(i) PROVE CapacityRespected'
  BY <1>31 DEF RemoveInstance, DrainInstance, BeginRemoval
<1>32. ASSUME NEW i \in Instances, RetireStale(i) PROVE CapacityRespected'
  BY <1>32 DEF RetireStale
<1>33. ASSUME NEW i \in Instances, HandleCrash(i) PROVE CapacityRespected'
  BY <1>33 DEF HandleCrash, BeginRemoval
<1>34. CASE UNCHANGED vars
  BY <1>34 DEF vars
<1>. QED
  BY <1>1, <1>2, <1>3, <1>4, <1>5, <1>6, <1>7, <1>8, <1>9, <1>10, <1>11, <1>12, <1>13, <1>14,
     <1>15, <1>16, <1>17, <1>18, <1>19, <1>20, <1>21, <1>22, <1>23, <1>24, <1>25, <1>26, <1>27,
     <1>28, <1>29, <1>30, <1>31, <1>32, <1>33, <1>34
  DEF Next, RequestStep, WakeStep, ReleaseStep, ReapStep, Reapers, UnloadStep, SpawnStep,
      RemovalStep, AllAnswered

-----------------------------------------------------------------------------
(* The theorems. *)

\* The inductive invariant: whether a guard may be dropped, and counted down,
\* depends on who owns it, hence on who may still have a queue entry.
IInv == TypeOK /\ Shape /\ Entries /\ SlotConservation /\ CapacityRespected

\* The invariant holds initially,
LEMMA IInvInit == Init => IInv
<1>1. Init => CapacityRespected
  BY LimitsAssumption DEF Init, CapacityRespected
<1>. QED
  BY <1>1, ShapeInit, EntriesInit, SlotsInit DEF IInv

\* every step keeps it,
LEMMA IInvStep == IInv /\ [Next]_vars => IInv'
  BY ShapeStep, EntriesStep, SlotsStep, TypeStep, CapacityStep DEF IInv

\* so it holds in every reachable state.
LEMMA Invariance == Spec => []IInv
  BY IInvInit, IInvStep, PTL DEF Spec

\* In every reachable state every variable has its type; above all, no in-flight
\* counter was ever decremented below zero (release_slot would saturate).
THEOREM TypeCorrect == Spec => []TypeOK
<1>1. IInv => TypeOK
  BY DEF IInv
<1>. QED
  BY <1>1, Invariance, PTL

\* SlotGuard: the in-flight counter of an instance is always the number of guards
\* in existence for it.
THEOREM SlotsConserved == Spec => []SlotConservation
<1>1. IInv => SlotConservation
  BY DEF IInv
<1>. QED
  BY <1>1, Invariance, PTL

\* try_acquire: no instance ever serves more than max_concurrent requests.
THEOREM NeverOverCapacity == Spec => []CapacityRespected
<1>1. IInv => CapacityRespected
  BY DEF IInv
<1>. QED
  BY <1>1, Invariance, PTL

\* enqueue: a slot sent to a waiter that gives up is freed, not stranded.
THEOREM NoSlotLeaks == Spec => []NoLeakedSlot
<1>1. IInv => NoLeakedSlot
  BY SentinelsAssumption DEF IInv, Entries, GuardOwner, NoLeakedSlot
<1>. QED
  BY <1>1, Invariance, PTL

\* wake_one: no request is queued twice, in the queue or in a waker's hands.
THEOREM EntriesUnique == Spec => []EntryUnique
<1>1. IInv => EntryUnique
  BY DEF IInv, Entries, QueueDistinct, HandsDistinct, HandsApart, Distinct, EntryUnique
<1>. QED
  BY <1>1, Invariance, PTL

\* wake_one: a waiter that got nothing yet still has its entry, and one that got
\* something has none.
THEOREM WaitersKept == Spec => []WaiterHasEntry
<1>1. IInv => WaiterHasEntry
  BY DEF IInv, Entries, EntryOwner, ParkedKept, Entered, WaiterHasEntry
<1>. QED
  BY <1>1, Invariance, PTL

-----------------------------------------------------------------------------
(* SlotQueue implements SlotPool. *)

Final == Answered \cup {"removing"}

PoolStep == Pool!Next \/ UNCHANGED Pool!poolVars

\* A step that leaves every guard and every answer alone is a stuttering step.
LEMMA StayStep ==
  ASSUME \A r \in Requests : guard'[r] \in Instances \/ guard[r] \in Instances => guard'[r] = guard[r],
         \A r \in Requests : pc'[r] \in Final <=> pc[r] \in Final
  PROVE  PoolStep
<1>1. Phase' = Phase /\ Slot' = Slot
  BY DEF Phase, Slot, Final
<1>. QED
  BY <1>1 DEF PoolStep, Pool!poolVars

\* A request that gets its answer, and gives back its slot if it has one, leaves.
LEMMA LeaveStep ==
  ASSUME TypeOK, NEW r \in Requests, pc[r] \notin Final, NEW l \in Final,
         pc' = [pc EXCEPT ![r] = l], guard' = [guard EXCEPT ![r] = None]
  PROVE  PoolStep
<1>. /\ pc \in [Requests -> PCs] /\ guard \in [Requests -> Instances \cup {None, Closed}]
     /\ None \notin Instances
  BY SentinelsAssumption DEF TypeOK
<1>1. \A s \in Requests : /\ guard'[s] = IF s = r THEN None ELSE guard[s]
                          /\ pc'[s] = IF s = r THEN l ELSE pc[s]
  OBVIOUS
<1>2. Phase[r] # "left"
  BY DEF Phase, Final
<1>3. Phase' = [Phase EXCEPT ![r] = "left"]
  BY <1>1 DEF Phase, Final
<1>4. Slot' = [Slot EXCEPT ![r] = None]
  BY <1>1 DEF Slot
<1>5. Pool!Leave(r)
  BY <1>2, <1>3, <1>4 DEF Pool!Leave
<1>. QED
  BY <1>5 DEF PoolStep, Pool!Next

\* A request that gets a guard is granted a slot, if the instance had one.
LEMMA GrantStep ==
  ASSUME TypeOK, NEW r \in Requests, pc[r] \notin Final, guard[r] \notin Instances, NEW p \in Instances,
         guard' = [guard EXCEPT ![r] = p], \A s \in Requests : s # r => pc'[s] = pc[s],
         Cardinality(Holders(p)) < MaxConcurrent
  PROVE  PoolStep
<1>. /\ pc \in [Requests -> PCs] /\ guard \in [Requests -> Instances \cup {None, Closed}]
     /\ None \notin Instances
  BY SentinelsAssumption DEF TypeOK
<1>1. \A s \in Requests : guard'[s] = IF s = r THEN p ELSE guard[s]
  OBVIOUS
<1>2. Phase[r] = "waiting"
  BY DEF Phase, Final
<1>3. Phase' = [Phase EXCEPT ![r] = "serving"]
  BY <1>1 DEF Phase
<1>4. Slot' = [Slot EXCEPT ![r] = p]
  BY <1>1 DEF Slot
<1>5. {s \in Requests : Slot[s] = p} = Holders(p)
  BY DEF Slot, Holders
<1>6. Pool!Cardinality(Pool!Occupants(p)) < MaxConcurrent
  <2>1. Pool!Cardinality(Holders(p)) = Cardinality(Holders(p))
    BY DEF Pool!Cardinality, Cardinality
  <2>. QED
    BY <1>5, <2>1 DEF Pool!Occupants
<1>7. Pool!Grant(r, p)
  BY <1>2, <1>3, <1>4, <1>6, Zenon DEF Pool!Grant
<1>. QED
  BY <1>7 DEF PoolStep, Pool!Next

\* The initial states are SlotPool's.
LEMMA PoolInit == Init => Pool!Init
  BY SentinelsAssumption DEF Init, Pool!Init, Phase, Slot, Answered

\* Every step of a request or a task is a grant, a departure or a stuttering step.
LEMMA PoolSteps == IInv /\ [Next]_vars => [Pool!Next]_(Pool!poolVars)
<1>. SUFFICES ASSUME IInv, [Next]_vars PROVE PoolStep
  BY DEF PoolStep
<1>. TypeOK /\ Shape /\ Entries /\ SlotConservation /\ CapacityRespected
  BY DEF IInv
<1>. /\ pc \in [Requests -> PCs] /\ guard \in [Requests -> Instances \cup {None, Closed}]
     /\ inFlight \in [Instances -> Nat]
     /\ None \notin Instances /\ Closed \notin Instances /\ MaxConcurrent \in Nat
  BY SentinelsAssumption, LimitsAssumption DEF TypeOK
<1>. EntryOwner /\ GuardOwner /\ PickShape /\ HandShape /\ TakeShape
  BY DEF Entries, Shape
<1>0. \A r \in Requests : pc[r] \notin {"parked", "serving"} => guard[r] = None
  BY DEF GuardOwner
<1>. USE DEF Final, Answered, instVars, slotVars, wakeVars, planVars
<1>1. ASSUME NEW r \in Requests, GetOrSpawn(r) PROVE PoolStep
  <2>1. pc[r] = "new" /\ guard[r] = None /\ UNCHANGED guard
    BY <1>1, <1>0 DEF GetOrSpawn
  <2>2. CASE pc' = [pc EXCEPT ![r] = "noinst"]
    <3>1. guard' = [guard EXCEPT ![r] = None]
      BY <2>1
    <3>. QED
      BY <2>1, <2>2, <3>1, LeaveStep
  <2>3. ASSUME NEW l \in {"take", "spawning", "enqueue"}, pc' = [pc EXCEPT ![r] = l] PROVE PoolStep
    BY <2>1, <2>3, StayStep
  <2>. QED
    BY <1>1, <2>2, <2>3 DEF GetOrSpawn, SpawnOrQueue, EnsureSpawn, Goto
<1>2. ASSUME NEW r \in Requests, SpawnWaited(r) PROVE PoolStep
  <2>1. pc[r] = "spawning" /\ UNCHANGED guard
    BY <1>2 DEF SpawnWaited
  <2>2. ASSUME NEW l \in {"retry", "enqueue"}, pc' = [pc EXCEPT ![r] = l] PROVE PoolStep
    BY <2>1, <2>2, StayStep
  <2>. QED
    BY <1>2, <2>2 DEF SpawnWaited, Goto
<1>3. ASSUME NEW r \in Requests, TakeSlot(r) PROVE PoolStep
  <2>1. pc[r] \in {"take", "retry"} /\ guard[r] = None /\ pick[r] \in Instances
    BY <1>3, <1>0 DEF TakeSlot, TakeShape
  <2>2. ASSUME NEW l \in {"spawning", "enqueue"}, pc' = [pc EXCEPT ![r] = l], UNCHANGED guard PROVE PoolStep
    BY <2>1, <2>2, StayStep
  <2>3. ASSUME NEW p \in Instances, p = pick[r], HasCapacity(p), guard' = [guard EXCEPT ![r] = p],
               pc' = [pc EXCEPT ![r] = "serving"]
        PROVE  PoolStep
    <3>1. Cardinality(Holders(p)) < MaxConcurrent
      BY <2>3, HoldersFinite DEF HasCapacity, SlotConservation
    <3>. QED
      BY <2>1, <2>3, <3>1, GrantStep
  <2>. QED
    BY <1>3, <2>1, <2>2, <2>3 DEF TakeSlot, SpawnOrQueue, EnsureSpawn, Goto
<1>4. ASSUME NEW r \in Requests, Enqueue(r) PROVE PoolStep
  <2>1. pc[r] = "enqueue" /\ guard[r] = None /\ UNCHANGED guard
    BY <1>4, <1>0 DEF Enqueue
  <2>2. ASSUME NEW l \in {"noinst", "full"}, pc' = [pc EXCEPT ![r] = l] PROVE PoolStep
    <3>1. guard' = [guard EXCEPT ![r] = None]
      BY <2>1
    <3>. QED
      BY <2>1, <2>2, <3>1, LeaveStep
  <2>3. CASE pc' = [pc EXCEPT ![r] = "parked"]
    BY <2>1, <2>3, StayStep
  <2>. QED
    BY <1>4, <2>2, <2>3 DEF Enqueue, Goto
<1>5. ASSUME NEW r \in Requests, Receive(r) PROVE PoolStep
  BY <1>5, StayStep DEF Receive, Goto, Awaits
<1>6. ASSUME NEW r \in Requests, ReceiveClosed(r) PROVE PoolStep
  BY <1>6, LeaveStep DEF ReceiveClosed, Goto, Awaits
<1>7. ASSUME NEW r \in Requests, Timeout(r) PROVE PoolStep
  BY <1>7, LeaveStep DEF Timeout, Goto, Awaits, DropGuard
<1>8. ASSUME NEW r \in Requests, RemoveQueued(r) PROVE PoolStep
  BY <1>8, StayStep DEF RemoveQueued, Goto
<1>9. ASSUME NEW r \in Requests, Finish(r) PROVE PoolStep
  BY <1>9, LeaveStep DEF Finish, Goto, DropGuard
<1>10. ASSUME NEW r \in Requests, Disconnect(r) PROVE PoolStep
  BY <1>10, LeaveStep DEF Disconnect, Goto, Awaits, DropGuard
<1>11. ASSUME NEW w \in Wakers, WakePop(w) PROVE PoolStep
  BY <1>11, StayStep DEF WakePop
<1>12. ASSUME NEW w \in Wakers, WakeFind(w) PROVE PoolStep
  BY <1>12, StayStep DEF WakeFind
<1>13. ASSUME NEW w \in Wakers, WakeTake(w) PROVE PoolStep
  BY <1>13, StayStep DEF WakeTake
<1>14. ASSUME NEW w \in Wakers, WakeSend(w) PROVE PoolStep
  <2>1. pick[w] \in Instances /\ task[w] = "send" /\ hand[w] \in Requests /\ UNCHANGED pc
    BY <1>14 DEF WakeSend, PickShape, HandShape, Hands, TypeOK, Workers
  <2>2. guard[hand[w]] = None
    BY <2>1 DEF EntryOwner, Entered, InHand
  <2>3. CASE UNCHANGED guard
    BY <2>1, <2>3, StayStep
  <2>4. ASSUME NEW p \in Instances, p = pick[w], NEW s \in Requests, s = hand[w],
               pc[s] = "parked", guard' = [guard EXCEPT ![s] = p]
        PROVE  PoolStep
    <3>1. w \in Carriers(p)
      BY <2>1, <2>4 DEF Carriers
    <3>2. Cardinality(Carriers(p)) >= 1
      BY <3>1, HoldersFinite, FS_EmptySet
    <3>3. Cardinality(Holders(p)) < MaxConcurrent
      BY <3>2, HoldersFinite DEF SlotConservation, CapacityRespected
    <3>. QED
      BY <2>1, <2>2, <2>4, <3>3, GrantStep
  <2>. QED
    BY <1>14, <2>1, <2>3, <2>4 DEF WakeSend, ReceiverAlive
<1>15. ASSUME NEW w \in Wakers, WakeRepark(w) PROVE PoolStep
  BY <1>15, StayStep DEF WakeRepark
<1>16. CASE ReceiveRelease
  BY <1>16, StayStep DEF ReceiveRelease
<1>17. ASSUME NEW w \in Reapers, ReapDrained(w) PROVE PoolStep
  BY <1>17, StayStep DEF ReapDrained
<1>18. ASSUME NEW w \in Reapers, ReapNext(w) PROVE PoolStep
  BY <1>18, StayStep DEF ReapNext
<1>19. ASSUME NEW w \in Workers, Removed(w) PROVE PoolStep
  BY <1>19, StayStep DEF Removed
<1>20. CASE UnloadModel
  BY <1>20, StayStep DEF UnloadModel
<1>21. CASE UnloadNext
  BY <1>21, StayStep DEF UnloadNext
<1>22. CASE RemoveModel
  BY <1>22, StayStep DEF RemoveModel
<1>23. CASE SpawnRefused
  BY <1>23, StayStep DEF SpawnRefused
<1>24. CASE SpawnReady
  BY <1>24, StayStep DEF SpawnReady
<1>25. CASE SpawnFailed
  BY <1>25, StayStep DEF SpawnFailed
<1>26. CASE SpawnCheck
  BY <1>26, StayStep DEF SpawnCheck
<1>27. ASSUME NEW i \in Instances, SpawnRegister(i) PROVE PoolStep
  BY <1>27, StayStep DEF SpawnRegister
<1>28. ASSUME NEW i \in Instances, Unlist(i) PROVE PoolStep
  BY <1>28, StayStep DEF Unlist
<1>29. ASSUME NEW i \in Instances, DrainCheck(i) PROVE PoolStep
  BY <1>29, StayStep DEF DrainCheck
<1>30. ASSUME NEW i \in Instances, DrainQueue(i) PROVE PoolStep
  <2>1. \A r \in Requests : guard'[r] # guard[r] => guard[r] = None /\ guard'[r] = Closed
    BY <1>30 DEF DrainQueue, EntryOwner, Entered, InQueue
  <2>. QED
    BY <1>30, <2>1, StayStep DEF DrainQueue
<1>31. ASSUME NEW i \in Instances, RemoveInstance(i) PROVE PoolStep
  BY <1>31, StayStep DEF RemoveInstance
<1>32. ASSUME NEW i \in Instances, RetireStale(i) PROVE PoolStep
  BY <1>32, StayStep DEF RetireStale
<1>33. ASSUME NEW i \in Instances, HandleCrash(i) PROVE PoolStep
  BY <1>33, StayStep DEF HandleCrash
<1>34. CASE UNCHANGED vars
  BY <1>34, StayStep DEF vars
<1>. QED
  BY <1>1, <1>2, <1>3, <1>4, <1>5, <1>6, <1>7, <1>8, <1>9, <1>10, <1>11, <1>12, <1>13, <1>14,
     <1>15, <1>16, <1>17, <1>18, <1>19, <1>20, <1>21, <1>22, <1>23, <1>24, <1>25, <1>26, <1>27,
     <1>28, <1>29, <1>30, <1>31, <1>32, <1>33, <1>34
  DEF Next, RequestStep, WakeStep, ReleaseStep, ReapStep, Reapers, UnloadStep, SpawnStep,
      RemovalStep, AllAnswered

\* The tasks around a queue are a pool of slots: every request is granted at most
\* one slot, once, and only while the instance has one to give.
THEOREM QueueImplementsPool == Spec => ImplementsPool
  BY PoolInit, PoolSteps, Invariance, PTL DEF Spec, ImplementsPool, Pool!Spec
=============================================================================
