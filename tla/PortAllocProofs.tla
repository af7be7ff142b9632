--------------------------- MODULE PortAllocProofs ---------------------------
(* Theorems about PortAlloc, for any ranges, any spawns and any width.       *)
EXTENDS PortAllocHistory, TLAPS

\* A scan runs over a range, for a spawn without a port; only a spawn with a
\* port that can be bound listens.
ScanShape   == holder # Nobody => range # Ephemeral /\ lease[holder] = NoPort
ListenShape == \A s \in listening : lease[s] \notin {NoPort, 0}
Shape == TypeOK /\ ScanShape /\ ListenShape

\* Wrapping addition stays among the ports, and below the last one it is addition.
LEMMA AdvanceWraps ==
  ASSUME NEW p \in Ports
  PROVE  Advance(p) \in Ports /\ (p < MaxPort => Advance(p) = p + 1)
<1>1. CASE p < MaxPort
  BY <1>1, PortsAssumption DEF Advance, Ports
<1>2. CASE p = MaxPort
  BY <1>2, PortsAssumption DEF Advance, Ports
<1>. QED
  BY <1>1, <1>2, PortsAssumption DEF Ports

\* The scan looks at a port, whatever range a reload has left it.
LEMMA CandidateIsPort == Shape /\ holder # Nobody => Candidate \in Ports
  BY ConfigsAssumption DEF Shape, TypeOK, ScanShape, Candidate, Bounds

LEMMA ShapeInit == Init => Shape
  BY PortsAssumption, ConfigsAssumption
  DEF Init, Shape, TypeOK, ScanShape, ListenShape, ScanStart, Ports, Bounds

\* Every step keeps the types and the shapes.
LEMMA ShapeStep == Shape /\ [Next]_vars => Shape'
<1>. SUFFICES ASSUME Shape, [Next]_vars PROVE Shape'
  OBVIOUS
<1>. USE PortsAssumption, ConfigsAssumption
         DEF Shape, TypeOK, ScanShape, ListenShape, allocVars, scanVars, sockets
<1>0. 0 \in Ports /\ NoPort \notin Ports /\ Nobody \notin Spawns
  BY DEF Ports
<1>1. ASSUME NEW s \in Spawns, Allocate(s) PROVE Shape'
  <2>1. RangeSize(range) \in Nat
    BY <1>1 DEF Allocate, RangeSize, Bounds, Ports
  <2>. QED
    BY <1>1, <2>1 DEF Allocate
<1>2. ASSUME NEW s \in Spawns, Free(s) PROVE Shape'
  BY <1>0, <1>2 DEF Free
<1>3. ASSUME NEW s \in Spawns, Listen(s) PROVE Shape'
  BY <1>0, <1>3 DEF Listen
<1>4. ASSUME NEW s \in Spawns, Exit(s) PROVE Shape'
  BY <1>0, <1>4 DEF Exit
<1>5. ASSUME NEW s \in Spawns, NEW p \in Ports, AllocateEphemeral(s, p) PROVE Shape'
  BY <1>0, <1>5 DEF AllocateEphemeral, Record
<1>6. ASSUME ScanPort PROVE Shape'
  <2>1. Candidate \in Ports /\ Advance(Candidate) \in Ports
    BY <1>6, CandidateIsPort, AdvanceWraps DEF ScanPort
  <2>2. CASE Taken(Candidate) /\ left' = left - 1 /\ UNCHANGED <<used, holder, lease>>
    BY <1>0, <1>6, <2>1, <2>2 DEF ScanPort
  <2>3. CASE ~Taken(Candidate) /\ Record(holder, Candidate) /\ holder' = Nobody /\ left' = 0
    BY <1>0, <1>6, <2>1, <2>3 DEF ScanPort, Record
  <2>. QED
    BY <1>6, <2>2, <2>3 DEF ScanPort
<1>7. ASSUME ScanFails PROVE Shape'
  BY <1>0, <1>7 DEF ScanFails
<1>8. ASSUME NEW c \in Configs, SetRange(c) PROVE Shape'
  <2>1. ScanStart(c) \in Ports
    BY <1>0 DEF ScanStart, Bounds
  <2>. QED
    BY <1>0, <1>8, <2>1 DEF SetRange
<1>9. ASSUME NEW p \in Ports, OthersBind(p) PROVE Shape'
  BY <1>0, <1>9 DEF OthersBind
<1>10. ASSUME NEW p \in Ports, OthersRelease(p) PROVE Shape'
  BY <1>0, <1>10 DEF OthersRelease
<1>11. CASE UNCHANGED vars
  BY <1>11 DEF vars
<1>. QED
  BY <1>1, <1>2, <1>3, <1>4, <1>5, <1>6, <1>7, <1>8, <1>9, <1>10, <1>11
  DEF Next, SpawnStep, PortStep

\* Every variable keeps its type; in particular the scan position is a u16,
\* wherever it wraps.
THEOREM PortTypes == Spec => []TypeOK
<1>1. Shape => TypeOK
  BY DEF Shape
<1>. QED
  BY ShapeInit, ShapeStep, <1>1, PTL DEF Spec

-----------------------------------------------------------------------------
OsChooses == \E s \in Spawns, p \in Ports : AllocateEphemeral(s, p)

\* Every port a scan hands out was in no other lease, and only the holder of a
\* lease gives it back.
LEMMA TrackedStep ==
  ASSUME Shape, LeasesTracked, [Next]_vars, ~OsChooses
  PROVE  LeasesTracked'
<1>. USE PortsAssumption DEF LeasesTracked, Leased, allocVars, scanVars, sockets
<1>. /\ lease \in [Spawns -> Ports \cup {NoPort}]
     /\ NoPort \notin Ports /\ Nobody \notin Spawns /\ holder \in Spawns \cup {Nobody}
  BY DEF Shape, TypeOK
<1>1. ASSUME NEW s \in Spawns, Free(s) PROVE LeasesTracked'
  BY <1>1 DEF Free
<1>2. ASSUME ScanPort PROVE LeasesTracked'
  <2>1. Candidate \in Ports
    BY <1>2, CandidateIsPort DEF ScanPort
  <2>2. CASE UNCHANGED <<used, holder, lease>>
    BY <2>2
  <2>3. CASE ~Taken(Candidate) /\ Record(holder, Candidate)
    <3>1. holder \in Spawns /\ Candidate \notin used /\ lease[holder] = NoPort
      BY <1>2, <2>3 DEF ScanPort, Taken, Shape, ScanShape
    <3>. QED
      BY <2>1, <2>3, <3>1 DEF Record
  <2>. QED
    BY <1>2, <2>2, <2>3 DEF ScanPort
<1>3. CASE UNCHANGED <<used, lease>>
  BY <1>3
<1>. QED
  BY <1>1, <1>2, <1>3
  DEF Next, SpawnStep, PortStep, Allocate, Listen, Exit, ScanFails, SetRange,
      OthersBind, OthersRelease, vars, OsChooses

\* Without the ephemeral mode no two spawns ever hold the same port, and the
\* allocator's table is exactly the ports held.
THEOREM RangeLeasesTracked ==
  ASSUME Ephemeral \notin Configs
  PROVE  Spec => []LeasesTracked
<1>1. Init => Shape /\ LeasesTracked
  BY ShapeInit DEF Init, LeasesTracked, Leased
<1>2. Shape /\ LeasesTracked /\ [Next]_vars => Shape' /\ LeasesTracked'
  <2>1. Shape => ~OsChooses
    BY DEF OsChooses, AllocateEphemeral, Shape, TypeOK
  <2>. QED
    BY <2>1, ShapeStep, TrackedStep
<1>. QED
  BY <1>1, <1>2, PTL DEF Spec

\* With it, the table is exact until the operating system chooses a port.
THEOREM TrackedUntilOsChooses == HistorySpec => []TrackedWithoutOs
<1>1. HistoryInit => Shape /\ TrackedWithoutOs
  BY ShapeInit DEF HistoryInit, Init, TrackedWithoutOs, LeasesTracked, Leased
<1>2. Shape /\ TrackedWithoutOs /\ [HistoryNext]_historyVars => Shape' /\ TrackedWithoutOs'
  <2>. SUFFICES ASSUME Shape, TrackedWithoutOs, [HistoryNext]_historyVars
       PROVE  Shape' /\ TrackedWithoutOs'
    OBVIOUS
  <2>1. [Next]_vars /\ (~osChose' => ~osChose /\ (~OsChooses \/ UNCHANGED vars))
    <3>1. CASE HistoryNext
      <4>1. osChose' = (osChose \/ OsChooses)
        BY <3>1 DEF HistoryNext, Watched, OsChooses
      <4>2. ~osChose' => ~osChose /\ ~OsChooses
        BY <4>1, Zenon
      <4>. QED
        BY <3>1, <4>2 DEF HistoryNext
    <3>2. CASE UNCHANGED historyVars
      <4>1. UNCHANGED vars /\ osChose' = osChose
        BY <3>2 DEF historyVars
      <4>. QED
        BY <4>1, Zenon
    <3>. QED
      BY <3>1, <3>2
  <2>2. CASE UNCHANGED vars
    BY <2>1, <2>2, ShapeStep DEF vars, TrackedWithoutOs, LeasesTracked, Leased
  <2>3. CASE ~OsChooses
    BY <2>1, <2>3, ShapeStep, TrackedStep DEF TrackedWithoutOs
  <2>4. CASE osChose'
    BY <2>1, <2>4, ShapeStep DEF TrackedWithoutOs
  <2>. QED
    BY <2>1, <2>2, <2>3, <2>4
<1>. QED
  BY <1>1, <1>2, PTL DEF HistorySpec

-----------------------------------------------------------------------------
\* The scan position is in the range or just behind it.
NextInRange == range # Ephemeral => next \in range.start..(range.end + 1)

\* It stays there as long as no range ends with the last port of all.
LEMMA NextInRangeStep ==
  ASSUME \A c \in Configs \ {Ephemeral} : c.end < MaxPort,
         Shape, NextInRange, [Next]_vars
  PROVE  NextInRange'
<1>. USE PortsAssumption, ConfigsAssumption DEF NextInRange, allocVars, scanVars, sockets
<1>1. ASSUME ScanPort PROVE NextInRange'
  <2>1. range # Ephemeral /\ range.start \in Nat /\ range.end \in Nat /\ range.start <= range.end
    BY <1>1 DEF ScanPort, Shape, ScanShape, TypeOK, Bounds, Ports
  <2>2. Candidate \in range.start..range.end
    BY <2>1 DEF Candidate
  <2>3. Advance(Candidate) = Candidate + 1
    BY <1>1, <2>1, <2>2, CandidateIsPort, AdvanceWraps DEF ScanPort, Shape, TypeOK
  <2>. QED
    BY <1>1, <2>1, <2>2, <2>3 DEF ScanPort
<1>2. ASSUME NEW c \in Configs, SetRange(c) PROVE NextInRange'
  BY <1>2 DEF SetRange, ScanStart, Bounds, Ports
<1>3. CASE UNCHANGED <<range, next>>
  BY <1>3
<1>. QED
  BY <1>1, <1>2, <1>3
  DEF Next, SpawnStep, PortStep, Allocate, Free, Listen, Exit, AllocateEphemeral, ScanFails,
      OthersBind, OthersRelease, vars

\* As long as no range ends with the last port of all, a scan hands out ports
\* of the range in force only.
THEOREM LeasesInRange ==
  ASSUME \A c \in Configs \ {Ephemeral} : c.end < MaxPort
  PROVE  Spec => LeaseInRange
<1>. DEFINE InRange == \A s \in Spawns :
                         lease'[s] # NoPort /\ lease'[s] # lease[s] /\ range # Ephemeral
                           => lease'[s] \in range.start..range.end
<1>1. Init => Shape /\ NextInRange
  BY ShapeInit, PortsAssumption, ConfigsAssumption
  DEF Init, NextInRange, ScanStart, Bounds, Ports
<1>2. Shape /\ NextInRange /\ [Next]_vars => Shape' /\ NextInRange'
  BY ShapeStep, NextInRangeStep
<1>3. ASSUME Shape, NextInRange, [Next]_vars PROVE [InRange]_vars
  <2>1. ASSUME ScanPort PROVE InRange
    <3>1. range # Ephemeral /\ Candidate \in range.start..range.end
      BY <1>3, <2>1, ConfigsAssumption
      DEF ScanPort, Shape, ScanShape, TypeOK, Bounds, Ports, NextInRange, Candidate
    <3>. QED
      BY <1>3, <2>1, <3>1 DEF ScanPort, Record, Shape, TypeOK
  <2>2. ASSUME NEW s \in Spawns, Free(s) PROVE InRange
    BY <1>3, <2>2 DEF Free, Shape, TypeOK
  <2>3. ASSUME NEW s \in Spawns, NEW p \in Ports, AllocateEphemeral(s, p) PROVE InRange
    BY <2>3 DEF AllocateEphemeral
  <2>4. CASE UNCHANGED lease
    BY <2>4
  <2>. QED
    BY <1>3, <2>1, <2>2, <2>3, <2>4
    DEF Next, SpawnStep, PortStep, Allocate, Listen, Exit, ScanFails, SetRange,
        OthersBind, OthersRelease, vars, sockets, allocVars, scanVars
<1>4. [][Shape /\ NextInRange /\ Shape' /\ NextInRange' /\ [Next]_vars => [InRange]_vars]_vars
  BY <1>3, PTL
<1>. QED
  BY <1>1, <1>2, <1>3, PTL DEF Spec, LeaseInRange

-----------------------------------------------------------------------------
\* A scan has tried the ports it has passed: those before its position, as far
\* back as it has come, and, once it has wrapped, those at the end of the range.
ScanTried ==
  holder # Nobody =>
    \A p \in range.start..range.end :
      \/ p < next /\ p + RangeSize(range) >= next + left
      \/ p >= next + left
      => p \in tried

ScanInv == Shape /\ NextInRange /\ ScanTried

LEMMA ScanTriedStep ==
  ASSUME \A c \in Configs \ {Ephemeral} : c.end < MaxPort, ScanInv, HistoryNext
  PROVE  ScanTried'
<1>. USE PortsAssumption, ConfigsAssumption DEF allocVars, scanVars, sockets
<1>. DEFINE Scanned(p) == \/ p < next /\ p + RangeSize(range) >= next + left
                          \/ p >= next + left
<1>1. Shape' /\ NextInRange'
  BY ShapeStep, NextInRangeStep DEF ScanInv, HistoryNext
<1>2. /\ left \in Nat /\ next \in Nat
      /\ range # Ephemeral => /\ range.start \in Nat /\ range.end \in Nat
                              /\ range.start <= range.end /\ range.end < MaxPort
                              /\ next >= range.start /\ next <= range.end + 1
  BY DEF ScanInv, Shape, TypeOK, Bounds, Ports, NextInRange
<1>3. CASE ScanPort /\ holder' # Nobody
  <2>1. /\ holder # Nobody /\ range # Ephemeral /\ range' = range /\ left' = left - 1 /\ left > 0
        /\ tried' = tried \cup {Candidate} /\ next' = Advance(Candidate)
    BY <1>3 DEF ScanPort, HistoryNext, Watched, ScanInv, Shape, ScanShape
  <2>2. Candidate \in range.start..range.end
    BY <1>2, <2>1 DEF Candidate
  <2>3. next' = Candidate + 1
    BY <1>2, <2>1, <2>2, CandidateIsPort, AdvanceWraps DEF ScanInv, Ports
  <2>. SUFFICES ASSUME NEW p \in range.start..range.end,
                       \/ p < next' /\ p + RangeSize(range) >= next' + left'
                       \/ p >= next' + left'
       PROVE  p \in tried'
    BY <2>1 DEF ScanTried, RangeSize
  <2>4. CASE p = Candidate
    BY <2>1, <2>4
  <2>5. CASE p # Candidate
    <3>1. Scanned(p)
      BY <1>2, <2>1, <2>2, <2>3, <2>5 DEF Candidate, RangeSize
    <3>. QED
      BY <2>1, <3>1 DEF ScanInv, ScanTried
  <2>. QED
    BY <2>4, <2>5
<1>4. ASSUME NEW s \in Spawns, Allocate(s) PROVE ScanTried'
  <2>1. range' = range /\ next' = next /\ left' = RangeSize(range) /\ range # Ephemeral
    BY <1>4 DEF Allocate
  <2>. QED
    BY <1>2, <2>1 DEF ScanTried, RangeSize
<1>5. CASE holder' = Nobody
  BY <1>5 DEF ScanTried
<1>6. CASE UNCHANGED <<range, next, holder, left>> /\ ~(ScanPort /\ holder' # Nobody)
  BY <1>6 DEF HistoryNext, Watched, ScanInv, ScanTried, RangeSize
<1>7. ASSUME NEW s \in Spawns, NEW p \in Ports, AllocateEphemeral(s, p) PROVE holder' = Nobody
  BY <1>7 DEF AllocateEphemeral
<1>. QED
  BY <1>3, <1>4, <1>5, <1>6, <1>7
  DEF HistoryNext, Next, SpawnStep, PortStep, Free, Listen, Exit, ScanPort, ScanFails, SetRange,
      OthersBind, OthersRelease

\* As long as no range ends with the last port of all, a scan that gives up has
\* found every port of its range taken, wherever it started and whatever was bound
\* or released meanwhile.
THEOREM ScansAreExhaustive ==
  ASSUME \A c \in Configs \ {Ephemeral} : c.end < MaxPort
  PROVE  HistorySpec => []ScanIsExhaustive
<1>1. HistoryInit => ScanInv
  BY ShapeInit, PortsAssumption, ConfigsAssumption
  DEF HistoryInit, ScanInv, Init, NextInRange, ScanTried, ScanStart, Bounds, Ports
<1>2. ScanInv /\ [HistoryNext]_historyVars => ScanInv'
  <2>1. ASSUME ScanInv, HistoryNext PROVE ScanInv'
    BY <2>1, ShapeStep, NextInRangeStep, ScanTriedStep DEF ScanInv, HistoryNext
  <2>2. ASSUME ScanInv, UNCHANGED historyVars PROVE ScanInv'
    <3>1. UNCHANGED vars /\ tried' = tried
      BY <2>2 DEF historyVars
    <3>2. Shape' /\ NextInRange'
      BY <2>2, <3>1, ShapeStep DEF ScanInv, NextInRange, vars
    <3>3. ScanTried'
      BY <2>2, <3>1 DEF ScanInv, ScanTried, RangeSize, vars
    <3>. QED
      BY <3>2, <3>3 DEF ScanInv
  <2>. QED
    BY <2>1, <2>2
<1>3. ScanInv => ScanIsExhaustive
  <2>. SUFFICES ASSUME ScanInv, holder # Nobody, left = 0, NEW p \in range.start..range.end
       PROVE  p \in tried
    BY DEF ScanIsExhaustive
  <2>1. /\ range.start \in Nat /\ range.end \in Nat /\ next \in Nat
        /\ next >= range.start /\ next <= range.end + 1
    BY ConfigsAssumption, PortsAssumption
    DEF ScanInv, Shape, ScanShape, TypeOK, Bounds, Ports, NextInRange
  <2>2. \/ p < next /\ p + RangeSize(range) >= next + left
        \/ p >= next + left
    BY <2>1 DEF RangeSize
  <2>. QED
    BY <2>2 DEF ScanInv, ScanTried
<1>. QED
  BY <1>1, <1>2, <1>3, PTL DEF HistorySpec
=============================================================================
