------------------------------ MODULE PortAlloc ------------------------------
(***************************************************************************)
(* The port allocator, and the spawns that lease a port from it.           *)
(*                                                                         *)
(* The allocator is behind one lock, which a spawn holds over its whole    *)
(* scan and a reload takes to change the range.  Sockets are not behind    *)
(* it: backends and other processes bind and release ports while a scan    *)
(* probes them.                                                            *)
(***************************************************************************)
EXTENDS Integers

CONSTANTS
  Spawns,    \* the spawns that may hold a port; a new spawn may reuse the name
  Configs,   \* the values of server.port_range: [start, end] records, Ephemeral
  Ephemeral, \* "let the OS choose"
  MaxPort,   \* the largest u16; the model's bound on ports
  NoPort, Nobody

Ports  == 0..MaxPort
Bounds == [start : Ports, end : Ports]

\* config.rs, validate: start <= end; 0 is not excluded.
ASSUME PortsAssumption   == MaxPort \in Nat /\ NoPort \notin Ports /\ Nobody \notin Spawns
ASSUME ConfigsAssumption == /\ Configs \subseteq Bounds \cup {Ephemeral}
                            /\ Ephemeral \notin Bounds
                            /\ \A c \in Configs \ {Ephemeral} : c.start <= c.end
                            /\ Configs # {}

VARIABLES
  range,     \* the allocation strategy in force
  used,      \* the ports handed out and not freed
  next,      \* where the next scan starts
  holder,    \* the spawn whose scan holds the allocator's lock, or Nobody
  left,      \* iterations that scan still has
  lease,     \* spawn -> the port it was given, or NoPort
  listening, \* the spawns whose backend has bound its port
  others     \* ports bound by anybody else

allocVars == <<range, used, next>>
scanVars  == <<holder, left>>
sockets   == <<listening, others>>
vars == <<range, used, next, holder, left, lease, listening, others>>

TypeOK ==
  /\ range \in Configs
  /\ used \in SUBSET Ports
  /\ next \in Ports
  /\ holder \in Spawns \cup {Nobody}
  /\ left \in Nat
  /\ lease \in [Spawns -> Ports \cup {NoPort}]
  /\ listening \in SUBSET Spawns
  /\ others \in SUBSET (Ports \ {0})

ScanStart(c) == IF c = Ephemeral THEN 0 ELSE c.start

Init ==
  /\ range \in Configs
  /\ used = {}
  /\ next = ScanStart(range)
  /\ holder = Nobody
  /\ left = 0
  /\ lease = [s \in Spawns |-> NoPort]
  /\ listening = {}
  /\ others = {}

-----------------------------------------------------------------------------
\* port_is_free: a probe binds the port.  Binding port 0 always succeeds.
PortIsFree(p) == p = 0 \/ (p \notin others /\ \A s \in listening : lease[s] # p)

\* Mutant: the last port of the range is not scanned.
RangeSizeShort(c) == c.end - c.start

\* start is not 0, so the size fits in a u16.
RangeSize(c) == c.end - c.start + 1

\* allocate, range mode: the scan begins.
Allocate(s) ==
  /\ holder = Nobody
  /\ lease[s] = NoPort
  /\ range # Ephemeral
  /\ range.start # 0
  /\ holder' = s
  /\ left' = RangeSize(range)
  /\ UNCHANGED <<allocVars, lease, sockets>>

\* Mutant: the scan position is compared with the wrong bound.
CandidateLate == IF next > range.end + 1 THEN range.start ELSE next

Candidate == IF next > range.end THEN range.start ELSE next

\* u16::wrapping_add.
Advance(p) == (p + 1) % (MaxPort + 1)

\* Mutant: a leased port is not recorded.
RecordNot(s, p) == lease' = [lease EXCEPT ![s] = p] /\ UNCHANGED used

Record(s, p) == /\ lease' = [lease EXCEPT ![s] = p]
                /\ used' = used \cup {p}

Taken(p) == p \in used \/ ~PortIsFree(p)

\* One iteration of the scan.
ScanPort ==
  /\ holder # Nobody
  /\ left > 0
  /\ next' = Advance(Candidate)
  /\ \/ Taken(Candidate) /\ left' = left - 1 /\ UNCHANGED <<used, holder, lease>>
     \/ ~Taken(Candidate) /\ Record(holder, Candidate) /\ holder' = Nobody /\ left' = 0
  /\ UNCHANGED <<range, sockets>>

\* Every iteration is used up: no port for this spawn.
ScanFails ==
  /\ holder # Nobody
  /\ left = 0
  /\ holder' = Nobody
  /\ UNCHANGED <<allocVars, left, lease, sockets>>

\* allocate, ephemeral mode: the OS picks a port nobody has bound.
AllocateEphemeral(s, p) ==
  /\ holder = Nobody
  /\ lease[s] = NoPort
  /\ range = Ephemeral
  /\ p # 0
  /\ PortIsFree(p)
  /\ Record(s, p)
  /\ UNCHANGED <<range, next, scanVars, sockets>>

\* free: a failed spawn, or an instance that leaves the registry.  A second
\* remover may do so while the process is still shutting down.
Free(s) ==
  /\ holder = Nobody
  /\ lease[s] # NoPort
  /\ used' = used \ {lease[s]}
  /\ lease' = [lease EXCEPT ![s] = NoPort]
  /\ listening' = listening \ {s}
  /\ others' = IF s \in listening THEN others \cup {lease[s]} ELSE others
  /\ UNCHANGED <<range, next, scanVars>>

\* reconcile_config: the scan restarts, the used ports stay.
SetRange(c) ==
  /\ holder = Nobody
  /\ range' = c
  /\ next' = ScanStart(c)
  /\ UNCHANGED <<used, scanVars, lease, sockets>>

\* Sockets come and go as they like; a backend told to use port 0 does not
\* listen where it is looked for.
Listen(s) ==
  /\ lease[s] \notin {NoPort, 0}
  /\ s \notin listening
  /\ PortIsFree(lease[s])
  /\ listening' = listening \cup {s}
  /\ UNCHANGED <<allocVars, scanVars, lease, others>>

Exit(s) ==
  /\ s \in listening
  /\ listening' = listening \ {s}
  /\ UNCHANGED <<allocVars, scanVars, lease, others>>

OthersBind(p) ==
  /\ p # 0 /\ PortIsFree(p)
  /\ others' = others \cup {p}
  /\ UNCHANGED <<allocVars, scanVars, lease, listening>>

OthersRelease(p) ==
  /\ p \in others
  /\ others' = others \ {p}
  /\ UNCHANGED <<allocVars, scanVars, lease, listening>>

SpawnStep(s) == Allocate(s) \/ Free(s) \/ Listen(s) \/ Exit(s)

PortStep(p) == OthersBind(p) \/ OthersRelease(p)

Next ==
  \/ \E s \in Spawns : SpawnStep(s) \/ \E p \in Ports : AllocateEphemeral(s, p)
  \/ ScanPort \/ ScanFails
  \/ \E c \in Configs : SetRange(c)
  \/ \E p \in Ports : PortStep(p)

Spec == Init /\ [][Next]_vars

-----------------------------------------------------------------------------
(* Properties. *)

Leased == {s \in Spawns : lease[s] # NoPort}

\* No two spawns hold the same port, and the allocator knows every port that
\* is held and no other (port_alloc.rs: tracking "keeps free() meaningful").
LeasesTracked ==
  /\ \A s, t \in Leased : lease[s] = lease[t] => s = t
  /\ used = {lease[s] : s \in Leased}

\* port_alloc.rs, allocate_range_sync: "allocate a port from the configured
\* range".  A port given to a spawn lies in the range in force.
LeaseInRange ==
  [][\A s \in Spawns :
       lease'[s] # NoPort /\ lease'[s] # lease[s] /\ range # Ephemeral
         => lease'[s] \in range.start..range.end]_vars
=============================================================================
