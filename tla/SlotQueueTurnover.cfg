\* Two requests, and two instances that replace one another.
SPECIFICATION Spec
CONSTANTS
  Requests = {r1, r2}
  Instances = {i1, i2}
  ReleaseTask = ReleaseTask
  SpawnTask = SpawnTask
  Autoscaler = Autoscaler
  Reloader = Reloader
  None = None
  Closed = Closed
  MaxConcurrent = 1
  QueueDepth = 2
  MaxInstances = 2
  Admin = {"reload"}
SYMMETRY Symmetry
INVARIANTS
  TypeOK
  CapacityRespected
  SlotConservation
PROPERTIES
  ImplementsPool
