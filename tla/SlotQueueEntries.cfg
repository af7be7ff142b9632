\* Three requests contend for the one slot of one instance.
SPECIFICATION Spec
CONSTANTS
  Requests = {r1, r2, r3}
  Instances = {i1}
  ReleaseTask = ReleaseTask
  SpawnTask = SpawnTask
  Autoscaler = Autoscaler
  Reloader = Reloader
  None = None
  Closed = Closed
  MaxConcurrent = 1
  QueueDepth = 2
  MaxInstances = 2
  Admin = {"unload", "crash"}
SYMMETRY Symmetry
INVARIANTS
  EntryUnique
  WaiterHasEntry
  NoLeakedSlot
