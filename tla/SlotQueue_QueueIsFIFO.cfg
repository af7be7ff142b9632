\* Two wakers re-park waiters they popped one after the other.
SPECIFICATION OrderSpec
CONSTANTS
  Requests = {r1, r2, r3}
  Instances = {i1}
  ReleaseTask = ReleaseTask
  SpawnTask = SpawnTask
  Autoscaler = Autoscaler
  Reloader = Reloader
  None = None
  Closed = Closed
  MaxConcurrent = 1
  QueueDepth = 3
  MaxInstances = 1
  Admin = {}
INVARIANT
  QueueIsFIFO
