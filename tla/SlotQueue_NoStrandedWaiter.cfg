\* A waiter is in a waker's hands while the queue is drained.
SPECIFICATION Spec
CONSTANTS
  Requests = {r1, r2}
  Instances = {i1}
  ReleaseTask = ReleaseTask
  SpawnTask = SpawnTask
  Autoscaler = Autoscaler
  Reloader = Reloader
  None = None
  Closed = Closed
  MaxConcurrent = 1
  QueueDepth = 1
  MaxInstances = 1
  Admin = {"unload"}
INVARIANT
  NoStrandedWaiter
