\* A waiter parks while the waker that could serve it holds another one.
SPECIFICATION Spec
CONSTANTS
  Requests = {r1, r2}
  Instances = {i1}
  ReleaseTask = ReleaseTask
  SpawnTask = SpawnTask
  Autoscaler = Autoscaler
  Reloader = Reloader
  None = None
  Closed = Closed
  MaxConcurrent = 1
  QueueDepth = 1
  MaxInstances = 1
  Admin = {}
INVARIANT
  HeadWaiterServed
