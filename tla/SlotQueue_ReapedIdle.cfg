\* An instance is listed as drained, becomes Ready, and serves a request.
SPECIFICATION Spec
CONSTANTS
  Requests = {r1}
  Instances = {i1}
  ReleaseTask = ReleaseTask
  SpawnTask = SpawnTask
  Autoscaler = Autoscaler
  Reloader = Reloader
  None = None
  Closed = Closed
  MaxConcurrent = 1
  QueueDepth = 1
  MaxInstances = 1
  Admin = {"stale", "autoscale"}
PROPERTY
  ReapedIdle
