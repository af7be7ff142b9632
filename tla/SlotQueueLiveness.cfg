\* Two requests and one instance; no symmetry, the properties are leads-to.
SPECIFICATION Spec
CONSTANTS
  Requests = {r1, r2}
  Instances = {i1}
  ReleaseTask = ReleaseTask
  SpawnTask = SpawnTask
  Autoscaler = Autoscaler
  Reloader = Reloader
  None = None
  Closed = Closed
  MaxConcurrent = 1
  QueueDepth = 2
  MaxInstances = 1
  Admin = {"stale", "autoscale"}
PROPERTIES
  EveryRequestAnswered
  RetiredLeaves
