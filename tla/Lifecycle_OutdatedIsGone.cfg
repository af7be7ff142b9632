\* Two instances over time, two ports, three events.
SPECIFICATION Spec
CONSTANTS
  i1 = i1
  i2 = i2
  p1 = p1
  p2 = p2
  v1 = v1
  v2 = v2
  None = None
  Instances = {i1, i2}
  Ports = {p1, p2}
  Versions = {v1}
  MaxInstances = 1
  CrashLimit = 2
  MaxEvents = 3
SYMMETRY Symmetry
INVARIANT
  OutdatedIsGone
