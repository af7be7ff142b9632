\* Two instances on two GPUs and a new manager; everything may overlap.
SPECIFICATION HistorySpec
CONSTANTS
  Instances = {i1, i2}
  Gpus = {g1, g2}
  MaxManagers = 2
  Admin = {"overlap", "race", "early", "remap"}
SYMMETRY Symmetry
INVARIANTS
  CountUnlessAstray
  EveryUserCounted
  TaskUnlessTangled
