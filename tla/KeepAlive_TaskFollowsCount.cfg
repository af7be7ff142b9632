\* An instance lands on a GPU while the last one leaves it.
SPECIFICATION HistorySpec
CONSTANTS
  Instances = {i1, i2}
  Gpus = {g1}
  MaxManagers = 1
  Admin = {"overlap"}
SYMMETRY Symmetry
INVARIANT
  TaskFollowsCount
