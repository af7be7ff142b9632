\* A reload maps a GPU index to another PCI slot.
SPECIFICATION HistorySpec
CONSTANTS
  Instances = {i1, i2}
  Gpus = {g1, g2}
  MaxManagers = 1
  Admin = {"remap"}
SYMMETRY Symmetry
INVARIANT
  ReferencesReturned
