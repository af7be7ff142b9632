\* Three spawns, two ranges that overlap, and the ephemeral mode.
SPECIFICATION HistorySpec
CONSTANTS
  Spawns = {s1, s2, s3}
  Configs <- Mixed
  Ephemeral = Ephemeral
  MaxPort = 4
  NoPort = NoPort
  Nobody = Nobody
SYMMETRY Symmetry
INVARIANTS
  TrackedWithoutOs
  ScanIsExhaustive
PROPERTY
  LeaseInRange
