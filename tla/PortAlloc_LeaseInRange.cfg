\* The range ends with the last port of all.
SPECIFICATION HistorySpec
CONSTANTS
  Spawns = {s1, s2}
  Configs <- LastPorts
  Ephemeral = Ephemeral
  MaxPort = 3
  NoPort = NoPort
  Nobody = Nobody
PROPERTY
  LeaseInRange
