\* A model of two GPUs whose pool names one card twice gets it for both.
SPECIFICATION HistorySpec
CONSTANTS
  small = small
  large = large
  i1 = i1
  i2 = i2
  i3 = i3
  i4 = i4
  r1 = r1
  r2 = r2
  r3 = r3
  None = None
  Autoscaler = Autoscaler
  ReleaseTask = ReleaseTask
  Models = {small, large}
  Instances = {i1, i2, i3}
  Requests = {r1, r3}
  Config <- Twice
  SlotOf <- Cards
  Limit <- Limits
  Total <- Totals
  Route <- Mixed
  Surplus = {small}
  MaxTurns = 2
SYMMETRY Symmetry
INVARIANT
  NoOversubscription
