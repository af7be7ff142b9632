\* Both timeouts are set; the backend may hang wherever one of them runs.
SPECIFICATION Spec
CONSTANTS
  Chunks = 2
  IdleSecs = 300
  TotalSecs = 600
  Hangs <- LimitedWaits
INVARIANTS
  TypeOK
  ForwardedInOrder
  NeverSilentlyTruncated
  RecordIsTrue
PROPERTY
  SlotReturned
