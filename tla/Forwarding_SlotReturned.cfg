\* The backend sends the headers of an error, and then nothing.
SPECIFICATION Spec
CONSTANTS
  Chunks = 1
  IdleSecs = 300
  TotalSecs = 600
  Hangs <- ErrorBodies
PROPERTY
  SlotReturned
