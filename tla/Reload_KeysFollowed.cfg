\* Three edits of three files, and a channel that holds one event.
SPECIFICATION Spec
CONSTANTS
  p1 = p1
  p2 = p2
  Missing = Missing
  Config = Config
  Drm <- AmdCards
  Amd <- AmdCards
  Pci <- AllCards
  Total <- Memory
  Content <- Files
  KeysPath <- NamedKeys
  KeyLines <- Keys
  First = "a"
  QueueCap = 1
  MaxEdits = 3
INVARIANT
  KeysFollowed
