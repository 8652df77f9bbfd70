SPECIFICATION Spec
CONSTANTS
  Streams = {"audio", "video"}
  FrameSlots = 2
  File <- MixedFile
  MinPackets = 0
  MaxPackets = 1
  Loops = 2
  Autoexit = TRUE
  MaxEvents = 1
  SeekTargets = {3}
  Switchable = {"audio"}
CHECK_DEADLOCK FALSE
INVARIANTS StaleAtMostOnce EndIsComplete
PROPERTY PlayerSettles
