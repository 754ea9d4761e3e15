SPECIFICATION PolledSpec
CONSTANTS
  f = f  g = g
  Flow = {f, g}
  Like <- MCLike
  QueryTimeout = 1
  MaxPackets = 3
  JunkId = {0, 1}
INVARIANTS HeldIsQueried
PROPERTIES DropJustified PolledPacketsDecided
