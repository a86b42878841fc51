SPECIFICATION Spec
CONSTANTS
  Area <- MCArea
  Frames <- MCFrames
  Tables <- MCTables
  Modes <- MCModes
  Insns <- MCInsns
  BuffLen = 3
  PoolSz = 4
  SmapNr = 3
  MaxNest = 2
CONSTRAINT Bounds
CHECK_DEADLOCK FALSE
INVARIANTS  StringOnce UartLives DevicesKept RealModeServed
