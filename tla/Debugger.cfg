CONSTANTS
  Space = {1}
  Addr = {1, 2, 3}
  DBG_SOFT_NR = 2
  Byte = {0, 144, 204}
  Code0 <- PlainCode
  Pageable = {}
  Refused = {}
  Writable = {}
  Habits = {}
SPECIFICATION Spec
INVARIANTS NoMissedBreak DetachedClean TableInv
