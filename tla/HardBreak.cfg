\* two processes with the cr3 filter, or one whose code uses the debug
\* registers itself across sessions; soft breakpoints are stepped over
CONSTANTS
  Space = {p, q}
  Addr = {a, b}
  DBG_HARD_BRK_NR = 1
  SoftAt = {a, b}
  GuestAddr = {a, b}
  GuestDr7 <- SomeDr7
SPECIFICATION Spec
INVARIANTS OthersUnarmed HardInv
CONSTRAINT Apart
