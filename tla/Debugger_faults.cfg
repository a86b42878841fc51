\* two processes, a page that comes and goes, a cell the VMM cannot reach,
\* code that modifies itself, a client that repeats itself
CONSTANTS
  Space = {1, 2}
  Addr = {1}
  DBG_SOFT_NR = 1
  Byte = {0, 144, 204}
  Code0 <- CodeWithInt3
  Pageable <- PagedCell
  Refused <- RefusedCell
  Writable <- PagedCell
  Habits = {"duplicate", "deleteResumed"}
SPECIFICATION Spec
INVARIANTS LiftedIsStepping TrapsFollowProcess
CHECK_DEADLOCK FALSE
