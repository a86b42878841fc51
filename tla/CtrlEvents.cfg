\* two processes, the cr3 filter, one control register, CPUID and nested faults, polls every other exit
CONSTANTS
  Space = {p, q}
  Rate = 2
  UsrVec = {"PF"}
  Cr = {3}
  Kinds = {"CPUID", "NPF"}
  Leaf = {c0}
  CTRL_CPUID_ALL = all
  DbgVec = {"BP"}
  Filters = {p}
  Habits = {"unmap"}
SPECIFICATION FairSpec
INVARIANTS BitmapAsAsked
PROPERTIES ClientServed PendingDelivered
CHECK_DEADLOCK FALSE
