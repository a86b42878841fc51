SPECIFICATION Spec
CONSTANTS
  RmodeLimit = 83
  Limits = {1023, 2047}
  EventTypes = {"HW_INT", "SW_INT", "HW_EXCP"}
INVARIANTS EntryAccepted IdtLimitKept EventsAccounted StepKept
CHECK_DEADLOCK FALSE
