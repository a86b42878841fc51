SPECIFICATION MCSpec
CONSTANTS
  Addr = {1, 2}
  Code = {1, 2}
  Value = {1, 2}
  Hard <- MCHard
  Slot = {0}
  DBG_SOFT_NR = 2
  Events = {"npf"}
  Explicit = {"n"}
  Autos <- MCAutos
  MaxStops = 2
INVARIANTS RegsCoherent StopHandled BreaksAgree
PROPERTY StopReturns
