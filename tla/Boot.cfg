SPECIFICATION Spec
CONSTANTS
  Fan = 2
  Pml4Entries = 2
  Machines <- AllMachines
  Probes = {0, 9}
  LowMem = 1
  Top4G = 8
  MinRam = 3
  Unit = 24
  IommuGigs = 2
  ClientRanges <- Ranges
  ClientAttrs <- Attrs
  MaxOps = 2
INVARIANTS AreaProtected TablesSound MemoryAsMtrrs
PROPERTY RangeExact
CHECK_DEADLOCK FALSE
