SPECIFICATION Spec
CONSTANTS
  PageNr = 3
  PageSize = 4
  SlabNr = 2
  Asked = {0, 2, 3}
  MaxFree = 4
INVARIANTS PagesAccounted CachesSorted
PROPERTY Allocates
