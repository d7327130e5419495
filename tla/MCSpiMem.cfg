SPECIFICATION Spec
CONSTANTS
  NChips = 2
  Erased = 2
  Sectors = 2
  PagesPerSector = 2
  CellsPerPage = 2
  Tasks = {t1, t2}
  MaxWrites = 2
  MaxFaults = 1
  MaxResets = 1
  MaxCommands = 1
SYMMETRY TaskSymmetry
INVARIANTS SpiMemInv NeverAnded FirstWriteStored
PROPERTIES WrittenOnce
CHECK_DEADLOCK FALSE
