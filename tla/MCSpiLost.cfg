SPECIFICATION Spec
CONSTANTS
  NChips = 2
  Erased = 2
  Sectors = 1
  PagesPerSector = 2
  CellsPerPage = 2
  Tasks = {t1}
  MaxWrites = 2
  MaxFaults = 0
  MaxResets = 0
  MaxCommands = 0
PROPERTIES SuccessMeansWritten
CHECK_DEADLOCK FALSE
