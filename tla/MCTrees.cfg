SPECIFICATION PartsSpec
CONSTANTS
  r1 = r1
  r2 = r2
  Recorders = {r1}
  Top = {"d", "f"}
  Below <- MCBelow
  Order <- MCOrder
  Values = {"y", "big"}
  Modes = {"rw", "ro"}
  Baselines <- MCBaselines
  MaxEdits = 3
  MaxRefresh = 1
  MaxRecords = 2
CHECK_DEADLOCK FALSE
INVARIANTS
  HistoryKept
  LinksKept
  TableTrue
 
