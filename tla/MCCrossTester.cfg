SPECIFICATION Spec
CHECK_DEADLOCK FALSE
CONSTANTS
  Cases <- TwoPaths
  Worlds <- SomeWorlds
  MaxFaults = 2
  DbTestTime = 2
  IgnoreCrash = {TRUE, FALSE}
INVARIANTS ConfirmedIsReal ReportShowsOriginals MinimizedShowsBug MinimizedIsMinimal
PROPERTIES RoundsEnd
