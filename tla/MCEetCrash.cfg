SPECIFICATION Spec
CHECK_DEADLOCK FALSE
CONSTANTS
  Drivers = {"mysql"}
  MaxFaults = 1
  Tables <- JustTable
  Stmts <- OneTable
  Ddl = 1
  MaxTry = 1
  TestNum = 1
  IgnoreCrash = {TRUE}
PROPERTY CrashIsSkipped
