SPECIFICATION Spec
CHECK_DEADLOCK FALSE
CONSTANTS
  Drivers = {"mysql", "tidb", "sqlite", "postgres", "gaussdb", "cockroach", "yugabyte", "oceanbase", "clickhouse"}
  MaxFaults = 1
  Tables <- JustTable
  Stmts <- OneTable
  Ddl = 1
  MaxTry = 1
  TestNum = 2
  IgnoreCrash = {TRUE, FALSE}
INVARIANTS ReportsAreReal RecordMakesDatabase SessionsBounded CatalogsComplete DumpedShowsBug
PROPERTIES KeepsPromise RoundsEnd
