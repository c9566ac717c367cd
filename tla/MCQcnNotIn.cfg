SPECIFICATION Spec
CONSTANTS
  Statements <- NotInStatements
  Table <- MCTable
  Databases <- RightDatabases
  IgnoreCrash = FALSE
  Mishaps = 0
INVARIANT BugsAreReal
