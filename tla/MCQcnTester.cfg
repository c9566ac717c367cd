SPECIFICATION Spec
CONSTANTS
  Statements <- MCStatements
  Table <- MCTable
  Databases <- MCDatabases
  IgnoreCrash = FALSE
  Mishaps = 1
INVARIANTS
  BugsAreReal
  MinimalShowsTheBug
  MarksAgree
