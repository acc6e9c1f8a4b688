\* Table 1 as partition files by two workers, table 2 to a single file.
CONSTANTS
  w1 = w1
  w2 = w2
  Workers = {w1, w2}
  PartCount = 2
  TableCount = 2
  FilesTable = 1
  MaxRows = 2
  PoolSizes = {1, 2}
SPECIFICATION ProgramFairSpec
INVARIANTS ProgramTypeOK NoPartTwice SuccessIsAll DisplayTruthful EntriesTruthful ExitCodeTruthful
PROPERTY ProgramEnds
CHECK_DEADLOCK FALSE
