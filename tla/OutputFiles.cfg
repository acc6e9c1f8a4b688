SPECIFICATION Spec
CONSTANTS
  TaskCount = 2
  BatchCount = 2
  MaxRuns = 2
INVARIANTS
  TypeOK
  ExitZeroLacksOnlyUnread
  LossIsReportedUnlessUnread
PROPERTIES
  WholeStaysUnlessUnread
\* The last run of the program ends.
CHECK_DEADLOCK FALSE
