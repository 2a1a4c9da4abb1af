\* Two releases and their operators, one target in effect and one to roll back to.
SPECIFICATION ReleasesSpec
CONSTANTS
  Version = {v1, v2}  NoVersion = none  Migrated = {v1, v2}  Operator = {a, b}
  MaxTargets = 2  MaxDate = 0  Ends = {FALSE}
INVARIANT RollbackRecoverable
CHECK_DEADLOCK FALSE
