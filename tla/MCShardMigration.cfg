CONSTANTS
  Shards = {s0, s1}
  AppShard = s0
  SetDraining = {s1}
  Ids = {1, 2}
  BatchSize = 1
  MayFail = TRUE
  MaxVersion = 2
  MaxMigrations = 2
SPECIFICATION FairSpec
INVARIANTS
  TypeOK
  OnlyDisturbedRowsAreLost
  DrainingHasACause
PROPERTIES
  MigrationEnds
  RebalanceEnds
CHECK_DEADLOCK FALSE
