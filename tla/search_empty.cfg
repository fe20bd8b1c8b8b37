SPECIFICATION SearchSpec
CONSTANTS
  Parts <- OnePart
  Ids <- OneId
  EmptyId <- NoId
  Stamps = {1, 2}
  Bodies = {"v"}
  EmptyBody = "empty"
  NoDoc = NoDoc
  Shards <- OneShard
  FirstRune <- RuneOf
  Commands <- RetryCommands
  SearchParts <- OnePart
  MaxLog = 3
  MaxBatch = 1
  MaxShardBatch = 1
  MaxCrash = 0
  NoAnswer = NoAnswer
INVARIANTS SearchFinds
