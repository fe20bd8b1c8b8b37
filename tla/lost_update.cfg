SPECIFICATION Spec
CONSTANTS
  Parts <- OnePart
  Ids <- OneId
  EmptyId <- NoId
  Stamps = {1, 2}
  Bodies = {"v"}
  EmptyBody = "empty"
  NoDoc = NoDoc
  Shards <- OneShard
  FirstRune <- RuneOf
  Commands <- DocCommands
  MaxLog = 4
  MaxBatch = 2
  MaxShardBatch = 2
  MaxCrash = 0
  NoAnswer = NoAnswer
PROPERTIES OptimisticLock
