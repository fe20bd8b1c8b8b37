SPECIFICATION Spec
CONSTANTS
  Parts <- AllParts
  Ids <- OddIds
  EmptyId <- NoId
  Stamps = {1}
  Bodies = {"v"}
  EmptyBody = "empty"
  NoDoc = NoDoc
  Shards <- TwoShards
  FirstRune <- RuneOf
  Commands <- ShardCommands
  MaxLog = 4
  MaxBatch = 3
  MaxShardBatch = 2
  MaxCrash = 1
  NoAnswer = NoAnswer
INVARIANTS TypeOK NoReplayGap PendingOrdered
