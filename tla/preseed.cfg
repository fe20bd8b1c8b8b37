SPECIFICATION PreseedFairSpec
CONSTANTS
  Parts <- OnePart
  Ids <- TwoIds
  EmptyId <- NoId
  Stamps = {1, 2}
  Bodies = {"seed"}
  EmptyBody = "empty"
  NoDoc = NoDoc
  Shards <- OneShard
  FirstRune <- Runes
  Commands <- SeedCommands
  GetKeys <- AnyKey
  MaxLog = 8
  MaxBatch = 2
  MaxShardBatch = 2
  MaxCrash = 0
  NoAnswer = NoAnswer
  NWorkers = 2
  Words <- TwoWords
  Partitions <- Partition
  CreateTime = 1
  UpdateTime = 2
  SkipDelete = FALSE
  DeletePart = FALSE
INVARIANTS  BatchesTakeEffect
PROPERTIES PreseedEnds
