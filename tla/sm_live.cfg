SPECIFICATION FairSpec
CONSTANTS
  Parts <- AllParts
  Ids <- OneId
  EmptyId <- NoId
  Stamps = {1}
  Bodies = {"v"}
  EmptyBody = "empty"
  NoDoc = NoDoc
  Shards <- TwoShards
  FirstRune <- RuneOf
  Commands <- LiveCommands
  MaxLog = 3
  MaxBatch = 2
  MaxShardBatch = 1
  MaxCrash = 1
  NoAnswer = NoAnswer
PROPERTIES EveryProposalAnswered SyncTerminates
