SPECIFICATION SnapSpec
CONSTANTS
  Parts <- TwoParts
  Ids <- OneId
  EmptyId <- NoId
  Stamps = {1}
  Bodies = {"v"}
  EmptyBody = "empty"
  NoDoc = NoDoc
  NoSnap = NoSnap
  Shards <- TwoShards
  FirstRune <- RuneOf
  Commands <- SnapCommands
  MaxLog = 3
  MaxBatch = 1
  MaxShardBatch = 1
  MaxCrash = 0
  NoAnswer = NoAnswer
PROPERTIES BootstrapIsExact
