SPECIFICATION LookupSpec
CONSTANTS
  Parts <- AllParts
  Ids <- OneId
  EmptyId <- NoId
  Stamps = {1, 2}
  Bodies = {"v"}
  EmptyBody = "empty"
  NoDoc = NoDoc
  Shards <- OneShard
  FirstRune <- RuneOf
  Commands <- ReadCommands
  GetKeys <- ReadKeys
  MaxLog = 4
  MaxBatch = 1
  MaxShardBatch = 1
  MaxCrash = 0
  NoAnswer = NoAnswer
INVARIANTS LookupTypeOK ReadIsCurrent
