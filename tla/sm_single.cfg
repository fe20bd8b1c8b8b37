SPECIFICATION Spec
CONSTANTS
  Parts <- OnePart
  Ids <- OneId
  EmptyId <- NoId
  Stamps = {1, 2}
  Bodies = {"v"}
  EmptyBody = "empty"
  NoDoc = NoDoc
  Shards <- OneShard
  FirstRune <- RuneOf
  Commands <- DocCommands
  MaxLog = 4
  MaxBatch = 1
  MaxShardBatch = 1
  MaxCrash = 1
  NoAnswer = NoAnswer
INVARIANTS SyncNeverPanics IndexHealedByReplay
PROPERTIES ImplementsDocStore DecidesAsIfFlushed
