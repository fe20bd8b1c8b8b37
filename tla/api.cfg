SPECIFICATION ApiFairSpec
CONSTANTS
  Empty = ""
  Exit = "exit"
  Numerals <- NumberTokens
  Int64 = {"2", "3", "9"}
  Uint64 = {"2", "3", "9", "99"}
  Braced = {"{d}", "{bad}"}
  Objects = {"{d}"}
  Clients = {"human", "other"}
  Interactive = {"human"}
  Inputs <- Messages
  InitialNodes <- ThreeNodes
  ValueOf <- Values
  MaxCalls = 3
INVARIANTS ValidatedIsParsed AnsweredChangesTookEffect
  
CHECK_DEADLOCK FALSE
