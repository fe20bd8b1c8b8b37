SPECIFICATION StartFairSpec
CONSTANTS
  Processes <- Commands
  Flags <- CommandLines
  Yaml <- ConfigFile
  Unset = Unset
  MaxCrash = 2
INVARIANTS StartNeverRefused BootstrapsAgree 
PROPERTIES EveryNodeRuns
