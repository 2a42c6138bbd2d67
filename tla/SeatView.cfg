SPECIFICATION FairSpec
CONSTANTS
  workbench = workbench
  dock = dock
  Unset = Unset
  Windows = {workbench, dock}
  Opened = TRUE
  MaxTurns = 2
  MaxMessages = 1
  MaxFailures = 1
 
PROPERTY CacheMovesOn
 
