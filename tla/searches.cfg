SPECIFICATION Worlds
CONSTANTS
  Searches = {1, 2}
  MaxVerbs = 3
  MaxRestarts = 1
  Faults = {}
INVARIANTS EnginesAreOwned LiveIsDriven RunnerAgrees
 
CHECK_DEADLOCK FALSE
