SPECIFICATION Worlds
CONSTANTS
  MaxRuns = 3
  MaxWorks = 3
  MaxAttempts = 1
  Token = {1, 2}
  AskedKinds = {"asked"}
  AskedHosts = {"runner"}
  MaxNodes = 3
  MaxSearches = 3
  MaxStages = 1
  Marks = {}
  Faults = {}
INVARIANTS TablesAgreeInWorlds OneLiveTaskPerNodeInWorlds ExpandsWhatIsOwed
PROPERTIES EndedStaysEndedInWorlds
CHECK_DEADLOCK FALSE
