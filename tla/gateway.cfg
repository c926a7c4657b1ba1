SPECIFICATION Worlds
CONSTANTS
  MaxRuns = 2
  MaxWorks = 2
  MaxAttempts = 1
  Token = {1, 2, 3}
  AskedKinds = {"asked"}
  AskedHosts = {"runner"}
  MaxLinks = 2
  Slots = 1
  MaxBoards = 1
  MaxFrames = 2
  Faults = {}
INVARIANTS SlotsHoldInWorlds NoForeignEvals NothingIsDropped CancelSparesHeldInWorlds
PROPERTIES DoneIsFinalInWorlds
CHECK_DEADLOCK FALSE
