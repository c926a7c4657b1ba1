SPECIFICATION Worlds
CONSTANTS
  MaxRuns = 1
  MaxWorks = 1
  MaxAttempts = 1
  Token = {1, 2}
  AskedKinds = {"asked"}
  AskedHosts = {"runner"}
  MaxLinks = 2
  Slots = 1
  MaxBoards = 0
  MaxFrames = 2
  Faults = {"break", "cancel"}
  e4 = e4
  d4 = d4
  c1 = c1
  w1 = w1
  NoGame = NoGame
PROPERTIES RequestsSettle NothingLingers SearchesObey  ReplyComes
CHECK_DEADLOCK FALSE
