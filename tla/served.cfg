SPECIFICATION Worlds
CONSTANTS
  MaxRuns = 2
  MaxWorks = 2
  MaxAttempts = 2
  Token = {1, 2}
  AskedKinds = {"asked"}
  AskedHosts = {"runner"}
  MaxNodes = 2
  MaxSearches = 2
  MaxStages = 1
  Marks = {}
  Faults = {"clear"}
  k1 = k1
  k2 = k2
  k3 = k3
  e1 = e1
  h1 = h1
  h2 = h2
  h3 = h3
  Nobody = Nobody
  Reaper = Reaper
  Withdrawer = Withdrawer
  Unset = Unset
  NoSlot = NoSlot
  a = a
  b = b
  r1 = r1
  b1 = b1
  m1 = m1
  None = None
PROPERTIES SpinnersEnd PoolServesEveryone TabAnswers BoardSettles
CHECK_DEADLOCK FALSE
