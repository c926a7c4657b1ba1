SPECIFICATION Spec
CONSTANTS
  MaxRuns = 1
  MaxWorks = 2
  MaxAttempts = 2
  Token = {1, 2, 3, 4, 5, 6}
  AskedKinds = {"pass"}
  AskedHosts = {"local"}
  s1 = s1
  s2 = s2
  c1 = c1
  Worker = {s1, s2}
  Sets = {"server"}
  SetOf <- Pair
  Server = "server"
  None = None
  Hazards = {"cancel", "pause", "stop", "suspend"}
PROPERTIES LeavesNothingRunning
CHECK_DEADLOCK FALSE
