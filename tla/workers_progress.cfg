SPECIFICATION FairSpec
CONSTANTS
  MaxRuns = 1
  MaxWorks = 1
  MaxAttempts = 2
  Token = {1, 2, 3, 4, 5, 6}
  AskedKinds = {"pass"}
  AskedHosts = {"local"}
  s1 = s1
  s2 = s2
  c1 = c1
  Worker = {s1, c1}
  Sets = {"server", "cli"}
  SetOf <- Alone
  Server = "server"
  None = None
  Hazards = {"crash", "cancel"}
PROPERTIES RunsSettle CancelStopsSearch
CHECK_DEADLOCK FALSE
