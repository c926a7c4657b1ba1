SPECIFICATION Spec
CONSTANTS
  MaxRuns = 2
  MaxWorks = 2
  MaxAttempts = 2
  Token = {1, 2, 3, 4, 5, 6}
  AskedKinds = {"pass"}
  AskedHosts = {"local"}
  s1 = s1
  s2 = s2
  c1 = c1
  Worker = {s1, s2, c1}
  Sets = {"server", "cli"}
  SetOf <- Trio
  Server = "server"
  None = None
  Hazards = {"crash"}
INVARIANTS TypeOK HolderOwnsRow OneSearcherPerRun ExecutionIsNamed AttemptsAreCounted
PROPERTIES ImplementsLifecycle
CHECK_DEADLOCK FALSE
