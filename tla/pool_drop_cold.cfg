SPECIFICATION Spec
CONSTANTS
  a = a
  b = b
  c = c
  x = x
  y = y
  s1 = s1
  s2 = s2
  s3 = s3
  Caller = {a, b}
  Engine = {x}
  Slot = {s1, s2}
  Nobody = Nobody
  Reaper = Reaper
  Withdrawer = Withdrawer
  NoEngine = NoEngine
  NoSlot = NoSlot
  FirstCap = 2
  MaxCap = 2
  Instances <- OneProcess
  Faults = {"cancel", "reap"}
INVARIANTS EveryProcessIsKept

CHECK_DEADLOCK FALSE
