SPECIFICATION Worlds
CONSTANTS
  k1 = k1
  k2 = k2
  k3 = k3
  x = x
  h1 = h1
  h2 = h2
  h3 = h3
  Caller = {k1, k2, k3}
  Engine = {x}
  Slot = {h1, h2, h3}
  Nobody = Nobody
  Reaper = Reaper
  Withdrawer = Withdrawer
  NoEngine = NoEngine
  NoSlot = NoSlot
  FirstCap = 2
  MaxCap = 3
  Instances <- TwoProcesses
  Faults = {"raise", "cancel", "detach", "resize", "reserve"}
INVARIANTS PermitsAddUp 
SYMMETRY Alike
CHECK_DEADLOCK FALSE
