SPECIFICATION MutexSpec
CONSTANTS
  c1 = c1
  c2 = c2
  boot = boot
  a = a
  b = b
  d = d
  i1 = i1
  i2 = i2
  None = None
  Bsp = c1
  Boot = boot
  Ops = {"block", "exit"}
  SleepTicks = {}
  CPU = {c1, c2}
  Thread = {boot, a, b, d, i1, i2}
  Idle <- MCIdle
  Preloaded <- MCPreloadedABD
  Client = {a, b, d}
  Rounds = 1
INVARIANT MutualExclusion
INVARIANT NoStrandedWaiter
CHECK_DEADLOCK FALSE
