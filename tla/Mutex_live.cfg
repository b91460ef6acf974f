SPECIFICATION MutexFairSpec
CONSTANTS
  c1 = c1
  c2 = c2
  boot = boot
  a = a
  b = b
  d = d
  i1 = i1
  i2 = i2
  None = None
  Bsp = c1
  Boot = boot
  Ops = {"block", "exit"}
  SleepTicks = {}
  CPU = {c1}
  Thread = {boot, a, b, i1}
  Idle <- MCIdle1
  Preloaded <- MCPreloadedAB
  Client = {a, b}
  Rounds = 1
PROPERTY AllRoundsDone
CHECK_DEADLOCK FALSE
