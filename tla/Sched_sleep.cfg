SPECIFICATION Spec
CONSTANTS
  c1 = c1
  c2 = c2
  boot = boot
  a = a
  b = b
  i1 = i1
  i2 = i2
  None = None
  CPU = {c1, c2}
  Thread = {boot, a, b, i1, i2}
  Bsp = c1
  Boot = boot
  Idle <- MCIdle
  Preloaded <- MCPreloadedA
  Ops = {"sleep"}
  SleepTicks = {0, 1}
INVARIANT OneCpuPerThread
CHECK_DEADLOCK FALSE
