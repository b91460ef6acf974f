SPECIFICATION ProcessSpec
CONSTANTS
  c1 = c1
  c2 = c2
  boot = boot
  a = a
  b = b
  d = d
  i1 = i1
  i2 = i2
  None = None
  Bsp = c1
  Boot = boot
  Ops = {"create", "block", "exit", "sleep"}
  SleepTicks = {0, 2}
  CPU = {c1, c2}
  Thread = {boot, a, b, d, i1, i2}
  Idle <- MCIdle
  Preloaded <- MCPreloadedA
  MaxProcs = 2
  MaxPid = 3
  Workloads <- MCWorkloads
INVARIANT NoDanglingProcess
INVARIANT NoLostWaiter
INVARIANT TableSound
INVARIANT ThreadsAccountedFor
CHECK_DEADLOCK FALSE
