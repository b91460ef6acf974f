SPECIFICATION SpaceSpec
CONSTANTS
  c1 = c1
  c2 = c2
  PageSize = 3
  MaxPages = 10
  LowEnd = 3
  BootInfos <- MCBoot
  Client = {c1, c2}
  Index = {0, 1}
  KernelIndex = {1}
  KernelTable = 0
  Images <- MCImages
  Stack <- MCStack
  MaxLoads = 2
INVARIANT CountExact
INVARIANT HandsOutUsable
INVARIANT OneHolder
INVARIANT PagesAtOnePlace
INVARIANT DestroyFreesItsOwn
INVARIANT LoadedAsAsked
CHECK_DEADLOCK FALSE
SYMMETRY Symmetric
