SPECIFICATION AtomicSpec
CONSTANTS
  z = z
  x = x
  p1 = p1
  p2 = p2
  Pipes <- MCPipes
  Cap = 3
  Byte = {z, x}
  Zero = z
  MaxLen = 4
  Proc = {p1, p2}
  Login = p1
  Id = {0, 1, 2}
  Program <- MCProgram
  Hdr = 1
  Align = 2
  PageSize = 8
  MaxPages = 3
  Wrap = 64
  Sizes <- MCSizes
PROPERTY ImplementsFifo
INVARIANT UserIdsBounded
PROPERTY DropIsPermanent
INVARIANT HeapSound
INVARIANT AllocationsFit
