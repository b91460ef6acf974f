SPECIFICATION DevSpec
CONSTANTS
  a = a
  b = b
  x = x
  y = y
  App = {a, b}
  Workloads <- MCWorkloads
  None = None
  Pad = Pad
  Server = {1, 2}
  Lease <- MCLease
  Local = {1, 2, 6}
  Caller = {x, y}
  Name = {8, 9}
  MaxBinds = 2
  ArpSize = 2
  MaxCalls = 2
  RingSize = 3
  Sender = {x, y}
  MaxStored = 7
  MaxSends = 4
  Lba = {1, 2}
  Val = {1, 2}
  NoVal = 0
  NoCall = NoCall
  AqSize = 2
  IoqSize = 2
  MaxPorts = 2
  Madt <- MCMadt
  BspId = 0
  MaxCpus = 8
CHECK_DEADLOCK FALSE
INVARIANT StreamPrefix
 
INVARIANT LeaseConsistent
INVARIANT ResolvesAsked
 
INVARIANT ApsApart
PROPERTY ReadsLastWrite
PROPERTY CallsReturn
