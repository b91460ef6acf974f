SPECIFICATION FairPipeline
CONSTANTS
  shell = shell
  cat = cat
  grep = grep
  wc = wc
  a = a
  b = b
  c = c
  Root = shell
  Byte = {a, b, c}
  MaxLen = 2
  Cap = 1
  MaxFds = 7
  Files <- MCTwoSlots
  Socks <- MCOneSlot
  Pipes <- MCTwoSlots
  Workloads <- MCWorkloads
  Proc = {shell, cat, grep, wc}
  Stages <- MCThree
  Message <- MCShort
INVARIANT SlotsExclusive
INVARIANT PipeEndsExact
INVARIANT DeliversPrefix
 
CHECK_DEADLOCK FALSE
