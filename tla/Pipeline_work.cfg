SPECIFICATION PipelineSpec
CONSTANTS
  shell = shell
  cat = cat
  grep = grep
  wc = wc
  a = a
  b = b
  c = c
  Root = shell
  Byte = {a, b, c}
  MaxLen = 2
  Cap = 1
  MaxFds = 7
  Files <- MCTwoSlots
  Socks <- MCOneSlot
  Pipes <- MCTwoSlots
  Workloads <- MCPiped
  Proc = {shell, cat, wc}
  Stages <- MCTwo
  Message <- MCMessage
INVARIANT PipelineDelivers
