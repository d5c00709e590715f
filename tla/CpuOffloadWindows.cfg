SPECIFICATION Spec
CONSTANTS
  a1 = a1  a2 = a2  a3 = a3
  r1 = r1  r2 = r2  r3 = r3
  NoRequest = NoRequest
  Requests = {r1, r2}
  Agents = {a1, a2}
  AgentOf <- TwoAgents
  Keys = {1, 2}
  OffloadKeys <- OnePrefix
  Content <- WindowContent
  NumBlocks = 2
INVARIANTS RetainedServable TransfersPinRows CompleteRowsAreWhole
\* Every request may have finished.
CHECK_DEADLOCK FALSE
