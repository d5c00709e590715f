SPECIFICATION Spec
CONSTANTS
  a1 = a1  a2 = a2  a3 = a3
  r1 = r1  r2 = r2  r3 = r3
  NoRequest = NoRequest
  Requests = {r1, r2, r3}
  Agents = {a1, a2, a3}
  AgentOf <- OneTurnEach
  Keys = {1, 2, 3, 4}
  OffloadKeys <- SharedHead
  Content <- PlainContent
  NumBlocks = 2
INVARIANTS ReferencesExact RetainedBounded
PROPERTIES OnlyOwnTurnIsReplaced ContextsKeepTheirData PressureReleasesWholeAgents
\* Every request may have finished.
CHECK_DEADLOCK FALSE
