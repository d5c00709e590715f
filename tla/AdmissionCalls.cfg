SPECIFICATION FairSpec
CONSTANTS
  batch1 = batch1
  batch2 = batch2
  chat1 = chat1
  x = x
  y = y
  NoRequest = NoRequest
  Calls = {batch1, batch2, chat1}
  Requests = {1, 2, 3, 4, 5}
  Scopes = {x, y}
  Conversations <- MCConversations
  ScopeOf <- MCScopeOf
INVARIANTS TypeOK InFlightExact EngineSingleFlight WorkIsOwned
PROPERTIES ScopesAreFreed RefusedOnlyForOverlap
CHECK_DEADLOCK FALSE
