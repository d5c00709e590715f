SPECIFICATION Spec
CONSTANTS
  Stops <- MCStops
  StopTokens = {None, "tail"}
  Minima = {0, 1, 4}
  Budgets = {None, 2}
  MaxTokens = 5
  None = None
INVARIANTS CallsStayWhole StopIsTheFirst SameGrammar LimitsAreExact DeliveredIsFinal
