SPECIFICATION Spec
CONSTANTS
  home = home
  work = work
  nothing = nothing
  c1 = c1
  c2 = c2
  c3 = c3
  none = none
  Ids <- MCIds
  NoId = nothing
  Slots <- MCSlots
  NoSlot = none
  Callers <- MCCallers
  Scenarios <- MCScenarios
INVARIANT OffIsOff
CHECK_DEADLOCK FALSE
