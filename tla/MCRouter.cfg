SPECIFICATION ChosenSpec
CONSTANTS
  home = home
  work = work
  nothing = nothing
  c1 = c1
  c2 = c2
  c3 = c3
  none = none
  Ids <- MCIds
  NoId = nothing
  Slots <- MCSlots
  NoSlot = none
  Callers <- MCCallers
  Scenarios <- MCScenarios
INVARIANTS OffIsDown NeverLeftDead ArmedFirst
PROPERTIES Healed SwitchKept
CHECK_DEADLOCK FALSE
