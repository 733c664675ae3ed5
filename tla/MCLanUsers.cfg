SPECIFICATION FairSpec
CONSTANTS
  ann = ann
  bob = bob
  nobody = nobody
  none = none
  Users <- MCUsers
  Nobody = nobody
  Targets <- MCTargets
  Groups <- MCGroups
  Gone <- MCGone
  Dests <- MCDests
  None = none
  Scenarios <- MCScenarios
INVARIANTS Counted RoutedAsMeant
PROPERTIES Enforced
CHECK_DEADLOCK FALSE
