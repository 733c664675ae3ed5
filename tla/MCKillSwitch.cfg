SPECIFICATION KsFairSpec
CONSTANTS
  home = home
  work = work
  off = off
  Ids <- MCIds
  NoId = off
  Callers <- MCCallers
  Scenarios <- MCScenarios
CONSTRAINT FewPasses
INVARIANTS CoveredHolds OffIsOpen
PROPERTIES Rearmed
