SPECIFICATION FairSpec
CONSTANTS
  home = home
  work = work
  fibre = fibre
  mobile = mobile
  None = None
  Servers <- MCServers
  Links <- MCLinks
  Cap <- MCCap
  SaveEvery = 2
  Scenarios <- MCScenarios
CHECK_DEADLOCK FALSE
INVARIANTS EveryByteOnce CleanMeansSaved HeldToWhatRuns
PROPERTY CapsFollowed
