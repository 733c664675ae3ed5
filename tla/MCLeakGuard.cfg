CONSTANTS
  wifi = wifi
  cable = cable
  Adapters <- MCAdapters
  MaxConnects = 3
  Scenarios <- MCScenarios
  FullEvery = 2
SPECIFICATION FairSpec
INVARIANTS OriginalsKept RulesRecorded DisconnectGivesBack GuardStands
PROPERTIES DriftRepaired
