CONSTANTS
  wifi = wifi
  cable = cable
  Nets <- MCNets
  NoNet = NoNet
  NoPending = NoPending
  Interval = 3000
  Debounce = 4000
  MaxMoves = 4
  MaxPokes = 2
  MaxStops = 2
SPECIFICATION NwFairSpec
INVARIANTS LockIsTheRuns NothingLost
PROPERTIES ChangesRecovered
