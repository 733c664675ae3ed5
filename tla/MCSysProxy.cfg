CONSTANTS
  p1 = p1
  p2 = p2
  corp = corp
  Ports <- MCPorts
  Foreign <- MCForeign
  Absent = Absent
  OurList = OurList
  TheirList = TheirList
  Unknown = Unknown
  NoJournal = NoJournal
  MaxFaults = 1
  MaxEdits = 1
  MaxQueue = 1
  SilentProbe = FALSE
  EarlyConnect = FALSE
SPECIFICATION FairSpec
INVARIANTS Recognised UsersProxyInForce RecordIsUsers
PROPERTIES RecordedFirst DeadProxyRepaired
