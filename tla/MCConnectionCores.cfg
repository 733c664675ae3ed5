CONSTANTS
  Tasks <- MCTasks
  Scenarios <- PlainSwitches
  Retries = 1
  DropLimit = 1
SPECIFICATION Spec
INVARIANT OneCore
