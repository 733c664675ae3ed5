CONSTANTS
  Tasks <- MCTasks
  Scenarios <- MCScenarios
  Retries = 1
  DropLimit = 1
SPECIFICATION Spec
INVARIANTS DisconnectedIsClean ConnectedIsOpen OneCore NeverSilentlyDead
PROPERTIES DisconnectPrevails
