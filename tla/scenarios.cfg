SPECIFICATION FairSpec
CONSTANTS
  None = None
  ToRun <- AllScenarios
  RoundSteps = 5
  MaxFails = 1
  MaxCrashes = 1
INVARIANTS TypeOK RestoredAfterSuccess SimsHaveTheirStart
PROPERTIES EveryScenarioRuns
CHECK_DEADLOCK FALSE
