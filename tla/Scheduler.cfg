\* main and two programs, three of them loaded: a slot is used twice.
CONSTANTS
  MAX_TASKS = 3
  LOADS = 3
SPECIFICATION FairSpec
INVARIANTS RunningIsCurrent SuspendedAreResumable MaskedCallsExact
PROPERTIES ImplementsProcesses NobodyStarves
