CONSTANTS
  NoStore = NoStore
  Scheduler = scheduler
  Callers = {scheduler, button}
  Stores = {s1}
  UseWorker = TRUE
  MaxJobs = 2
  MaxCrashes = 1
  MaxFaults = 1
SPECIFICATION FairSpec
INVARIANTS ExecutedOnce OpenJobHasOwner OneRunPerStore
PROPERTIES TerminalIsFinal EveryJobEnds
