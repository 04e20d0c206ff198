CONSTANTS
  NoStore = NoStore
  Scheduler = scheduler
  Callers = {scheduler, button}
  Stores = {s1}
  UseWorker = FALSE
  MaxJobs = 3
  MaxCrashes = 1
  MaxFaults = 0
SPECIFICATION Spec
PROPERTIES ImplementsGate
