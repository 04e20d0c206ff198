SPECIFICATION Spec
CONSTANTS
  MaxTime = 2
  MaxIssues = 2
  MaxFailures = 2
  Purposes = {"email", "password_reset"}
  Cooldown = 1
  TTL = 1
  MaxAttempts = 2
  MaxLogins = 2
  Window = 1
  None = None
INVARIANTS UsersCanReturn LastMailWorks
PROPERTY RefusalHasCause
CHECK_DEADLOCK FALSE
