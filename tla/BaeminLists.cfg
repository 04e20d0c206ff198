SPECIFICATION ListsSpec
CHECK_DEADLOCK FALSE
CONSTANTS
  CalendarDays = 4
  Sizes = {0, 2, 3, 5, 6, 8}
  PageSize = 2
  MaxAttempts = 3
  Retries = 3
  MaxClicks = 2
  Arrivals = 1
  MaxMishaps = 3
INVARIANTS ErrorHasCause NothingMissed SeenDetailed
