SPECIFICATION BackfillSpec
CHECK_DEADLOCK FALSE
CONSTANTS
  LastDay = 12
  Start = 7
  MonthLen = 3
  Settle = 2
  Margin = 1
  OrderDays = 6
  DepositDays = 8
  DetailDays = 4
  Snapshot = 3
  PageDays = 2
  Closures = {{8, 9}}
  Ahead = 2
  MaxGap = 2
  MaxFailures = 1
  MaxFlawed = 1
  MaxMissed = 2
INVARIANTS NothingSkipped SalesClosed ClicksKept
