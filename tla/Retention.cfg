SPECIFICATION Spec
CONSTANTS
  TicksPerHour = 2
  HoursPerDay = 3
  RawHours = 2
  HourlyDays = 1
  DailyDays = 1
  MaxTime = 7
  MaxOthers = 1
INVARIANTS
  TypeOK
  RunCoversClosedDays
  HistoryOfADay
PROPERTIES
  LossNeedsLongOutage
  YoungBucketsOnlyGrow
