SPECIFICATION Spec
CONSTANTS
  TicksPerHour = 2
  HoursPerDay = 2
  RawHours = 1
  HourlyDays = 1
  DailyDays = 3
  MaxTime = 10
  MaxOthers = 1
PROPERTY DailyKeepsItsHours
