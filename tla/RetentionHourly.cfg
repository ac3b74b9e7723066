SPECIFICATION Spec
CONSTANTS
  TicksPerHour = 2
  HoursPerDay = 2
  RawHours = 2
  HourlyDays = 2
  DailyDays = 3
  MaxTime = 9
  MaxOthers = 1
PROPERTY HourlyKeepsItsSamples
