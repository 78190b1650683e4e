\* Days of four hours, one change of the clock by one hour at most.
SPECIFICATION Spec
CONSTANTS
  DayLength = 4
  Window = 8
  LastDay = 2
INVARIANTS EveryDayHasRange
CHECK_DEADLOCK FALSE
