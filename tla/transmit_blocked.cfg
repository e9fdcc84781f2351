SPECIFICATION Spec
CONSTANTS
  ScheduleEvents <- MCScheduleEvents
  MaxSlot = 6
  MaxSchedules = 2
  ReaderMayLeave = TRUE
INVARIANT SentInSlot
