SPECIFICATION SchedSpec
CONSTANT ScheduleEvents <- MCScheduleEvents
INVARIANT ScheduleInPlace
PROPERTY ImplementsPlan
