SPECIFICATION FairSpec
CONSTANTS
  ScheduleEvents <- MCScheduleEvents
  MaxSlot = 7
  MaxSchedules = 3
  ReaderMayLeave = TRUE
INVARIANTS
  TypeOK
  SingleChain
  EveryOpportunityAccounted
  NoSecondVerdict
  RadioKnowsFrequencies
PROPERTIES
  TransmitsBySchedule
  OpportunityServed
