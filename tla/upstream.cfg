SPECIFICATION FairSpec
CONSTANTS
  ScheduleEvents <- MCScheduleEvents
  Nodes = {1, 2}
  Self = 1
  Frequency = 1
  InitialFoi <- MCInitialFoi
  NoiseMode = "all"
  NoiseMaxClamp = TRUE
  Precomputed = TRUE
  FixedGain = TRUE
  FadingByEvent = FALSE
  Headers <- MCHeaders
  Requests = {}
  ControlFois <- MCControlFois
  EventNodes = {{2}}
  MaxSlot = 4
  MaxSchedules = 2
  Packets = {1, 2}
  Sender = 2
  Transmissions <- MCTransmissions
  SyncSlots = 1
  ScheduleFrequencies = {0, 1, 2}
  ScheduleBandwidths = {1}
INVARIANTS
  PathTypeOK
  FoiOnItsWay
  QueuedOnce
PROPERTIES
  EveryPacketJudged
  RadioRetuned
  TakenIfDue
