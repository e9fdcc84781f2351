SPECIFICATION FairSpec
CONSTANTS
  A = A
  B = B
  Sources = {A, B}
  Stream <- MCStream
  CheckThreshold = 1
  TimeoutThreshold = 1
  FirstSlot = 1
  MaxSlot = 4
  Renumbered = 10
  MaxAggregate = 2
  MaxLost = 1
  MaxChanges = 1
INVARIANTS
  RxTypeOK
  EveryComponentAccounted
  DeliveredOnce
  DeliveredWhole
  PendingHasCallback
PROPERTIES
  PendingResolved
  DroppedOnlyIfLate
  JudgedAfterItsSlot
