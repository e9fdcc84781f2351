SPECIFICATION Spec
CONSTANTS
  A = A
  B = B
  Sources = {A, B}
  Stream <- MCStream
  CheckThreshold = 1
  TimeoutThreshold = 2
  FirstSlot = 1
  MaxSlot = 5
  Renumbered = 10
  MaxAggregate = 2
  MaxLost = 1
  MaxChanges = 1
INVARIANT BytesRecorded
