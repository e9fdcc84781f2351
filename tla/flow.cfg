SPECIFICATION Spec
CONSTANTS
  Nodes = {1, 2}
  Sizes = {1, 3}
  Classes = {0, 3}
  Slots <- MCSlots
  Configs <- MCConfigs
  MaxTokens = 2
  QueueDepth = 2
  MaxPackets = 3
INVARIANTS
  TypeOK
  TokensAccounted
  WithinSlot
  HighestPriorityFirst
  AddressedAsChosen
