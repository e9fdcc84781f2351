SPECIFICATION Spec
CONSTANTS
  Nodes = {1, 12}
  Broadcast = 65535
  BetaNum = 1
  BetaDen = 2
  Scale = 8
  PathlossEvents <- MCPathlossEvents
  TornLength = 2
  MaxBacklog <- MCMaxBacklog
  MaxCalls = 3
INVARIANTS
  TypeOK
  ChosenIsHeaviest
  SomeoneServed
  ChoiceAsPromised
  ReportIsLastWeight
PROPERTY WeightsNeverFall
