SPECIFICATION Spec
CONSTANTS
  Defaults <- MCDefaults
  Indexes <- MCIndexes
  Keywords <- MCKeywords
  Shapes <- MCShapes
  Archive <- MCArchive
  MaxUInt = 300
  MaxCalls = 3
INVARIANTS
  BuilderTypeOK
  ListedOnce
  RadioAsAsked
