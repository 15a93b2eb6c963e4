CONSTANTS
  Keys = {k1, k2}
  Handlers = {h1}
  MaxOffset = 1
  Timeout = 0
  MaxIds = 2
  MaxTime = 1
  MaxFaults = 1
SPECIFICATION Spec
INVARIANTS
  TypeOK
  ToldStands
  ConfiguredApart
PROPERTIES
  AnswersAreStored
  StatusOnlyAdvances
  RegistrySpec
SYMMETRY Symmetric
CHECK_DEADLOCK FALSE
