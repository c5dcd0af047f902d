CONSTANTS
  Networks = {1, 2, 3}
  Bridge = 2
  Suffixed = {1, 3}
  SuffixLabel = 4
  Situations <- MCSituations
  MaxChanges = 2
SPECIFICATION Spec
INVARIANTS TypeOK StaysInCatalog EventsNameAService ChecksReachContainer
PROPERTIES StableAddresses
