CONSTANTS
  Runs = {1, 2, 3}
  Configs <- MCConfigs
  ApiKeys <- MCApiKeys
  MaxStarts = 1
SPECIFICATION FairSpec
INVARIANTS
  TypeOK
  ServesMatchingPair
  KeysPrivate
  MarkerBecomesBeta
PROPERTIES
  LoneRunRepairs
  UsableStarts
CHECK_DEADLOCK FALSE
