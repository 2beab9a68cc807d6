CONSTANTS
  Runs = {1}
  Configs <- MCConfigs
  ApiKeys <- MCApiKeys
  MaxStarts = 1
SPECIFICATION FairSpec
PROPERTY CredentialsStart
CHECK_DEADLOCK FALSE
