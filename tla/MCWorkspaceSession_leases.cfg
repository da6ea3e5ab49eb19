SPECIFICATION FairSpec
CONSTANTS
  api = api w1 = w1 w2 = w2
  Apps = {api}
  Wrappers = {w1, w2}
  AppOf <- MCAppOf
  Root = Root
  Prune = Prune
  Nobody = Nobody
  MaxFaults = 1
CHECK_DEADLOCK FALSE
PROPERTIES
  LeasesAreRecovered
