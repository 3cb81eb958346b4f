SPECIFICATION FairSpec
CONSTANTS
  Nodes = {0, 1, 2, 3, 4, 5}
  FirstCap = 1
  k_max_load_factor = 2
  k_rehashing_work = 1
  hcode <- HashCodes
INVARIANTS
  TablesExact
  GrowthKeepsPace
PROPERTIES
  ImplementsDictionary
  CallsReturn
