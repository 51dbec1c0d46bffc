SPECIFICATION FairSpec
CONSTANTS
  Procs = {p1, p2, p3}
  NUM = 8
  RING = 2
  IDX = 4
  None = None
INVARIANTS DescriptorsOwned
PROPERTIES DoneMeansServed RequestCompletes AllocatorWoken
