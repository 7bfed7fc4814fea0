CONSTANTS
  Regions = {r1, r2, r3, r4}
  max_pools = 3
  max_clients_in_pool = 2
SPECIFICATION PoolsSpec
INVARIANTS
  PoolsTypeOK
  FiledIffMapped
  CountersMatchLists
  ChunksAccounted
  NoEmptySparePool
  RejectOnlyWhenFull
PROPERTY AllocatorSpec
CHECK_DEADLOCK FALSE
