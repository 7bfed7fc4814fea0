CONSTANTS
  Lines = {1, 2, 255, 511, 512}
  Stamps = {11, 12}
  Unsigned = 65536
  max_buf = 2048
  Prints <- OwnFormats
  Values = {0, 1, 133, 4095}
  Arenas = {12, 24, 36}
  page_size = 6
  client_size = 3
  max_pools = 2
  max_clients_in_pool = 2
  data = data
  unmapped = unmapped
  lost = lost
SPECIFICATION LayoutSpec
INVARIANTS
  MessagesWhole
  FormatBounded
  
  ErrorsTold
  FieldsKept
PROPERTY PoolsSpec
CHECK_DEADLOCK FALSE
