CONSTANTS
  Regions = {r1}
  max_pools = 1
  max_clients_in_pool = 3
  Conn = {s1, s2, s3}
  Bytes = {"nl"}
  Nofile = 3
  MaxSent = 0
  MayReset = FALSE
  MayBlock = FALSE
  EpollCtlMayFail = FALSE
  max_events = 1
  max_line_len = 1
  max_name_len = 1
  nil = nil
  serv = serv
SPECIFICATION FairSpec
PROPERTY QueuedIsServed
CHECK_DEADLOCK FALSE
