CONSTANTS
  Regions = {r1}
  max_pools = 1
  max_clients_in_pool = 2
  Conn = {s1, s2}
  Bytes = {"nl"}
  Nofile = 4
  MaxSent = 3
  MayReset = FALSE
  MayBlock = FALSE
  EpollCtlMayFail = FALSE
  max_events = 2
  max_line_len = 2
  max_name_len = 1
  nil = nil
  serv = serv
SPECIFICATION FairSpec
PROPERTIES
  AlwaysBackToWait
  QueuedIsServed
  SentIsRead
  HangupEndsSession
CHECK_DEADLOCK FALSE
