CONSTANTS
  Regions = {r1}
  max_pools = 1
  max_clients_in_pool = 2
  Conn = {s1}
  Bytes = {"char", "nl", "cr"}
  Nofile = 4
  MaxSent = 6
  MayReset = TRUE
  MayBlock = FALSE
  EpollCtlMayFail = FALSE
  max_events = 2
  max_line_len = 3
  max_name_len = 2
  nil = nil
  serv = serv
SPECIFICATION Spec
INVARIANTS
  AnnouncementsPaired
  BuffersBounded
  LinesIntact
CHECK_DEADLOCK FALSE
