CONSTANTS
  Regions = {r1}
  max_pools = 1
  max_clients_in_pool = 2
  Conn = {s1, s2}
  Bytes = {"nl"}
  Nofile = 4
  MaxSent = 1
  MayReset = FALSE
  MayBlock = TRUE
  EpollCtlMayFail = FALSE
  max_events = 1
  max_line_len = 1
  max_name_len = 1
  nil = nil
  serv = serv
SPECIFICATION Spec
INVARIANT ToldOnlyOfMembers
CHECK_DEADLOCK FALSE
