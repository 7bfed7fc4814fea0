CONSTANTS
  Regions = {r1, r2}
  max_pools = 2
  max_clients_in_pool = 2
  Conn = {s1, s2, s3}
  Bytes = {"nl"}
  Nofile = 4
  MaxSent = 1
  MayReset = TRUE
  MayBlock = FALSE
  EpollCtlMayFail = TRUE
  max_events = 2
  max_line_len = 2
  max_name_len = 2
  nil = nil
  serv = serv
SPECIFICATION Spec
SYMMETRY Symmetric
INVARIANTS
  EventsTargetSessions
  NoGhosts
CHECK_DEADLOCK FALSE
