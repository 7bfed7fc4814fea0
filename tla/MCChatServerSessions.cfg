CONSTANTS
  Regions = {r1, r2}
  max_pools = 2
  max_clients_in_pool = 1
  Conn = {s1, s2, s3}
  Bytes = {"nl"}
  Nofile = 4
  MaxSent = 2
  MayReset = FALSE
  MayBlock = TRUE
  EpollCtlMayFail = FALSE
  max_events = 1
  max_line_len = 1
  max_name_len = 1
  nil = nil
  serv = serv
SPECIFICATION Spec
SYMMETRY Symmetric
INVARIANTS
  TypeOK
  SocketsOwned
  EventsTargetSessions
  NoLostWakeup
  AnnouncementsPaired
  NoGhosts
PROPERTY RoomSpec
CHECK_DEADLOCK FALSE
