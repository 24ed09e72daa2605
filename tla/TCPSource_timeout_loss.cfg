\* Client mode with SO_RCVTIMEO expiring while the server is silent.
CONSTANTS
  c1 = c1
  c2 = c2
  srv = srv
  NoFd = NoFd
  Modes = {"client"}
  Peers <- ClientPeers
  BufferSize = 2
  MaxBytes = 2
  FlushEnabled = TRUE
  ReadTimeouts = TRUE
  SocketErrors = FALSE
  NoSocket = FALSE
SPECIFICATION Spec
INVARIANT NoDataLoss
CHECK_DEADLOCK FALSE
