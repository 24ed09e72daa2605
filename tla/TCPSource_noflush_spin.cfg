\* Client mode with flushIntervalInMs = 0: the server closes after a
\* last, partial buffer's worth of bytes.
CONSTANTS
  c1 = c1
  c2 = c2
  srv = srv
  NoFd = NoFd
  Modes = {"client"}
  Peers <- ClientPeers
  BufferSize = 2
  MaxBytes = 3
  FlushEnabled = FALSE
  ReadTimeouts = FALSE
  SocketErrors = FALSE
  NoSocket = FALSE
SPECIFICATION FairPeerSpec
PROPERTY FillReturnsAfterPeerClose
CHECK_DEADLOCK FALSE
