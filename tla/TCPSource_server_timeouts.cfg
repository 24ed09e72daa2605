\* Server mode with receive timeouts: bytes may be lost, never reordered.
CONSTANTS
  c1 = c1
  c2 = c2
  srv = srv
  NoFd = NoFd
  Modes = {"server"}
  Peers <- ServerPeers
  BufferSize = 2
  MaxBytes = 3
  FlushEnabled = TRUE
  ReadTimeouts = TRUE
  SocketErrors = FALSE
  NoSocket = FALSE
SPECIFICATION Spec
INVARIANT DeliveredInReadOrder
\* After end of stream the thread has closed the source; it may also block
\* in accept() for a client that never comes.
CHECK_DEADLOCK FALSE
