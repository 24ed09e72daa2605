\* Both modes, two peers (the addresses a client resolves, or two clients),
\* flushing on, no read timeouts, fair peers: safety and liveness.
CONSTANTS
  c1 = c1
  c2 = c2
  srv = srv
  NoFd = NoFd
  Modes = {"client", "server"}
  Peers <- ServerPeers
  BufferSize = 2
  MaxBytes = 3
  FlushEnabled = TRUE
  ReadTimeouts = FALSE
  SocketErrors = TRUE
  NoSocket = FALSE
SPECIFICATION FairPeerSpec
INVARIANT TypeOK NoDataLoss BufferFromOneConnection
PROPERTY FillReturnsAfterPeerClose AllSentDelivered
\* The source thread ends after close() or a failed open(); a server-mode
\* source blocks in accept() once the last client has gone.
CHECK_DEADLOCK FALSE
