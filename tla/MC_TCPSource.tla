---------------------------- MODULE MC_TCPSource ----------------------------
(* Model-checking instance of TCPSource: the peers are model values.       *)
EXTENDS TCPSource, TLC

CONSTANTS c1, c2, srv

\* Server mode: two clients connect one after the other (as in
\* TCPSourceServerModeTest.AcceptsReconnects).
ServerPeers == {c1, c2}
\* Client mode: one remote server (e.g. scripts/tcp_source_csv_server.py).
ClientPeers == {srv}

PeerSymmetry == Permutations(ServerPeers)
=============================================================================
