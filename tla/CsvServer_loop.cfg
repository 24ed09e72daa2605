CONSTANTS
  c1 = c1
  c2 = c2
  NoClient = NoClient
  k1 = k1
  k2 = k2
  Clients = {c1, c2}
  Keys = {k1, k2}
  Files <- MCFiles
  LoopModes = {TRUE}
  Scopes = {"global", "per-key", "both"}
SPECIFICATION Spec
PROPERTY ClientDisconnectNoticed
