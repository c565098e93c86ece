SPECIFICATION Spec
CONSTANTS
  Browser = browser
  Daemon = daemon
  Peer <- MCPeer
  SendPriority = {"Critical", "BestEffort"}
  QuietReconnect = TRUE
  MaxConnections = 2
  MaxSendBuffer = 2
  MaxChunks = 2
  MaxFrames = 4
INVARIANTS CriticalKept NoCriticalSkipped AckNotAhead
CHECK_DEADLOCK FALSE
