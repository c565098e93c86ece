SPECIFICATION Spec
CONSTANTS
  Browser = browser
  Daemon = daemon
  Peer <- MCPeer
  SendPriority = {"Critical"}
  QuietReconnect = FALSE
  MaxConnections = 2
  MaxSendBuffer = 2
  MaxChunks = 2
  MaxFrames = 4
INVARIANTS CriticalKept
CHECK_DEADLOCK FALSE
