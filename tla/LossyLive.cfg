SPECIFICATION FairSpec
CONSTANTS
  browser = browser
  daemon = daemon
  Peer <- MCPeer
  RustPeer = {daemon}
  SendPriority <- BrowserSendsCritical
  MaxSendBuffer = 2
  MaxChunks = 2
  MaxFrames = 2
PROPERTIES CriticalArrives
