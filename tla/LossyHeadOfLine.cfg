SPECIFICATION FairSpec
CONSTANTS
  browser = browser
  daemon = daemon
  Peer <- MCPeer
  RustPeer = {daemon}
  SendPriority <- BrowserSends
  MaxSendBuffer = 2
  MaxChunks = 1
  MaxFrames = 2
PROPERTIES CriticalArrives
