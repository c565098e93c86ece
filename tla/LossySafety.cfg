SPECIFICATION Spec
CONSTANTS
  browser = browser
  daemon = daemon
  Peer <- MCPeer
  RustPeer = {daemon}
  SendPriority <- DaemonSends
  MaxSendBuffer = 2
  MaxChunks = 3
  MaxFrames = 3
INVARIANTS TypeOK InOrderOnce MessagesWhole AckedIsAccepted CriticalRetained
PROPERTIES ImplementsDelivery
