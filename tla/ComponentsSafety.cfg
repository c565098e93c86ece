SPECIFICATION Spec
CONSTANTS
  Part = {"sessions", "jobs", "tunnel", "gpu", "proxy", "peers", "channel", "hive", "room", "speech", "daemon", "input", "browsers", "memory"}
  Browser = {a}
  Socket = {c1, c2, c3}
  Nobody = Nobody
  Client = {x, y}
  Job = {x, y}
  MaxLinks = 2
  MaxPartials = 1
  NoClient = NoClient
  Peer = {p1}
  Request = {r1}
  MaxFaults = 2
  MaxSent = 3
  MaxConns = 2
  MaxWritten = 2
  MaxKept = 1
  MaxChatter = 0
  EventSlots = 1
  MaxKeys = 1
  HttpRequest = {r1}
  MaxHandshakes = 2
  MsgSlots = 1
  SocketSlots = 1
  QueueDrops = TRUE
  RtcBrowser = {x, y}
  Offer = {x, y}
  NoOffer = NoOffer
  NoBrowser = NoBrowser
  MaxDisconnects = 1
  SendingTask = {t1}
  SingleRoom = 3
  ChunkRoom = 2
  MaxChunks = 3
  QueueSlots = 2
  DecodedSlots = 1
  MaxPayload = 7
  MaxMessages = 2
  Server = {s1}
  Fingerprint = {x, y}
  RingSize = 1
  MaxPermanent = 2
  MaxDelay = 3
  PollLimit = 2
  MaxHive = 2
  MaxTrouble = 3
  RoomServer = {s1}
  Member = {x, y}
  Me = Me
  NoKey = NoKey
  MaxRoomEvents = 3
  Message = {x, y}
  Upload = {}
  MaxEntries = 1
  MaxAudio = 1
  MaxEvents = 0
  MaxCrashes = 1
  NoTask = NoTask
  NoMessage = NoMessage
  Process = {x, y}
  Command = {k1}
  MaxReboots = 2
  NoProcess = NoProcess
  Text = {x, y}
  Mcp = {m1}
  EventSlotsKept = 1
  StdoutRoom = 1
  MaxDaemonExits = 1
  MaxCalls = 1
  BrowserId = {x, y}
  WebSocket = {x, y}
  NoObject = NoObject
  LineKind = {"said", "marker", "result"}
  LineSize = {2}
  StartLine <- MCStartLine
  EndLine <- MCEndLine
  RecordType = {"conversation", "all"}
  Percent = {50, 100}
  SeekThreshold = 1
  SafetyMargin = 1
  SeekTail = 1
  MaxLines = 3
SYMMETRY MCSymmetry
INVARIANTS
  ComponentsTypeOK
  RelaySinkIsLive
  AnswersReachOwner
  OneLoopPerServer
  WorkerInOrder
  ProxiedScreenWhole
  
  
  SeenIsAccounted
  
  
  EntryHasAudio
  DaemonFound
  InputAccounted
  SinkIsLive
  ConnectedIsServed
  ResurfacedAsAsked
CHECK_DEADLOCK FALSE
