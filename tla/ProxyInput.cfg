SPECIFICATION LocalFairSpec
CONSTANTS
  Part = {"proxy"}
  Browser = {a}
  Socket = {c1, c2}
  Nobody = Nobody
  Client = {a, b}
  Job = {j1}
  MaxLinks = 3
  MaxPartials = 1
  NoClient = NoClient
  Peer = {p1}
  Request = {r1}
  MaxFaults = 1
  MaxSent = 2
  MaxConns = 2
  MaxWritten = 3
  MaxKept = 2
  MaxChatter = 0
  EventSlots = 1
  MaxKeys = 1
  HttpRequest = {}
  MaxHandshakes = 1
  MsgSlots = 1
  SocketSlots = 0
  QueueDrops = FALSE
  RtcBrowser = {b1}
  Offer = {o1, o2}
  NoOffer = NoOffer
  NoBrowser = NoBrowser
  MaxDisconnects = 1
  SendingTask = {t1}
  SingleRoom = 3
  ChunkRoom = 2
  MaxChunks = 3
  QueueSlots = 2
  DecodedSlots = 1
  MaxPayload = 7
  MaxMessages = 2
  Server = {s1}
  Fingerprint = {x}
  RingSize = 1
  MaxPermanent = 2
  MaxDelay = 3
  PollLimit = 2
  MaxHive = 2
  MaxTrouble = 1
  RoomServer = {s1}
  Member = {n1, n2}
  Me = Me
  NoKey = NoKey
  MaxRoomEvents = 3
  Message = {m1}
  Upload = {u1}
  MaxEntries = 1
  MaxAudio = 1
  MaxEvents = 0
  MaxCrashes = 1
  NoTask = NoTask
  NoMessage = NoMessage
  Process = {p1, p2}
  Command = {k1}
  MaxReboots = 1
  NoProcess = NoProcess
  Text = {t1, t2}
  Mcp = {m1}
  EventSlotsKept = 1
  StdoutRoom = 1
  MaxDaemonExits = 1
  MaxCalls = 1
  BrowserId = {phone, desktop}
  WebSocket = {c1, c2}
  NoObject = NoObject
  LineKind = {"said"}
  LineSize = {2}
  StartLine <- MCStartLine
  EndLine <- MCEndLine
  RecordType = {"conversation"}
  Percent = {100}
  SeekThreshold = 0
  SafetyMargin = 1
  SeekTail = 1
  MaxLines = 4
PROPERTY KeysAreRead
CHECK_DEADLOCK FALSE
