---------------------------- MODULE MCComponents ----------------------------
(***************************************************************************)
(* Small instances of the components that have no state in common: the     *)
(* relay's sessions and jobs, the control tunnel, a GPU session, the       *)
(* daemon's proxy session, its WebRTC peers, a data channel, the hive, the *)
(* keys of a room, speech, the daemon's process, what is said to the       *)
(* agent, the daemon's browser sessions, and the session memory.  A        *)
(* behaviour follows one of them, the part chosen at the start, while the  *)
(* others stay in their initial states: so one run explores each of them   *)
(* alone, and their numbers of states add up instead of multiplying.       *)
(***************************************************************************)
EXTENDS RelaySessions, RelayJobs, ControlTunnel, GpuSession, DaemonProxy,
        DaemonPeers, DataChannel, HiveDelivery, RoomKeys, SpeechArchive,
        DaemonLifecycle, AgentInput, DaemonSession, SessionMemory

CONSTANT Part   \* the parts to explore

\* The line numbers asked of the session memory.
MCStartLine == {-2, 3}
MCEndLine == {-1, 2}

\* The elements of Member stand, in a run for safety, for those of other parts'
\* sets too, in which they are interchangeable as well: an exchange of the two
\* changes nothing in any part.
MCSymmetry == Permutations(Member)

VARIABLE part

allVars == <<part, sessionsVars, jobsVars, tunnelVars, gpuSessionVars, proxyVars,
             peerVars, dataChannelVars, hiveVars, roomVars, speechVars,
             lifecycleVars, inputVars, browsersVars, memoryVars>>

\* Only the variables of part p may change.
In(p) ==
  /\ part = p /\ UNCHANGED part
  /\ IF p = "sessions" THEN TRUE ELSE UNCHANGED sessionsVars
  /\ IF p = "jobs"     THEN TRUE ELSE UNCHANGED jobsVars
  /\ IF p = "tunnel"   THEN TRUE ELSE UNCHANGED tunnelVars
  /\ IF p = "gpu"      THEN TRUE ELSE UNCHANGED gpuSessionVars
  /\ IF p = "proxy"    THEN TRUE ELSE UNCHANGED proxyVars
  /\ IF p = "peers"    THEN TRUE ELSE UNCHANGED peerVars
  /\ IF p = "channel"  THEN TRUE ELSE UNCHANGED dataChannelVars
  /\ IF p = "hive"     THEN TRUE ELSE UNCHANGED hiveVars
  /\ IF p = "room"     THEN TRUE ELSE UNCHANGED roomVars
  /\ IF p = "speech"   THEN TRUE ELSE UNCHANGED speechVars
  /\ IF p = "daemon"   THEN TRUE ELSE UNCHANGED lifecycleVars
  /\ IF p = "input"    THEN TRUE ELSE UNCHANGED inputVars
  /\ IF p = "browsers" THEN TRUE ELSE UNCHANGED browsersVars
  /\ IF p = "memory"   THEN TRUE ELSE UNCHANGED memoryVars

Init ==
  /\ part \in Part
  /\ SessionsInit /\ JobsInit /\ TunnelInit /\ GpuInit /\ ProxyInit /\ PeersInit
  /\ ChannelInit /\ HiveInit /\ RoomInit /\ SpeechInit /\ LifecycleInit
  /\ AgentInputInit /\ BrowsersInit /\ MemoryInit
  \* One initial state of each part for those that follow another.
  /\ part # "speech" => audio_browser = FALSE
  /\ part # "input" => backends = {}

Next ==
  \/ In("sessions") /\ SessionsNext
  \/ In("jobs")     /\ JobsNext
  \/ In("tunnel")   /\ TunnelNext
  \/ In("gpu")      /\ GpuNext
  \/ In("proxy")    /\ ProxyNext
  \/ In("peers")    /\ PeersNext
  \/ In("channel")  /\ ChannelNext
  \/ In("hive")     /\ HiveNext
  \/ In("room")     /\ RoomNext
  \/ In("speech")   /\ SpeechNext
  \/ In("daemon")   /\ LifecycleNext
  \/ In("input")    /\ AgentInputNext
  \/ In("browsers") /\ BrowsersNext
  \/ In("memory")   /\ MemoryNext

Spec == Init /\ [][Next]_allVars

\* The types of every component's state.
ComponentsTypeOK ==
  /\ SessionsTypeOK /\ JobsTypeOK /\ TunnelTypeOK /\ GpuTypeOK /\ ProxyTypeOK
  /\ PeersTypeOK /\ ChannelTypeOK /\ HiveTypeOK /\ RoomTypeOK /\ SpeechTypeOK
  /\ LifecycleTypeOK /\ AgentInputTypeOK /\ BrowsersTypeOK /\ MemoryTypeOK

----------------------------------------------------------------------------
(* Fairness of the parts with a liveness property, each over its own variables *)

\* Handlers take their own steps, and timers fire.
SessionsFair ==
  \A c \in Socket : WF_sessionsVars(part = "sessions" /\ SessionsSure(c))

\* Forwarding, readers and the reconnect loop go on; the worker ends its jobs.
JobsFair ==
  /\ \A c \in Client : WF_jobsVars(part = "jobs" /\ ForwardBatch(c))
  /\ \A l \in Link : WF_jobsVars(part = "jobs" /\ ReadGpu(l))
  /\ \A j \in Job : WF_jobsVars(part = "jobs" /\ \E l \in Link : Finish(l, j))
  /\ WF_jobsVars(part = "jobs" /\ Reconnect)

\* Registration loops and dial-backs go on.
TunnelFair ==
  /\ \A l \in Loop : WF_tunnelVars(part = "tunnel" /\ LoopRuns(l))
  /\ \A r \in Request : WF_tunnelVars(part = "tunnel" /\ DialBack(r))

\* The session and its reader go on, the browser's channel sends again, and a
\* worker that is tried again and again is reached.
GpuFair ==
  /\ WF_gpuSessionVars(part = "gpu" /\ SessionRuns)
  /\ WF_gpuSessionVars(part = "gpu" /\ ReaderRuns)
  /\ WF_gpuSessionVars(part = "gpu" /\ BrowserRetransmits)
  /\ SF_gpuSessionVars(part = "gpu" /\ ConnectForFrame)

\* The session task and the pusher go on; a response is taken though other arms
\* of the task's select! are ready too.
ProxyFair ==
  /\ WF_proxyVars(part = "proxy" /\ SessionArm)
  /\ WF_proxyVars(part = "proxy" /\ Announce)
  /\ \A r \in HttpRequest : WF_proxyVars(part = "proxy" /\ HttpResponse(r))

\* The handler at the other end of the proxy's local socket goes on too.
LocalFair ==
  /\ WF_proxyVars(part = "proxy" /\ LocalSend)
  /\ WF_proxyVars(part = "proxy" /\ LocalRead)
  /\ WF_proxyVars(part = "proxy" /\ LocalPinged)

\* The poll goes on.
HiveFair == WF_hiveVars(part = "hive" /\ PollRuns)

\* Tasks go on, and a poll that never finds the end of its job gives up in time.
SpeechFair ==
  /\ \A m \in Message :
       /\ WF_speechVars(part = "speech" /\ Speak(m))
       /\ WF_speechVars(part = "speech" /\ PollFails(m))
       /\ WF_speechVars(part = "speech" /\ ProgressAges(m))
  /\ \A p \in Speaker : WF_speechVars(part = "speech" /\ StoreStep(p))

\* A stop command goes on.
LifecycleFair == \A c \in Command : WF_lifecycleVars(part = "daemon" /\ StopStep(c))

\* Threads and streams go on, and the agent reads what it is told; a call need
\* not end.
InputFair ==
  \A m \in Mcp :
    /\ WF_inputVars(part = "input" /\ WatcherRuns(m))
    /\ WF_inputVars(part = "input" /\ WatcherLocks(m))
    /\ WF_inputVars(part = "input" /\ MainWrites(m))
    /\ WF_inputVars(part = "input" /\ McpExits(m))
    /\ WF_inputVars(part = "input" /\ StreamWrites(m))
    /\ WF_inputVars(part = "input" /\ StreamEnds(m))
    /\ WF_inputVars(part = "input" /\ AgentReads(m))

\* Tasks run and timers fire; a browser need not ever connect or go away.
BrowsersFair ==
  \A c \in WebSocket :
    /\ WF_browsersVars(part = "browsers" /\ Handle(c))
    /\ WF_browsersVars(part = "browsers" /\ TimerFires(c))
    /\ WF_browsersVars(part = "browsers" /\ TimerRemoves(c))

FairSpec ==
  Spec /\ SessionsFair /\ JobsFair /\ TunnelFair /\ GpuFair /\ ProxyFair
    /\ HiveFair /\ SpeechFair /\ LifecycleFair /\ InputFair /\ BrowsersFair

LocalFairSpec == Spec /\ ProxyFair /\ LocalFair

\* ControlRestored asks for something that happens for ever, which only the
\* behaviours that follow the tunnel do.
TunnelRestored == part = "tunnel" => ControlRestored

=============================================================================
