----------------------------- MODULE AgentInput -----------------------------
(***************************************************************************)
(* What is said to the agent: the transcription, audio_upload, file_upload *)
(* and lost_audio handlers of crates/b3-cli/src/daemon/web.rs, the         *)
(* transcriptions of bridge/puller.rs, the channel-events stream, and the  *)
(* MCP process (mcp/b3.rs) that turns its events into notifications for    *)
(* the agent while it answers the agent's calls on the same stdout.        *)
(*                                                                         *)
(* A text passes the broadcast channel's queue of a subscriber, the        *)
(* connection, the watcher thread and stdout before the agent hears it.    *)
(* The agent runs one MCP process after the other, or several.             *)
(***************************************************************************)
EXTENDS Naturals, Sequences, SequencesExt

CONSTANTS
  Text,           \* bound: what is said to the agent
  Mcp,            \* bound: the MCP processes
  EventSlotsKept, \* 256 slots of the channel_events broadcast channel
  StdoutRoom,     \* messages stdout takes before the agent reads
  MaxDaemonExits, \* bound: the restarts of the daemon
  MaxCalls        \* bound: the calls the agent makes of an MCP process

Response == "response"

ASSUME AgentInputAssumption ==
  /\ Response \notin Text
  /\ EventSlotsKept \in Nat \ {0} /\ StdoutRoom \in Nat \ {0}
  /\ MaxDaemonExits \in Nat /\ MaxCalls \in Nat

VARIABLES
  web_state,    \* the daemon: "down", "starting" (the puller has no WebState) or "up"
  daemon_exits,
  backends,     \* where audio is transcribed: local GPU, RunPod, or neither
  stt,          \* of a text: step of the audio_upload that transcribes it
  fate,         \* of a text: "none", "channel", "shown" (browsers only) or "dropped"
  published,    \* history: texts sent into the channel, in order
  audience,     \* history: the subscribers a text was sent to
  missed,       \* history: texts a subscriber lost: lag, its end, the daemon's
  subscribed,   \* MCP processes with a receiver in the channel
  queue,        \* of a receiver: events kept for it
  wire,         \* events written to its connection
  watcher,      \* the watcher thread: next step; "none", "gone": no such process
  hand,         \* the event it writes
  main,         \* the main thread: next step
  lock,         \* who has stdout: "free", "watcher" or "main"
  stdout,       \* texts and responses the agent has not read
  agent_heard,  \* history: the texts it has read
  agent,        \* MCP processes whose agent lives
  calls         \* the calls it has made

daemonSideVars == <<web_state, daemon_exits>>
sourceVars == <<backends, stt, fate>>
historyVars == <<published, audience, missed>>
feedVars == <<subscribed, queue, wire>>
watcherVars == <<watcher, hand>>
mainVars == <<main, calls>>
stdoutVars == <<lock, stdout, agent_heard>>
inputVars == <<daemonSideVars, sourceVars, historyVars, feedVars, watcherVars, mainVars,
               stdoutVars, agent>>

Runs(m) == watcher[m] \notin {"none", "gone"}

----------------------------------------------------------------------------
(* What reaches the daemon *)

\* A lagging receiver loses the oldest event it is kept.
Enqueue(q, t) == IF Len(q) < EventSlotsKept THEN Append(q, t) ELSE Append(Tail(q), t)
LostByLag(m) == IF Len(queue[m]) < EventSlotsKept THEN {} ELSE {Head(queue[m])}

\* channel_events.send: everyone who has a receiver is counted, served or not.
Publish(t) ==
  /\ subscribed # {}
  /\ fate' = [fate EXCEPT ![t] = "channel"]
  /\ published' = Append(published, t)
  /\ audience' = [audience EXCEPT ![t] = subscribed]
  /\ queue' = [m \in Mcp |-> IF m \in subscribed THEN Enqueue(queue[m], t) ELSE queue[m]]
  /\ missed' = [m \in Mcp |->
                  IF m \in subscribed THEN missed[m] \cup LostByLag(m) ELSE missed[m]]
  /\ UNCHANGED <<subscribed, wire>>

\* An AgentEvent::Transcription: browsers show it, the local puller logs it.
ShowOnly(t) == fate' = [fate EXCEPT ![t] = "shown"] /\ UNCHANGED <<historyVars, feedVars>>

PublishOrShow(t) == Publish(t) \/ (subscribed = {} /\ ShowOnly(t))

\* POST /api/transcription with a text; the ledger is told "injected" either way.
TranscriptionCallback(t) ==
  /\ web_state = "up" /\ fate[t] = "none" /\ stt[t] = "none"
  /\ PublishOrShow(t)
  /\ UNCHANGED <<daemonSideVars, backends, stt, watcherVars, mainVars, stdoutVars, agent>>

\* The same event over the server's stream; without a subscriber it is dropped.
PulledTranscription(t) ==
  /\ web_state # "down" /\ fate[t] = "none" /\ stt[t] = "none"
  /\ \/ web_state = "up" /\ Publish(t)
     \/ /\ web_state = "starting" \/ subscribed = {}
        /\ fate' = [fate EXCEPT ![t] = "dropped"]
        /\ UNCHANGED <<historyVars, feedVars>>
  /\ UNCHANGED <<daemonSideVars, backends, stt, watcherVars, mainVars, stdoutVars, agent>>

\* A notice for the agent goes where inject_text sends it, or there is none.
Notice(t) ==
  /\ web_state = "up" /\ fate[t] = "none" /\ stt[t] = "none"
  /\ \/ ShowOnly(t)
     \/ fate' = [fate EXCEPT ![t] = "dropped"] /\ UNCHANGED <<historyVars, feedVars>>
  /\ UNCHANGED <<daemonSideVars, backends, stt, watcherVars, mainVars, stdoutVars, agent>>

\* An uploaded file that is too large or cannot be saved is refused.
FileUpload(t) == Notice(t)

\* The same for audio whose transcription was lost.
LostAudio(t) == Notice(t)

\* A browser reports lost speech; if another one has played it there is no notice.
SpeechLost(t) == Notice(t)

\* POST /api/audio-upload: a local GPU first, then RunPod; Whisper without either.
AudioUpload(t) ==
  /\ web_state = "up" /\ fate[t] = "none" /\ stt[t] = "none"
  /\ stt' = [stt EXCEPT ![t] = IF "local" \in backends THEN "local"
                               ELSE IF "cloud" \in backends THEN "cloud" ELSE "whisper"]
  /\ UNCHANGED <<daemonSideVars, backends, fate, historyVars, feedVars, watcherVars,
                 mainVars, stdoutVars, agent>>

BackendFails(t) ==
  /\ stt[t] \in {"local", "cloud", "whisper"}
  /\ IF stt[t] = "local" /\ "cloud" \in backends
     THEN stt' = [stt EXCEPT ![t] = "cloud"] /\ UNCHANGED fate
     ELSE /\ stt' = [stt EXCEPT ![t] = "done"]
          /\ fate' = [fate EXCEPT ![t] = "dropped"]
  /\ UNCHANGED <<daemonSideVars, backends, historyVars, feedVars, watcherVars,
                 mainVars, stdoutVars, agent>>

\* Text that is not noise is sent on.
Transcribed(t) ==
  /\ stt[t] \in {"local", "cloud", "whisper"}
  /\ stt' = [stt EXCEPT ![t] = "done"]
  /\ \/ PublishOrShow(t)
     \/ fate' = [fate EXCEPT ![t] = "dropped"] /\ UNCHANGED <<historyVars, feedVars>>
  /\ UNCHANGED <<daemonSideVars, backends, watcherVars, mainVars, stdoutVars, agent>>

----------------------------------------------------------------------------
(* The channel-events stream *)

\* The stream of m takes the next event; a connection that is broken ends it.
StreamWrites(m) ==
  /\ m \in subscribed /\ Runs(m) /\ queue[m] # <<>>
  /\ queue' = [queue EXCEPT ![m] = Tail(@)]
  /\ wire' = [wire EXCEPT ![m] = Append(@, Head(queue[m]))]
  /\ UNCHANGED <<daemonSideVars, sourceVars, historyVars, subscribed, watcherVars,
                 mainVars, stdoutVars, agent>>

\* The receiver of a process that is gone is dropped when its connection is seen
\* to be closed; until then it counts.
StreamEnds(m) ==
  /\ m \in subscribed /\ ~Runs(m)
  /\ subscribed' = subscribed \ {m}
  /\ missed' = [missed EXCEPT ![m] = @ \cup ToSet(queue[m])]
  /\ queue' = [queue EXCEPT ![m] = <<>>]
  /\ UNCHANGED <<daemonSideVars, sourceVars, published, audience, wire, watcherVars,
                 mainVars, stdoutVars, agent>>

\* The daemon exits; what its sockets have taken can still be read.
DaemonExits ==
  /\ web_state # "down" /\ daemon_exits < MaxDaemonExits
  /\ web_state' = "down" /\ daemon_exits' = daemon_exits + 1
  /\ subscribed' = {} /\ queue' = [m \in Mcp |-> <<>>]
  /\ missed' = [m \in Mcp |-> missed[m] \cup ToSet(queue[m])]
  /\ stt' = [t \in Text |-> IF stt[t] = "none" THEN "none" ELSE "done"]
  /\ fate' = [t \in Text |-> IF stt[t] \notin {"none", "done"} THEN "dropped" ELSE fate[t]]
  /\ UNCHANGED <<backends, published, audience, wire, watcherVars, mainVars, stdoutVars,
                 agent>>

\* The puller's stream runs before the web state is there for it.
DaemonStarts ==
  /\ \/ web_state = "down" /\ web_state' = "starting"
     \/ web_state = "starting" /\ web_state' = "up"
  /\ UNCHANGED <<daemon_exits, sourceVars, historyVars, feedVars, watcherVars, mainVars,
                 stdoutVars, agent>>

----------------------------------------------------------------------------
(* The MCP process *)

McpStarts(m) ==
  /\ watcher[m] = "none"
  /\ watcher' = [watcher EXCEPT ![m] = "connect"]
  /\ main' = [main EXCEPT ![m] = "idle"]
  /\ agent' = agent \cup {m}
  /\ UNCHANGED <<daemonSideVars, sourceVars, historyVars, feedVars, hand, calls,
                 stdoutVars>>

WatcherConnects(m) ==
  /\ watcher[m] = "connect" /\ web_state = "up"
  /\ watcher' = [watcher EXCEPT ![m] = "read"]
  /\ subscribed' = subscribed \cup {m}
  /\ UNCHANGED <<daemonSideVars, sourceVars, historyVars, queue, wire, hand, mainVars,
                 stdoutVars, agent>>

\* Mutant: an end of the stream ends the thread's loop.
WatcherStops(m) ==
  /\ \/ watcher[m] = "connect" /\ web_state # "up"
     \/ watcher[m] = "read" /\ m \notin subscribed /\ wire[m] = <<>>
  /\ watcher' = [watcher EXCEPT ![m] = "ended"]
  /\ UNCHANGED <<daemonSideVars, sourceVars, historyVars, feedVars, hand, mainVars,
                 stdoutVars, agent>>

\* No connection, or the end of one: wait for 1 to 30 s, then try again.
WatcherBacksOff(m) ==
  /\ \/ watcher[m] = "connect" /\ web_state # "up"
     \/ watcher[m] = "read" /\ m \notin subscribed /\ wire[m] = <<>>
  /\ watcher' = [watcher EXCEPT ![m] = "sleep"]
  /\ UNCHANGED <<daemonSideVars, sourceVars, historyVars, feedVars, hand, mainVars,
                 stdoutVars, agent>>

WatcherRetries(m) ==
  /\ watcher[m] = "sleep"
  /\ watcher' = [watcher EXCEPT ![m] = "connect"]
  /\ UNCHANGED <<daemonSideVars, sourceVars, historyVars, feedVars, hand, mainVars,
                 stdoutVars, agent>>

WatcherReads(m) ==
  /\ watcher[m] = "read" /\ wire[m] # <<>>
  /\ watcher' = [watcher EXCEPT ![m] = "notify"]
  /\ hand' = [hand EXCEPT ![m] = <<Head(wire[m])>>]
  /\ wire' = [wire EXCEPT ![m] = Tail(@)]
  /\ UNCHANGED <<daemonSideVars, sourceVars, historyVars, subscribed, queue, mainVars,
                 stdoutVars, agent>>

\* Mutant: an event that finds stdout taken is not written.
WatcherTriesLock(m) ==
  /\ watcher[m] = "notify"
  /\ IF lock[m] = "free"
     THEN /\ lock' = [lock EXCEPT ![m] = "watcher"]
          /\ watcher' = [watcher EXCEPT ![m] = "write"] /\ UNCHANGED hand
     ELSE /\ hand' = [hand EXCEPT ![m] = <<>>]
          /\ watcher' = [watcher EXCEPT ![m] = "read"] /\ UNCHANGED lock
  /\ UNCHANGED <<daemonSideVars, sourceVars, historyVars, feedVars, mainVars, stdout,
                 agent_heard, agent>>

WatcherLocks(m) ==
  /\ watcher[m] = "notify" /\ lock[m] = "free"
  /\ lock' = [lock EXCEPT ![m] = "watcher"]
  /\ watcher' = [watcher EXCEPT ![m] = "write"]
  /\ UNCHANGED <<daemonSideVars, sourceVars, historyVars, feedVars, hand, mainVars,
                 stdout, agent_heard, agent>>

\* The line is written and the lock released; a full stdout is waited for.
WatcherWrites(m) ==
  /\ watcher[m] = "write" /\ m \in agent /\ Len(stdout[m]) < StdoutRoom
  /\ watcher' = [watcher EXCEPT ![m] = "read"]
  /\ stdout' = [stdout EXCEPT ![m] = @ \o hand[m]]
  /\ hand' = [hand EXCEPT ![m] = <<>>]
  /\ lock' = [lock EXCEPT ![m] = "free"]
  /\ UNCHANGED <<daemonSideVars, sourceVars, historyVars, feedVars, mainVars, agent_heard,
                 agent>>

MainReads(m) ==
  /\ main[m] = "idle" /\ m \in agent /\ calls[m] < MaxCalls
  /\ main' = [main EXCEPT ![m] = "handle"]
  /\ calls' = [calls EXCEPT ![m] = @ + 1]
  /\ UNCHANGED <<daemonSideVars, sourceVars, historyVars, feedVars, watcherVars,
                 stdoutVars, agent>>

\* Mutant: a call is handled with stdout locked.
MainLocksFirst(m) ==
  /\ \/ /\ main[m] = "handle" /\ lock[m] = "free"
        /\ lock' = [lock EXCEPT ![m] = "main"] /\ UNCHANGED main
     \/ /\ main[m] = "handle" /\ lock[m] = "main"
        /\ main' = [main EXCEPT ![m] = "write"] /\ UNCHANGED lock
  /\ UNCHANGED <<daemonSideVars, sourceVars, historyVars, feedVars, watcherVars, calls,
                 stdout, agent_heard, agent>>

\* The call was handled, mostly by a request to the daemon or to the server.
MainLocks(m) ==
  /\ main[m] = "handle" /\ lock[m] = "free"
  /\ main' = [main EXCEPT ![m] = "write"]
  /\ lock' = [lock EXCEPT ![m] = "main"]
  /\ UNCHANGED <<daemonSideVars, sourceVars, historyVars, feedVars, watcherVars, calls,
                 stdout, agent_heard, agent>>

MainWrites(m) ==
  /\ main[m] = "write" /\ m \in agent /\ Len(stdout[m]) < StdoutRoom
  /\ main' = [main EXCEPT ![m] = "idle"]
  /\ stdout' = [stdout EXCEPT ![m] = Append(@, Response)]
  /\ lock' = [lock EXCEPT ![m] = "free"]
  /\ UNCHANGED <<daemonSideVars, sourceVars, historyVars, feedVars, watcherVars, calls,
                 agent_heard, agent>>

\* stdin ends, a write raises SIGPIPE, or the watchdog finds the parent gone.
McpExits(m) ==
  /\ Runs(m) /\ m \notin agent
  /\ watcher' = [watcher EXCEPT ![m] = "gone"] /\ main' = [main EXCEPT ![m] = "gone"]
  /\ missed' = [missed EXCEPT ![m] = @ \cup ToSet(wire[m] \o hand[m])]
  /\ hand' = [hand EXCEPT ![m] = <<>>] /\ wire' = [wire EXCEPT ![m] = <<>>]
  /\ lock' = [lock EXCEPT ![m] = "free"]
  /\ UNCHANGED <<daemonSideVars, sourceVars, published, audience, subscribed, queue, calls,
                 stdout, agent_heard, agent>>

----------------------------------------------------------------------------
(* The agent (external) *)

AgentReads(m) ==
  /\ m \in agent /\ stdout[m] # <<>>
  /\ stdout' = [stdout EXCEPT ![m] = Tail(@)]
  /\ agent_heard' = IF Head(stdout[m]) = Response THEN agent_heard
              ELSE [agent_heard EXCEPT ![m] = Append(@, Head(stdout[m]))]
  /\ UNCHANGED <<daemonSideVars, sourceVars, historyVars, feedVars, watcherVars,
                 mainVars, lock, agent>>

AgentEnds(m) ==
  /\ m \in agent
  /\ agent' = agent \ {m}
  /\ missed' = [missed EXCEPT ![m] = @ \cup (ToSet(stdout[m]) \ {Response})]
  /\ stdout' = [stdout EXCEPT ![m] = <<>>]
  /\ UNCHANGED <<daemonSideVars, sourceVars, published, audience, feedVars, watcherVars,
                 mainVars, lock, agent_heard>>

----------------------------------------------------------------------------
AgentInputInit ==
  /\ web_state = "starting" /\ daemon_exits = 0
  /\ backends \in SUBSET {"local", "cloud"}
  /\ stt = [t \in Text |-> "none"] /\ fate = [t \in Text |-> "none"]
  /\ published = <<>> /\ audience = [t \in Text |-> {}] /\ missed = [m \in Mcp |-> {}]
  /\ subscribed = {} /\ queue = [m \in Mcp |-> <<>>] /\ wire = [m \in Mcp |-> <<>>]
  /\ watcher = [m \in Mcp |-> "none"] /\ hand = [m \in Mcp |-> <<>>]
  /\ main = [m \in Mcp |-> "none"] /\ calls = [m \in Mcp |-> 0]
  /\ lock = [m \in Mcp |-> "free"] /\ stdout = [m \in Mcp |-> <<>>]
  /\ agent_heard = [m \in Mcp |-> <<>>] /\ agent = {}

WatcherRuns(m) ==
  \/ WatcherConnects(m) \/ WatcherBacksOff(m) \/ WatcherRetries(m)
  \/ WatcherReads(m) \/ WatcherWrites(m)

AgentInputNext ==
  \/ \E t \in Text :
       \/ TranscriptionCallback(t) \/ PulledTranscription(t)
       \/ FileUpload(t) \/ LostAudio(t) \/ SpeechLost(t)
       \/ AudioUpload(t) \/ BackendFails(t) \/ Transcribed(t)
  \/ \E m \in Mcp :
       \/ StreamWrites(m) \/ StreamEnds(m)
       \/ McpStarts(m) \/ WatcherRuns(m) \/ WatcherLocks(m)
       \/ MainReads(m) \/ MainLocks(m) \/ MainWrites(m) \/ McpExits(m)
       \/ AgentReads(m) \/ AgentEnds(m)
  \/ DaemonExits \/ DaemonStarts

AgentInputSpec == AgentInputInit /\ [][AgentInputNext]_inputVars

----------------------------------------------------------------------------
(* Properties *)

\* The type invariant.
AgentInputTypeOK ==
  /\ web_state \in {"down", "starting", "up"} /\ daemon_exits \in 0..MaxDaemonExits
  /\ backends \subseteq {"local", "cloud"}
  /\ stt \in [Text -> {"none", "local", "cloud", "whisper", "done"}]
  /\ fate \in [Text -> {"none", "channel", "shown", "dropped"}]
  /\ published \in Seq(Text) /\ audience \in [Text -> SUBSET Mcp]
  /\ missed \in [Mcp -> SUBSET Text] /\ subscribed \subseteq Mcp
  /\ queue \in [Mcp -> Seq(Text)] /\ wire \in [Mcp -> Seq(Text)]
  /\ watcher \in [Mcp -> {"none", "gone", "connect", "sleep", "read", "notify", "write"}]
  /\ hand \in [Mcp -> Seq(Text)] /\ agent_heard \in [Mcp -> Seq(Text)]
  /\ main \in [Mcp -> {"none", "gone", "idle", "handle", "write"}]
  /\ lock \in [Mcp -> {"free", "watcher", "main"}]
  /\ stdout \in [Mcp -> Seq(Text \cup {Response})]
  /\ agent \subseteq Mcp /\ calls \in [Mcp -> 0..MaxCalls]

\* What m was sent and its agent hears, the oldest first, from the agent back to
\* the channel; the responses of stdout are among it.
OnItsWay(m) == agent_heard[m] \o stdout[m] \o hand[m] \o wire[m] \o queue[m]

\* t comes before u in s.
Precedes(s, t, u) == \E i, j \in DOMAIN s : i < j /\ s[i] = t /\ s[j] = u

\* web.rs:2399 and b3.rs:1944: what was sent to a subscriber is heard or under
\* way, each text once and in the order of the channel, unless it lagged, the
\* daemon exited or the process ended.  Reconnects, calls that are answered on
\* the same stdout and other subscribers change nothing.
InputAccounted ==
  \A m \in Mcp :
    /\ ToSet(OnItsWay(m)) \ {Response} = {t \in Text : m \in audience[t] /\ t \notin missed[m]}
    /\ \A t, u \in Text : Precedes(OnItsWay(m), t, u) => Precedes(published, t, u)

\* What a subscriber was sent comes to its agent, also while a call of the
\* agent waits for an answer ("release lock immediately", b3.rs:2317), unless
\* it is lost for one of those reasons.
SentIsHeard ==
  \A m \in Mcp, t \in Text :
    m \in audience[t] ~> t \in ToSet(agent_heard[m]) \cup missed[m]

\* "Reconnects with backoff on disconnect" (b3.rs:1943): a process whose agent
\* lives listens again while there is a daemon to listen to; and what it is
\* sent is heard.
AgentServed ==
  /\ SentIsHeard
  /\ \A m \in Mcp :
       m \in agent ~> m \notin agent \/ watcher[m] = "read" \/ web_state # "up"

=============================================================================
