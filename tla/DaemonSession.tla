--------------------------- MODULE DaemonSession ---------------------------
(***************************************************************************)
(* The life of the daemon's browser sessions: the SessionManager of        *)
(* crates/b3-reliable/src/session.rs and the tasks of daemon/web.rs that   *)
(* share it.  One handler (handle_terminal_ws) runs per WebSocket; it      *)
(* looks its session up or creates it, reaps the sessions of other         *)
(* browsers it takes for gone, attaches its sink, starts the bridge and    *)
(* the event consumer, and at the end leaves a timer that removes the      *)
(* session if nobody came back.  Every await is a step boundary: handlers, *)
(* reaps and timers interleave, also those of one browser whose old        *)
(* WebSocket the daemon has not yet noticed to be dead.                    *)
(*                                                                         *)
(* A session object is named by the handler that created it, so that two   *)
(* objects created under one id can be told apart.  What flows through a   *)
(* session is the business of ResumeLink.  Left out: RTC sinks, and the    *)
(* last_seen entries that are 120 s old (a connected browser answers a     *)
(* heartbeat every 5 s).                                                   *)
(***************************************************************************)
EXTENDS Naturals, FiniteSets

CONSTANTS
  BrowserId,  \* browsers, by the session_id they send
  WebSocket,  \* bound: the WebSockets ever opened
  NoObject

ASSUME NoObjectAssumption == NoObject \notin WebSocket

VARIABLES
  \* SessionManager.sessions, and session_last_seen
  session_map, session_last_seen,
  \* the session objects: whose sink "ws" is, the channel backend_tx sends on,
  \* whether a bridge reads it, the bridge_task and event_task handles
  session_sink, backend_tx, bridge_reads, bridge_task, event_task,
  \* the handlers: next step, browser, session, the reaper's snapshot of
  \* last_seen, the sessions it found stale, the one it is destroying
  pc, client, session, snapshot, stale, victim,
  \* the timers the handlers leave
  timer

managerVars == <<session_map, session_last_seen>>
objectVars == <<session_sink, backend_tx, bridge_reads, bridge_task, event_task>>
wsHandlerVars == <<client, session, snapshot, stale, victim>>
browsersVars == <<managerVars, objectVars, pc, wsHandlerVars, timer>>

\* Handler c takes the step from `here` to `next`.
WsAt(c, here, next) == pc[c] = here /\ pc' = [pc EXCEPT ![c] = next]

----------------------------------------------------------------------------
(* The session manager *)

\* Session::destroy aborts the tasks it holds handles of.
Destroy(o) ==
  /\ bridge_reads' = [bridge_reads EXCEPT
                        ![o] = @ /\ bridge_task[o] # backend_tx[o]]
  /\ bridge_task' = [bridge_task EXCEPT ![o] = NoObject]
  /\ event_task' = [event_task EXCEPT ![o] = FALSE]
  /\ UNCHANGED <<session_sink, backend_tx>>

\* Mutant: the session is destroyed but its entry stays in the map.
RemoveSessionKeepsEntry(id) ==
  /\ UNCHANGED session_map
  /\ IF session_map[id] = NoObject THEN UNCHANGED objectVars
                                ELSE Destroy(session_map[id])

\* SessionManager::remove: whatever is registered under id now.
RemoveSession(id) ==
  /\ session_map' = [session_map EXCEPT ![id] = NoObject]
  /\ IF session_map[id] = NoObject THEN UNCHANGED objectVars
                                ELSE Destroy(session_map[id])

----------------------------------------------------------------------------
(* The handler of one WebSocket *)

Open(c) ==
  /\ WsAt(c, "idle", "lookup")
  /\ \E id \in BrowserId : client' = [client EXCEPT ![c] = id]
  /\ UNCHANGED <<managerVars, objectVars, session, snapshot, stale, victim, timer>>

\* reconnect_or_create: the lookup, and the insertion when it found nothing,
\* take the lock one after the other.
Lookup(c) ==
  /\ pc[c] = "lookup"
  /\ session' = [session EXCEPT ![c] = session_map[client[c]]]
  /\ pc' = [pc EXCEPT
       ![c] = IF session_map[client[c]] = NoObject THEN "create" ELSE "snapshot"]
  /\ UNCHANGED <<managerVars, objectVars, client, snapshot, stale, victim, timer>>

Create(c) ==
  /\ WsAt(c, "create", "snapshot")
  /\ session' = [session EXCEPT ![c] = c]
  /\ session_map' = [session_map EXCEPT ![client[c]] = c]
  /\ backend_tx' = [backend_tx EXCEPT ![c] = c]
  /\ UNCHANGED <<session_last_seen, session_sink, bridge_reads, bridge_task, event_task,
                 client, snapshot, stale, victim, timer>>

\* The reaper: a copy of last_seen, the registered sessions that are not in
\* it, then one removal after the other.
Snapshot(c) ==
  /\ WsAt(c, "snapshot", "collect")
  /\ snapshot' = [snapshot EXCEPT ![c] = session_last_seen]
  /\ UNCHANGED <<managerVars, objectVars, client, session, stale, victim, timer>>

Collect(c) ==
  /\ WsAt(c, "collect", "reap")
  /\ stale' = [stale EXCEPT ![c] = {id \in BrowserId : /\ session_map[id] # NoObject
                                                    /\ id # client[c]
                                                    /\ id \notin snapshot[c]}]
  /\ snapshot' = [snapshot EXCEPT ![c] = {}]
  /\ UNCHANGED <<managerVars, objectVars, client, session, victim, timer>>

Reap(c) ==
  /\ WsAt(c, "reap", "forget_victim")
  /\ \E id \in stale[c] :
       /\ RemoveSession(id)
       /\ stale' = [stale EXCEPT ![c] = @ \ {id}]
       /\ victim' = [victim EXCEPT ![c] = {id}]
  /\ UNCHANGED <<session_last_seen, client, session, snapshot, timer>>

ForgetVictim(c) ==
  /\ WsAt(c, "forget_victim", "reap")
  /\ session_last_seen' = session_last_seen \ victim[c]
  /\ victim' = [victim EXCEPT ![c] = {}]
  /\ UNCHANGED <<session_map, objectVars, client, session, snapshot, stale, timer>>

Reaped(c) ==
  /\ WsAt(c, "reap", "init")
  /\ stale[c] = {}
  /\ UNCHANGED <<managerVars, objectVars, wsHandlerVars, timer>>

SendInit(c) ==
  /\ WsAt(c, "init", "attach")
  /\ UNCHANGED <<managerVars, objectVars, wsHandlerVars, timer>>

\* Mutant: the early return leaves the session registered.
InitFailsQuietly(c) ==
  /\ WsAt(c, "init", "done")
  /\ UNCHANGED <<managerVars, objectVars, wsHandlerVars, timer>>

\* The init message cannot be sent: the session is removed, the handler returns.
InitFails(c) ==
  /\ WsAt(c, "init", "done")
  /\ RemoveSession(client[c])
  /\ UNCHANGED <<session_last_seen, wsHandlerVars, timer>>

\* add_transport replaces a sink of the same name.
AttachWs(c) ==
  /\ WsAt(c, "attach", "bridge")
  /\ session_sink' = [session_sink EXCEPT ![session[c]] = c]
  /\ UNCHANGED <<managerVars, backend_tx, bridge_reads, bridge_task, event_task,
                 wsHandlerVars, timer>>

\* The creator starts a bridge on the channel the session was created with; its
\* receiver ends at once if another handler has replaced the sender.
StartBridge(c) ==
  /\ WsAt(c, "bridge", "consume")
  /\ session[c] = c
  /\ bridge_reads' = [bridge_reads EXCEPT ![c] = @ \/ backend_tx[c] = c]
  /\ bridge_task' = [bridge_task EXCEPT ![c] = c]
  /\ UNCHANGED <<managerVars, session_sink, backend_tx, event_task, wsHandlerVars, timer>>

\* restart_bridge: the old task is aborted, the sender replaced.
RestartBridge(c) ==
  /\ WsAt(c, "bridge", "consume")
  /\ session[c] # c
  /\ bridge_reads' = [bridge_reads EXCEPT ![session[c]] = TRUE]
  /\ bridge_task' = [bridge_task EXCEPT ![session[c]] = c]
  /\ backend_tx' = [backend_tx EXCEPT ![session[c]] = c]
  /\ UNCHANGED <<managerVars, session_sink, event_task, wsHandlerVars, timer>>

\* The consumer is spawned; set_event_task aborts the one before it.
StartConsumer(c) ==
  /\ WsAt(c, "consume", "mark")
  /\ event_task' = [event_task EXCEPT ![session[c]] = TRUE]
  /\ UNCHANGED <<managerVars, session_sink, backend_tx, bridge_reads, bridge_task,
                 wsHandlerVars, timer>>

MarkSeen(c) ==
  /\ WsAt(c, "mark", "loop")
  /\ session_last_seen' = session_last_seen \cup {client[c]}
  /\ UNCHANGED <<session_map, objectVars, wsHandlerVars, timer>>

\* Any message of the browser, a heartbeat's answer at least.
Receive(c) ==
  /\ WsAt(c, "loop", "loop")
  /\ session_last_seen' = session_last_seen \cup {client[c]}
  /\ UNCHANGED <<session_map, objectVars, wsHandlerVars, timer>>

\* Mutant: the sink is taken out of the session registered by now.
CloseRegistered(c) ==
  /\ WsAt(c, "loop", "forget")
  /\ session_sink' = [o \in WebSocket |->
                      IF o = session_map[client[c]] THEN NoObject ELSE session_sink[o]]
  /\ timer' = [timer EXCEPT ![c] = "waiting"]
  /\ UNCHANGED <<managerVars, backend_tx, bridge_reads, bridge_task, event_task,
                 wsHandlerVars>>

\* The WebSocket is found closed: the session's sink "ws" is removed, whoever
\* registered it, and the timer is left behind.
Close(c) ==
  /\ WsAt(c, "loop", "forget")
  /\ session_sink' = [session_sink EXCEPT ![session[c]] = NoObject]
  /\ timer' = [timer EXCEPT ![c] = "waiting"]
  /\ UNCHANGED <<managerVars, backend_tx, bridge_reads, bridge_task, event_task,
                 wsHandlerVars>>

Forget(c) ==
  /\ WsAt(c, "forget", "done")
  /\ session_last_seen' = session_last_seen \ {client[c]}
  /\ UNCHANGED <<session_map, objectVars, wsHandlerVars, timer>>

----------------------------------------------------------------------------
(* The timers *)

\* 300 s later: the sinks of the handler's own session object are counted, ...
TimerFires(c) ==
  /\ timer[c] = "waiting"
  /\ timer' = [timer EXCEPT
       ![c] = IF session_sink[session[c]] = NoObject THEN "removing" ELSE "ended"]
  /\ UNCHANGED <<managerVars, objectVars, pc, wsHandlerVars>>

\* ... and the session under its id is removed.
TimerRemoves(c) ==
  /\ timer[c] = "removing"
  /\ timer' = [timer EXCEPT ![c] = "ended"]
  /\ RemoveSession(client[c])
  /\ UNCHANGED <<session_last_seen, pc, wsHandlerVars>>

----------------------------------------------------------------------------

BrowsersInit ==
  /\ session_map = [id \in BrowserId |-> NoObject]
  /\ session_last_seen = {}
  /\ session_sink = [o \in WebSocket |-> NoObject]
  /\ backend_tx = [o \in WebSocket |-> NoObject]
  /\ bridge_reads = [o \in WebSocket |-> FALSE]
  /\ bridge_task = [o \in WebSocket |-> NoObject]
  /\ event_task = [o \in WebSocket |-> FALSE]
  /\ pc = [c \in WebSocket |-> "idle"]
  /\ client = [c \in WebSocket |-> NoObject]
  /\ session = [c \in WebSocket |-> NoObject]
  /\ snapshot = [c \in WebSocket |-> {}]
  /\ stale = [c \in WebSocket |-> {}]
  /\ victim = [c \in WebSocket |-> {}]
  /\ timer = [c \in WebSocket |-> "none"]

\* The steps a handler takes by itself.
Handle(c) ==
  \/ Lookup(c) \/ Create(c)
  \/ Snapshot(c) \/ Collect(c) \/ Reap(c) \/ ForgetVictim(c) \/ Reaped(c)
  \/ SendInit(c) \/ InitFails(c)
  \/ AttachWs(c) \/ StartBridge(c) \/ RestartBridge(c) \/ StartConsumer(c)
  \/ MarkSeen(c) \/ Forget(c)

BrowsersNext ==
  \E c \in WebSocket :
    Open(c) \/ Handle(c) \/ Receive(c) \/ Close(c) \/ TimerFires(c) \/ TimerRemoves(c)

BrowsersSpec == BrowsersInit /\ [][BrowsersNext]_browsersVars

----------------------------------------------------------------------------
(* Properties *)

\* Steps at which a handler holds its session, has its sink in it, has its
\* consumer running.
Holding == {"snapshot", "collect", "reap", "forget_victim", "init", "attach",
            "bridge", "consume", "mark", "loop"}
Attached == {"bridge", "consume", "mark", "loop"}
Serving == {"mark", "loop"}

\* The type invariant: ids and session objects are never mixed up.
BrowsersTypeOK ==
  /\ session_map \in [BrowserId -> WebSocket \cup {NoObject}]
  /\ session_last_seen \subseteq BrowserId
  /\ session_sink \in [WebSocket -> WebSocket \cup {NoObject}]
  /\ backend_tx \in [WebSocket -> WebSocket \cup {NoObject}]
  /\ bridge_reads \in [WebSocket -> BOOLEAN]
  /\ bridge_task \in [WebSocket -> WebSocket \cup {NoObject}]
  /\ event_task \in [WebSocket -> BOOLEAN]
  /\ pc \in [WebSocket -> Holding \cup {"idle", "lookup", "create", "forget", "done"}]
  /\ client \in [WebSocket -> BrowserId \cup {NoObject}]
  /\ session \in [WebSocket -> WebSocket \cup {NoObject}]
  /\ snapshot \in [WebSocket -> SUBSET BrowserId]
  /\ stale \in [WebSocket -> SUBSET BrowserId]
  /\ victim \in [WebSocket -> SUBSET BrowserId]
  /\ timer \in [WebSocket -> {"none", "waiting", "removing", "ended"}]

\* A sink belongs to a handler that still runs: frames are never routed to a
\* WebSocket that is gone, where they would be lost without a trace.
SinkIsLive ==
  \A o \in WebSocket : LET c == session_sink[o] IN
    c # NoObject => pc[c] \in Attached /\ session[c] = o

\* A connected browser whose session is registered is served: a bridge reads
\* the channel its event consumer writes to, and the consumer runs, whatever
\* reapers, timers and other handlers of that browser did meanwhile.
ConnectedIsServed ==
  \A c \in WebSocket : LET o == session[c] IN
    (pc[c] \in Serving /\ session_map[client[c]] = o)
      => bridge_reads[o] /\ event_task[o]

\* No handler uses the session object any more.
Unused(o) == \A c \in WebSocket : session[c] = o => pc[c] \notin Holding

\* web.rs on the cleanup at the end of a handler ("must still be cleaned up"):
\* a registered session that nobody uses is eventually removed or used again.
AbandonedIsRemoved ==
  \A id \in BrowserId : \A o \in WebSocket :
    (session_map[id] = o /\ Unused(o)) ~> (session_map[id] # o \/ ~Unused(o))

\* web.rs on the reaper: what it destroys is a session whose WebSocket has
\* disconnected, never one whose browser is connected or just connecting.
DestroyedOnlyWhenGone ==
  [][\A id \in BrowserId : \A c \in WebSocket :
       Reap(c) /\ session_map[id] # NoObject /\ session_map'[id] = NoObject
         => Unused(session_map[id])]_browsersVars

=============================================================================
