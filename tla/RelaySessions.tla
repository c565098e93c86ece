--------------------------- MODULE RelaySessions ---------------------------
(***************************************************************************)
(* The browser sessions of the GPU relay: handle_browser_ws of             *)
(* crates/b3-gpu-relay/src/main.rs up to its read loop, its cleanup, and   *)
(* the 300 s timer it leaves.  Unlike the daemon (DaemonSession) the relay *)
(* turns a second WebSocket of a session away while the first has its sink *)
(* registered.  Every await between two shared accesses is a step          *)
(* boundary.  What a session carries is the business of RelayJobs; WebRTC  *)
(* sinks exist only under an experimental build feature.                   *)
(***************************************************************************)
EXTENDS Naturals

CONSTANTS
  Browser,   \* by the session_id they send
  Socket,    \* bound: the WebSockets ever opened
  Nobody

ASSUME RelaySessionsAssumption == Nobody \notin Socket

VARIABLES
  sessions,   \* SessionManager: the session object under each id; an object is
              \* named by the handler that created it
  ws_sink,    \* of a session object: the handler whose sink is "ws"
  hpc, hclient, hsession, \* handlers: next step, session id, session object
  ttl         \* the timers handlers leave behind

sessionsVars == <<sessions, ws_sink, hpc, hclient, hsession, ttl>>

HandlerAt(c, here, next) == hpc[c] = here /\ hpc' = [hpc EXCEPT ![c] = next]

----------------------------------------------------------------------------
(* handle_browser_ws *)

\* reconnect_or_create: the lookup and the insertion take the lock separately.
OpenSocket(c) ==
  /\ hpc[c] = "idle"
  /\ \E id \in Browser :
       /\ hclient' = [hclient EXCEPT ![c] = id]
       /\ hsession' = [hsession EXCEPT ![c] = sessions[id]]
       /\ hpc' = [hpc EXCEPT ![c] = IF sessions[id] = Nobody THEN "create" ELSE "check"]
  /\ UNCHANGED <<sessions, ws_sink, ttl>>

CreateSession(c) ==
  /\ HandlerAt(c, "create", "check")
  /\ hsession' = [hsession EXCEPT ![c] = c]
  /\ sessions' = [sessions EXCEPT ![hclient[c]] = c]
  /\ UNCHANGED <<ws_sink, hclient, ttl>>

\* has_transport("ws"): a duplicate is turned away, and leaves nothing behind.
CheckDuplicate(c) ==
  /\ hpc[c] = "check"
  /\ hpc' = [hpc EXCEPT
       ![c] = IF ws_sink[hsession[c]] # Nobody THEN "done" ELSE "remove_old"]
  /\ UNCHANGED <<sessions, ws_sink, hclient, hsession, ttl>>

RemoveOldSink(c) ==
  /\ HandlerAt(c, "remove_old", "attach")
  /\ ws_sink' = [ws_sink EXCEPT ![hsession[c]] = Nobody]
  /\ UNCHANGED <<sessions, hclient, hsession, ttl>>

\* Mutant: the sink goes by the session's id.
AttachSinkById(c) ==
  /\ HandlerAt(c, "attach", "loop")
  /\ ws_sink' = [ws_sink EXCEPT ![hsession[c]] = hclient[c]]
  /\ UNCHANGED <<sessions, hclient, hsession, ttl>>

\* add_transport replaces a sink of the same name.
AttachSink(c) ==
  /\ HandlerAt(c, "attach", "loop")
  /\ ws_sink' = [ws_sink EXCEPT ![hsession[c]] = c]
  /\ UNCHANGED <<sessions, hclient, hsession, ttl>>

SocketCloses(c) ==
  /\ HandlerAt(c, "loop", "cleanup")
  /\ UNCHANGED <<sessions, ws_sink, hclient, hsession, ttl>>

\* Mutant: no timer is left behind.
SocketCleanupLeavesNothing(c) ==
  /\ HandlerAt(c, "cleanup", "done")
  /\ ws_sink' = [ws_sink EXCEPT ![hsession[c]] = Nobody]
  /\ UNCHANGED <<sessions, hclient, hsession, ttl>>

\* Mutant: the sink stays registered.
SocketCleanupKeepsSink(c) ==
  /\ HandlerAt(c, "cleanup", "done")
  /\ ttl' = [ttl EXCEPT ![c] = "waiting"]
  /\ UNCHANGED <<sessions, ws_sink, hclient, hsession>>

\* The sink "ws" goes, whoever registered it; the timer stays.
SocketCleanup(c) ==
  /\ HandlerAt(c, "cleanup", "done")
  /\ ws_sink' = [ws_sink EXCEPT ![hsession[c]] = Nobody]
  /\ ttl' = [ttl EXCEPT ![c] = "waiting"]
  /\ UNCHANGED <<sessions, hclient, hsession>>

\* 300 s later: the sinks of the session registered under the id, ...
StaleCheck(c) ==
  /\ ttl[c] = "waiting"
  /\ LET o == sessions[hclient[c]] IN
     ttl' = [ttl EXCEPT
       ![c] = IF o # Nobody /\ ws_sink[o] = Nobody THEN "removing" ELSE "ended"]
  /\ UNCHANGED <<sessions, ws_sink, hpc, hclient, hsession>>

\* ... and, by a lookup of its own, the removal.
StaleRemove(c) ==
  /\ ttl[c] = "removing"
  /\ ttl' = [ttl EXCEPT ![c] = "ended"]
  /\ sessions' = [sessions EXCEPT ![hclient[c]] = Nobody]
  /\ UNCHANGED <<ws_sink, hpc, hclient, hsession>>

----------------------------------------------------------------------------

SessionsInit ==
  /\ sessions = [id \in Browser |-> Nobody]
  /\ ws_sink = [o \in Socket |-> Nobody]
  /\ hpc = [c \in Socket |-> "idle"]
  /\ hclient = [c \in Socket |-> Nobody] /\ hsession = [c \in Socket |-> Nobody]
  /\ ttl = [c \in Socket |-> "none"]

\* The steps a handler takes by itself.
SetUp(c) == CreateSession(c) \/ CheckDuplicate(c) \/ RemoveOldSink(c) \/ AttachSink(c)

SessionsNext ==
  \E c \in Socket :
    OpenSocket(c) \/ SetUp(c) \/ SocketCloses(c) \/ SocketCleanup(c) \/ StaleCheck(c)
      \/ StaleRemove(c)

SessionsSpec == SessionsInit /\ [][SessionsNext]_sessionsVars

\* What is sure to happen: handlers run and timers fire.
SessionsSure(c) == SetUp(c) \/ SocketCleanup(c) \/ StaleCheck(c) \/ StaleRemove(c)

----------------------------------------------------------------------------
(* Properties *)

\* Steps at which a handler has its sink in its session, and holds its session.
HasSink == {"loop", "cleanup"}
Holds == HasSink \cup {"check", "remove_old", "attach"}

\* The type invariant: ids and session objects are never mixed up.
SessionsTypeOK ==
  /\ sessions \in [Browser -> Socket \cup {Nobody}]
  /\ ws_sink \in [Socket -> Socket \cup {Nobody}]
  /\ hpc \in [Socket -> Holds \cup {"idle", "create", "done"}]
  /\ hclient \in [Socket -> Browser \cup {Nobody}]
  /\ hsession \in [Socket -> Socket \cup {Nobody}]
  /\ ttl \in [Socket -> {"none", "waiting", "removing", "ended"}]

\* The sink of a session is that of a handler that still runs: answers are kept
\* in the session while its browser is away, never sent into a closed socket.
RelaySinkIsLive ==
  \A o \in Socket : LET c == ws_sink[o] IN
    c # Nobody => hpc[c] \in HasSink /\ hsession[c] = o

Held(o) == \E c \in Socket : hsession[c] = o /\ hpc[c] \in Holds

\* main.rs:480 ("clean up sessions that haven't reconnected after 5 minutes"):
\* a session no handler holds is removed, or held again.
StaleSessionRemoved ==
  \A id \in Browser, o \in Socket :
    (sessions[id] = o /\ ~Held(o)) ~> (sessions[id] # o \/ Held(o))

=============================================================================
