--------------------------- MODULE Daemon_proofs ----------------------------
(***************************************************************************)
(* Theorems about the daemon process: its browser sessions, its WebRTC     *)
(* peers, the files by which it is found, its archive of speech, and its   *)
(* data channels.                                                          *)
(***************************************************************************)
EXTENDS DaemonSession, DaemonPeers, DaemonLifecycle, SpeechArchive, DataChannel,
        FiniteSetTheorems, SequenceTheorems, TLAPS

-----------------------------------------------------------------------------
(***************************************************************************)
(* Two properties of the daemon's browser sessions for any number of       *)
(* browsers and WebSockets: a registered sink is that of a running         *)
(* handler, and a connected browser whose session is registered is served. *)
(*                                                                         *)
(* The second needs to know why nobody can take bridge and consumer away   *)
(* from a registered session.  They are only destroyed together with the   *)
(* entry that was looked up, an object is registered under its creator's   *)
(* id alone, and it is registered once: so a destroyed object is never     *)
(* registered again, and what holds of a registered one held since its     *)
(* creation.                                                               *)
(***************************************************************************)

\* A handler that runs knows its browser.
ClientKnown == \A c \in WebSocket : pc[c] # "idle" => client[c] \in BrowserId

BrowsersTyped == BrowsersTypeOK /\ ClientKnown

LEMMA TypedInit == BrowsersInit => BrowsersTyped
BY DEF BrowsersInit, BrowsersTyped, BrowsersTypeOK, ClientKnown, Holding

\* No step mixes up ids and session objects.
LEMMA StaysTyped ==
  BrowsersTyped /\ [BrowsersNext]_browsersVars => BrowsersTyped'
<1> SUFFICES ASSUME BrowsersTyped, [BrowsersNext]_browsersVars
             PROVE  BrowsersTyped'
  OBVIOUS
<1> USE DEF BrowsersTyped, BrowsersTypeOK, ClientKnown, WsAt, Holding, managerVars,
        objectVars, wsHandlerVars
<1>1. ASSUME NEW c \in WebSocket, Open(c)
      PROVE  BrowsersTyped'
  BY <1>1 DEF Open
<1>2. ASSUME NEW c \in WebSocket, Lookup(c)
      PROVE  BrowsersTyped'
  BY <1>2 DEF Lookup
<1>3. ASSUME NEW c \in WebSocket, Create(c)
      PROVE  BrowsersTyped'
  BY <1>3 DEF Create
<1>4. ASSUME NEW c \in WebSocket, Snapshot(c)
      PROVE  BrowsersTyped'
  BY <1>4 DEF Snapshot
<1>5. ASSUME NEW c \in WebSocket, Collect(c)
      PROVE  BrowsersTyped'
  BY <1>5 DEF Collect
<1>6. ASSUME NEW c \in WebSocket, Reap(c)
      PROVE  BrowsersTyped'
  <2>1. PICK id \in BrowserId : RemoveSession(id) /\ stale' = [stale EXCEPT ![c] = @ \ {id}]
                                /\ victim' = [victim EXCEPT ![c] = {id}]
    BY <1>6 DEF Reap
  <2>2. /\ session_map' \in [BrowserId -> WebSocket \cup {NoObject}]
        /\ session_sink' \in [WebSocket -> WebSocket \cup {NoObject}]
        /\ backend_tx' \in [WebSocket -> WebSocket \cup {NoObject}]
        /\ bridge_reads' \in [WebSocket -> BOOLEAN]
        /\ bridge_task' \in [WebSocket -> WebSocket \cup {NoObject}]
        /\ event_task' \in [WebSocket -> BOOLEAN]
    BY <2>1 DEF RemoveSession, Destroy
  <2>3. /\ stale' \in [WebSocket -> SUBSET BrowserId]
        /\ victim' \in [WebSocket -> SUBSET BrowserId]
    BY <2>1
  <2> QED
    BY <1>6, <2>2, <2>3 DEF Reap
<1>7. ASSUME NEW c \in WebSocket, ForgetVictim(c)
      PROVE  BrowsersTyped'
  BY <1>7 DEF ForgetVictim
<1>8. ASSUME NEW c \in WebSocket, Reaped(c)
      PROVE  BrowsersTyped'
  BY <1>8 DEF Reaped
<1>9. ASSUME NEW c \in WebSocket, SendInit(c)
      PROVE  BrowsersTyped'
  BY <1>9 DEF SendInit
<1>10. ASSUME NEW c \in WebSocket, InitFails(c)
      PROVE  BrowsersTyped'
  BY <1>10 DEF InitFails, RemoveSession, Destroy
<1>11. ASSUME NEW c \in WebSocket, AttachWs(c)
      PROVE  BrowsersTyped'
  BY <1>11 DEF AttachWs
<1>12. ASSUME NEW c \in WebSocket, StartBridge(c)
      PROVE  BrowsersTyped'
  BY <1>12 DEF StartBridge
<1>13. ASSUME NEW c \in WebSocket, RestartBridge(c)
      PROVE  BrowsersTyped'
  BY <1>13 DEF RestartBridge
<1>14. ASSUME NEW c \in WebSocket, StartConsumer(c)
      PROVE  BrowsersTyped'
  BY <1>14 DEF StartConsumer
<1>15. ASSUME NEW c \in WebSocket, MarkSeen(c)
      PROVE  BrowsersTyped'
  BY <1>15 DEF MarkSeen
<1>16. ASSUME NEW c \in WebSocket, Receive(c)
      PROVE  BrowsersTyped'
  BY <1>16 DEF Receive
<1>17. ASSUME NEW c \in WebSocket, Close(c)
      PROVE  BrowsersTyped'
  BY <1>17 DEF Close
<1>18. ASSUME NEW c \in WebSocket, Forget(c)
      PROVE  BrowsersTyped'
  BY <1>18 DEF Forget
<1>19. ASSUME NEW c \in WebSocket, TimerFires(c)
      PROVE  BrowsersTyped'
  BY <1>19 DEF TimerFires
<1>20. ASSUME NEW c \in WebSocket, TimerRemoves(c)
      PROVE  BrowsersTyped'
  BY <1>20 DEF TimerRemoves, RemoveSession, Destroy
<1>21. CASE UNCHANGED browsersVars
  BY <1>21 DEF browsersVars, managerVars, objectVars, wsHandlerVars
<1> QED
  BY <1>1, <1>2, <1>3, <1>4, <1>5, <1>6, <1>7, <1>8, <1>9, <1>10, <1>11,
     <1>12, <1>13, <1>14, <1>15, <1>16, <1>17, <1>18, <1>19, <1>20, <1>21
  DEF BrowsersNext, Handle

----------------------------------------------------------------------------
(* Sinks *)

\* Every step leaves only sinks of handlers that run, in their own sessions.
LEMMA DaemonSinksStayLive ==
  BrowsersTypeOK /\ SinkIsLive /\ [BrowsersNext]_browsersVars => SinkIsLive'
<1> SUFFICES ASSUME BrowsersTypeOK, SinkIsLive, [BrowsersNext]_browsersVars,
                    NEW o \in WebSocket, session_sink'[o] # NoObject
             PROVE  pc'[session_sink'[o]] \in Attached /\ session'[session_sink'[o]] = o
  BY DEF SinkIsLive
<1> DEFINE w == session_sink'[o]
<1> USE NoObjectAssumption DEF BrowsersTypeOK, SinkIsLive, WsAt, Attached, managerVars,
        objectVars, wsHandlerVars
<1>1. ASSUME NEW c \in WebSocket, Open(c)
      PROVE  pc'[w] \in Attached /\ session'[w] = o
  BY <1>1 DEF Open
<1>2. ASSUME NEW c \in WebSocket, Lookup(c)
      PROVE  pc'[w] \in Attached /\ session'[w] = o
  BY <1>2 DEF Lookup
<1>3. ASSUME NEW c \in WebSocket, Create(c)
      PROVE  pc'[w] \in Attached /\ session'[w] = o
  BY <1>3 DEF Create
<1>4. ASSUME NEW c \in WebSocket, Snapshot(c)
      PROVE  pc'[w] \in Attached /\ session'[w] = o
  BY <1>4 DEF Snapshot
<1>5. ASSUME NEW c \in WebSocket, Collect(c)
      PROVE  pc'[w] \in Attached /\ session'[w] = o
  BY <1>5 DEF Collect
<1>6. ASSUME NEW c \in WebSocket, Reap(c)
      PROVE  pc'[w] \in Attached /\ session'[w] = o
  BY <1>6 DEF Reap, RemoveSession, Destroy
<1>7. ASSUME NEW c \in WebSocket, ForgetVictim(c)
      PROVE  pc'[w] \in Attached /\ session'[w] = o
  BY <1>7 DEF ForgetVictim
<1>8. ASSUME NEW c \in WebSocket, Reaped(c)
      PROVE  pc'[w] \in Attached /\ session'[w] = o
  BY <1>8 DEF Reaped
<1>9. ASSUME NEW c \in WebSocket, SendInit(c)
      PROVE  pc'[w] \in Attached /\ session'[w] = o
  BY <1>9 DEF SendInit
<1>10. ASSUME NEW c \in WebSocket, InitFails(c)
      PROVE  pc'[w] \in Attached /\ session'[w] = o
  BY <1>10 DEF InitFails, RemoveSession, Destroy
\* The sink attached is that of a handler that goes on to its bridge.
<1>11. ASSUME NEW c \in WebSocket, AttachWs(c)
      PROVE  pc'[w] \in Attached /\ session'[w] = o
  <2>1. CASE session[c] = o
    BY <1>11, <2>1 DEF AttachWs
  <2>2. CASE session[c] # o
    BY <1>11, <2>2 DEF AttachWs
  <2> QED
    BY <2>1, <2>2
<1>12. ASSUME NEW c \in WebSocket, StartBridge(c)
      PROVE  pc'[w] \in Attached /\ session'[w] = o
  BY <1>12 DEF StartBridge
<1>13. ASSUME NEW c \in WebSocket, RestartBridge(c)
      PROVE  pc'[w] \in Attached /\ session'[w] = o
  BY <1>13 DEF RestartBridge
<1>14. ASSUME NEW c \in WebSocket, StartConsumer(c)
      PROVE  pc'[w] \in Attached /\ session'[w] = o
  BY <1>14 DEF StartConsumer
<1>15. ASSUME NEW c \in WebSocket, MarkSeen(c)
      PROVE  pc'[w] \in Attached /\ session'[w] = o
  BY <1>15 DEF MarkSeen
<1>16. ASSUME NEW c \in WebSocket, Receive(c)
      PROVE  pc'[w] \in Attached /\ session'[w] = o
  BY <1>16 DEF Receive
\* A handler that ends has emptied the one place its sink can be.
<1>17. ASSUME NEW c \in WebSocket, Close(c)
      PROVE  pc'[w] \in Attached /\ session'[w] = o
  <2>1. session[c] # o /\ w = session_sink[o]
    BY <1>17 DEF Close
  <2>2. w # c
    BY <2>1
  <2> QED
    BY <1>17, <2>1, <2>2 DEF Close
<1>18. ASSUME NEW c \in WebSocket, Forget(c)
      PROVE  pc'[w] \in Attached /\ session'[w] = o
  BY <1>18 DEF Forget
<1>19. ASSUME NEW c \in WebSocket, TimerFires(c)
      PROVE  pc'[w] \in Attached /\ session'[w] = o
  BY <1>19 DEF TimerFires
<1>20. ASSUME NEW c \in WebSocket, TimerRemoves(c)
      PROVE  pc'[w] \in Attached /\ session'[w] = o
  BY <1>20 DEF TimerRemoves, RemoveSession, Destroy
<1>21. CASE UNCHANGED browsersVars
  BY <1>21 DEF browsersVars, managerVars, objectVars, wsHandlerVars
<1> QED
  BY <1>1, <1>2, <1>3, <1>4, <1>5, <1>6, <1>7, <1>8, <1>9, <1>10, <1>11,
     <1>12, <1>13, <1>14, <1>15, <1>16, <1>17, <1>18, <1>19, <1>20, <1>21
  DEF BrowsersNext, Handle

\* A registered sink is that of a handler that still runs and keeps this
\* session: no frame is handed to the WebSocket of a handler that has ended.
THEOREM SinksLive == BrowsersSpec => []SinkIsLive
<1>1. BrowsersInit => BrowsersTyped /\ SinkIsLive
  BY TypedInit DEF BrowsersInit, SinkIsLive
<1>2. BrowsersTyped /\ SinkIsLive /\ [BrowsersNext]_browsersVars
        => BrowsersTyped' /\ SinkIsLive'
  BY StaysTyped, DaemonSinksStayLive DEF BrowsersTyped
<1> QED
  BY <1>1, <1>2, PTL DEF BrowsersSpec

----------------------------------------------------------------------------
(* Bridges and consumers *)

\* A handler that has looked its session up, or created it.
Created(c) == pc[c] \notin {"idle", "lookup", "create"}

PastBridge == {"consume", "mark", "loop"}

Registered(o) == client[o] \in BrowserId /\ session_map[client[o]] = o

\* An object is registered under its creator's id only.
MapNamesCreators ==
  \A id \in BrowserId : session_map[id] # NoObject =>
    client[session_map[id]] = id /\ Created(session_map[id])

\* A handler keeps a session that was created under its browser's id.
HoldsKnown ==
  \A c \in WebSocket : Created(c) =>
    /\ session[c] \in WebSocket
    /\ client[session[c]] = client[c]
    /\ Created(session[c])

\* Timers are left by handlers at their end.
TimerOfCreated == \A c \in WebSocket : timer[c] # "none" => Created(c)

\* A registered session whose channel was replaced, or that a handler has
\* brought past its bridge, is read.
BridgeRuns ==
  \A o \in WebSocket : Registered(o) =>
    /\ backend_tx[o] # o => bridge_reads[o]
    /\ \A c \in WebSocket : pc[c] \in PastBridge /\ session[c] = o => bridge_reads[o]

ConsumerRuns ==
  \A c \in WebSocket : pc[c] \in Serving /\ Registered(session[c]) => event_task[session[c]]

\* The inductive invariant.
BrowsersServed == /\ BrowsersTyped
                  /\ MapNamesCreators /\ HoldsKnown /\ TimerOfCreated
                  /\ BridgeRuns /\ ConsumerRuns

----------------------------------------------------------------------------
(* What the steps do to the invariant *)

\* A step that touches no session object and no entry, and creates nothing.
LEMMA QuietServed ==
  ASSUME BrowsersServed, BrowsersTyped',
         UNCHANGED <<session_map, backend_tx, bridge_reads, event_task, client, session>>,
         \A d \in WebSocket : /\ Created(d)' <=> Created(d)
                              /\ pc'[d] \in PastBridge => pc[d] \in PastBridge
                              /\ pc'[d] \in Serving => pc[d] \in Serving
                              /\ timer'[d] # "none" => timer[d] # "none" \/ Created(d)
  PROVE  BrowsersServed'
<1> USE DEF BrowsersServed, BrowsersTyped, BrowsersTypeOK
<1>1. MapNamesCreators'
  BY DEF MapNamesCreators
<1>2. HoldsKnown'
  BY DEF HoldsKnown
<1>3. TimerOfCreated'
  BY DEF TimerOfCreated
<1>4. BridgeRuns'
  BY DEF BridgeRuns, Registered
<1>5. ConsumerRuns'
  BY DEF ConsumerRuns, Registered
<1> QED
  BY <1>1, <1>2, <1>3, <1>4, <1>5

\* Removing an entry destroys its object, which was registered under this id
\* only: the objects still registered are untouched.
LEMMA RemoveServed ==
  ASSUME BrowsersServed, BrowsersTyped',
         NEW id \in BrowserId, RemoveSession(id),
         UNCHANGED <<client, session>>,
         \A d \in WebSocket : /\ Created(d)' <=> Created(d)
                              /\ pc'[d] \in PastBridge => pc[d] \in PastBridge
                              /\ pc'[d] \in Serving => pc[d] \in Serving
                              /\ timer'[d] # "none" => timer[d] # "none"
  PROVE  BrowsersServed'
<1> USE NoObjectAssumption DEF BrowsersServed, BrowsersTyped, BrowsersTypeOK
<1>1. session_map' = [session_map EXCEPT ![id] = NoObject]
  BY DEF RemoveSession
<1>2. ASSUME NEW o \in WebSocket, Registered(o)'
      PROVE  /\ Registered(o) /\ o # session_map[id]
             /\ backend_tx'[o] = backend_tx[o]
             /\ bridge_reads'[o] = bridge_reads[o]
             /\ event_task'[o] = event_task[o]
  <2>1. Registered(o) /\ client[o] # id
    BY <1>1, <1>2 DEF Registered
  <2>2. o # session_map[id]
    BY <2>1 DEF MapNamesCreators
  <2> QED
    BY <2>1, <2>2 DEF RemoveSession, Destroy, objectVars
<1>3. MapNamesCreators'
  BY <1>1 DEF MapNamesCreators
<1>4. HoldsKnown'
  BY DEF HoldsKnown
<1>5. TimerOfCreated'
  BY DEF TimerOfCreated
<1>6. BridgeRuns'
  BY <1>2 DEF BridgeRuns
<1>7. ConsumerRuns'
  <2> SUFFICES ASSUME NEW c \in WebSocket, pc'[c] \in Serving, Registered(session[c])'
               PROVE  event_task'[session[c]]
    BY DEF ConsumerRuns
  <2>1. session[c] \in WebSocket
    BY DEF HoldsKnown, Created, Serving
  <2> QED
    BY <1>2, <2>1 DEF ConsumerRuns
<1> QED
  BY <1>3, <1>4, <1>5, <1>6, <1>7

\* A handler that only now learns its browser has created and holds nothing.
LEMMA OpenServed ==
  ASSUME BrowsersServed, BrowsersTyped', NEW c \in WebSocket, Open(c)
  PROVE  BrowsersServed'
<1> USE NoObjectAssumption
    DEF BrowsersServed, BrowsersTyped, BrowsersTypeOK, Open, WsAt, managerVars, objectVars
<1>1. ~Created(c) /\ ~Created(c)'
  BY DEF Created
<1>2. ASSUME NEW d \in WebSocket, d # c
      PROVE  pc'[d] = pc[d] /\ client'[d] = client[d] /\ Created(d)' <=> Created(d)
  BY <1>2 DEF Created
<1>3. ASSUME NEW o \in WebSocket, Created(o)
      PROVE  Registered(o)' => Registered(o)
  BY <1>1, <1>2, <1>3 DEF Registered
<1>4. MapNamesCreators'
  BY <1>1, <1>2 DEF MapNamesCreators
<1>5. HoldsKnown'
  BY <1>1, <1>2 DEF HoldsKnown
<1>6. TimerOfCreated'
  BY <1>1, <1>2 DEF TimerOfCreated
<1>7. \A o \in WebSocket : Registered(o)' => Created(o) /\ Registered(o)
  BY <1>1, <1>2, <1>3, <1>4 DEF Registered, MapNamesCreators
<1>8. BridgeRuns'
  BY <1>1, <1>2, <1>7 DEF BridgeRuns, Created, PastBridge
<1>9. ConsumerRuns'
  BY <1>1, <1>2, <1>5, <1>7 DEF ConsumerRuns, HoldsKnown, Created, Serving
<1> QED
  BY <1>4, <1>5, <1>6, <1>8, <1>9

\* What a lookup finds was created under the id looked up.
LEMMA LookupServed ==
  ASSUME BrowsersServed, BrowsersTyped', NEW c \in WebSocket, Lookup(c)
  PROVE  BrowsersServed'
<1> USE NoObjectAssumption
    DEF BrowsersServed, BrowsersTyped, BrowsersTypeOK, Lookup, managerVars, objectVars
<1> DEFINE found == session_map[client[c]]
<1>1. client[c] \in BrowserId /\ ~Created(c) /\ pc'[c] \in {"create", "snapshot"}
  BY DEF ClientKnown, Created
<1>2. ASSUME NEW d \in WebSocket, d # c
      PROVE  pc'[d] = pc[d] /\ session'[d] = session[d] /\ Created(d)' <=> Created(d)
  BY <1>2 DEF Created
<1>3. Created(c)' => found # NoObject /\ session'[c] = found
  BY <1>1 DEF Created
<1>4. found # NoObject => found \in WebSocket /\ found # c
                            /\ client[found] = client[c] /\ Created(found)
  BY <1>1 DEF MapNamesCreators
<1>5. MapNamesCreators'
  BY <1>1, <1>2 DEF MapNamesCreators
<1>6. HoldsKnown'
  <2> SUFFICES ASSUME NEW d \in WebSocket, Created(d)'
               PROVE  /\ session'[d] \in WebSocket
                      /\ client[session'[d]] = client[d] /\ Created(session[d])'
    BY DEF HoldsKnown
  <2>1. CASE d = c
    BY <1>2, <1>3, <1>4, <2>1
  <2>2. CASE d # c
    BY <1>1, <1>2, <2>2 DEF HoldsKnown
  <2> QED
    BY <2>1, <2>2
<1>7. TimerOfCreated'
  BY <1>1, <1>2 DEF TimerOfCreated
<1>8. \A o \in WebSocket : Registered(o)' <=> Registered(o)
  BY DEF Registered
<1>9. BridgeRuns'
  BY <1>1, <1>2, <1>8 DEF BridgeRuns, PastBridge
<1>10. ConsumerRuns'
  BY <1>1, <1>2, <1>6, <1>8 DEF ConsumerRuns, Serving, HoldsKnown, Created
<1> QED
  BY <1>5, <1>6, <1>7, <1>9, <1>10

\* A new object is registered for the first time; no other handler keeps it yet.
LEMMA CreateServed ==
  ASSUME BrowsersServed, BrowsersTyped', NEW c \in WebSocket, Create(c)
  PROVE  BrowsersServed'
<1> USE NoObjectAssumption DEF BrowsersServed, BrowsersTyped, BrowsersTypeOK, Create, WsAt
<1>1. client[c] \in BrowserId /\ ~Created(c) /\ Created(c)' /\ pc'[c] = "snapshot"
  BY DEF ClientKnown, Created
<1>2. ASSUME NEW d \in WebSocket, d # c
      PROVE  /\ pc'[d] = pc[d] /\ session'[d] = session[d] /\ Created(d)' <=> Created(d)
             /\ backend_tx'[d] = backend_tx[d]
  BY <1>2 DEF Created
<1>3. session'[c] = c /\ backend_tx'[c] = c
  OBVIOUS
<1>4. MapNamesCreators'
  BY <1>1, <1>2 DEF MapNamesCreators
<1>5. HoldsKnown'
  BY <1>1, <1>2, <1>3 DEF HoldsKnown
<1>6. TimerOfCreated'
  BY <1>1, <1>2 DEF TimerOfCreated
<1>7. ASSUME NEW d \in WebSocket, d # c, Created(d)
      PROVE  session'[d] = session[d] /\ session[d] # c /\ session[d] \in WebSocket
  BY <1>1, <1>2, <1>7 DEF HoldsKnown
<1>8. ASSUME NEW o \in WebSocket, o # c
      PROVE  Registered(o)' => Registered(o)
  BY <1>1, <1>8 DEF Registered
<1>9. BridgeRuns'
  BY <1>1, <1>2, <1>3, <1>7, <1>8 DEF BridgeRuns, PastBridge, Created
<1>10. ConsumerRuns'
  BY <1>1, <1>2, <1>7, <1>8 DEF ConsumerRuns, Serving, Created
<1> QED
  BY <1>4, <1>5, <1>6, <1>9, <1>10

\* The creator's bridge reads, or somebody has replaced it by one that does.
LEMMA StartBridgeServed ==
  ASSUME BrowsersServed, BrowsersTyped', NEW c \in WebSocket, StartBridge(c)
  PROVE  BrowsersServed'
<1> USE DEF BrowsersServed, BrowsersTyped, BrowsersTypeOK, StartBridge, WsAt, managerVars,
            wsHandlerVars
<1>1. \A d \in WebSocket : Created(d)' <=> Created(d)
  BY DEF Created
<1>2. \A o \in WebSocket : Registered(o)' <=> Registered(o)
  BY DEF Registered
<1>3. MapNamesCreators' /\ HoldsKnown' /\ TimerOfCreated'
  BY <1>1 DEF MapNamesCreators, HoldsKnown, TimerOfCreated
<1>4. \A o \in WebSocket : bridge_reads[o] => bridge_reads'[o]
  OBVIOUS
<1>5. Registered(c) => bridge_reads'[c]
  BY DEF BridgeRuns
<1>6. BridgeRuns'
  BY <1>2, <1>4, <1>5 DEF BridgeRuns, PastBridge
<1>7. ConsumerRuns'
  BY <1>2 DEF ConsumerRuns, Serving, Registered
<1> QED
  BY <1>3, <1>6, <1>7

LEMMA RestartBridgeServed ==
  ASSUME BrowsersServed, BrowsersTyped', NEW c \in WebSocket, RestartBridge(c)
  PROVE  BrowsersServed'
<1> USE DEF BrowsersServed, BrowsersTyped, BrowsersTypeOK, RestartBridge, WsAt, managerVars,
            wsHandlerVars
<1>1. \A d \in WebSocket : Created(d)' <=> Created(d)
  BY DEF Created
<1>2. \A o \in WebSocket : Registered(o)' <=> Registered(o)
  BY DEF Registered
<1>3. MapNamesCreators' /\ HoldsKnown' /\ TimerOfCreated'
  BY <1>1 DEF MapNamesCreators, HoldsKnown, TimerOfCreated
<1>4. session[c] \in WebSocket
  BY DEF HoldsKnown, Created
<1>5. bridge_reads'[session[c]]
  BY <1>4
<1>6. \A o \in WebSocket : o # session[c] =>
        bridge_reads'[o] = bridge_reads[o] /\ backend_tx'[o] = backend_tx[o]
  OBVIOUS
<1>7. BridgeRuns'
  BY <1>2, <1>5, <1>6 DEF BridgeRuns, PastBridge
<1>8. ConsumerRuns'
  BY <1>2 DEF ConsumerRuns, Serving, Registered
<1> QED
  BY <1>3, <1>7, <1>8

LEMMA StartConsumerServed ==
  ASSUME BrowsersServed, BrowsersTyped', NEW c \in WebSocket, StartConsumer(c)
  PROVE  BrowsersServed'
<1> USE DEF BrowsersServed, BrowsersTyped, BrowsersTypeOK, StartConsumer, WsAt, managerVars,
            wsHandlerVars
<1>1. \A d \in WebSocket : Created(d)' <=> Created(d)
  BY DEF Created
<1>2. MapNamesCreators' /\ HoldsKnown' /\ TimerOfCreated'
  BY <1>1 DEF MapNamesCreators, HoldsKnown, TimerOfCreated
<1>3. session[c] \in WebSocket /\ event_task'[session[c]]
  BY DEF HoldsKnown, Created
<1>4. \A o \in WebSocket : event_task[o] => event_task'[o]
  OBVIOUS
<1>5. BridgeRuns'
  BY DEF BridgeRuns, PastBridge, Registered
<1>6. ConsumerRuns'
  BY <1>1, <1>3, <1>4 DEF ConsumerRuns, Serving, Registered
<1> QED
  BY <1>2, <1>5, <1>6

LEMMA ServedSteps ==
  BrowsersServed /\ [BrowsersNext]_browsersVars => BrowsersServed'
<1> SUFFICES ASSUME BrowsersServed, [BrowsersNext]_browsersVars
             PROVE  BrowsersServed'
  OBVIOUS
<1>0. BrowsersTyped /\ BrowsersTyped'
  BY StaysTyped DEF BrowsersServed
<1> USE <1>0 DEF BrowsersServed, BrowsersTyped, BrowsersTypeOK, WsAt, managerVars, objectVars,
                 wsHandlerVars, Created, PastBridge, Serving
<1>1. ASSUME NEW c \in WebSocket, Open(c)
      PROVE  BrowsersServed'
  BY <1>1, OpenServed
<1>2. ASSUME NEW c \in WebSocket, Lookup(c)
      PROVE  BrowsersServed'
  BY <1>2, LookupServed
<1>3. ASSUME NEW c \in WebSocket, Create(c)
      PROVE  BrowsersServed'
  BY <1>3, CreateServed
<1>4. ASSUME NEW c \in WebSocket, Snapshot(c)
      PROVE  BrowsersServed'
  BY <1>4, QuietServed DEF Snapshot
<1>5. ASSUME NEW c \in WebSocket, Collect(c)
      PROVE  BrowsersServed'
  BY <1>5, QuietServed DEF Collect
<1>6. ASSUME NEW c \in WebSocket, Reap(c)
      PROVE  BrowsersServed'
  <2>1. PICK id \in BrowserId : RemoveSession(id)
    BY <1>6 DEF Reap
  <2> QED
    BY <1>6, <2>1, RemoveServed DEF Reap
<1>7. ASSUME NEW c \in WebSocket, ForgetVictim(c)
      PROVE  BrowsersServed'
  BY <1>7, QuietServed DEF ForgetVictim
<1>8. ASSUME NEW c \in WebSocket, Reaped(c)
      PROVE  BrowsersServed'
  BY <1>8, QuietServed DEF Reaped
<1>9. ASSUME NEW c \in WebSocket, SendInit(c)
      PROVE  BrowsersServed'
  BY <1>9, QuietServed DEF SendInit
<1>10. ASSUME NEW c \in WebSocket, InitFails(c)
      PROVE  BrowsersServed'
  <2>1. client[c] \in BrowserId /\ RemoveSession(client[c])
    BY <1>10 DEF InitFails, ClientKnown
  <2> QED
    BY <1>10, <2>1, RemoveServed DEF InitFails
<1>11. ASSUME NEW c \in WebSocket, AttachWs(c)
      PROVE  BrowsersServed'
  BY <1>11, QuietServed DEF AttachWs
<1>12. ASSUME NEW c \in WebSocket, StartBridge(c)
      PROVE  BrowsersServed'
  BY <1>12, StartBridgeServed
<1>13. ASSUME NEW c \in WebSocket, RestartBridge(c)
      PROVE  BrowsersServed'
  BY <1>13, RestartBridgeServed
<1>14. ASSUME NEW c \in WebSocket, StartConsumer(c)
      PROVE  BrowsersServed'
  BY <1>14, StartConsumerServed
<1>15. ASSUME NEW c \in WebSocket, MarkSeen(c)
      PROVE  BrowsersServed'
  BY <1>15, QuietServed DEF MarkSeen
<1>16. ASSUME NEW c \in WebSocket, Receive(c)
      PROVE  BrowsersServed'
  BY <1>16, QuietServed DEF Receive
<1>17. ASSUME NEW c \in WebSocket, Close(c)
      PROVE  BrowsersServed'
  BY <1>17, QuietServed DEF Close
<1>18. ASSUME NEW c \in WebSocket, Forget(c)
      PROVE  BrowsersServed'
  BY <1>18, QuietServed DEF Forget
<1>19. ASSUME NEW c \in WebSocket, TimerFires(c)
      PROVE  BrowsersServed'
  BY <1>19, QuietServed DEF TimerFires
<1>20. ASSUME NEW c \in WebSocket, TimerRemoves(c)
      PROVE  BrowsersServed'
  <2>1. client[c] \in BrowserId /\ RemoveSession(client[c])
    BY <1>20 DEF TimerRemoves, TimerOfCreated, ClientKnown
  <2> QED
    BY <1>20, <2>1, RemoveServed DEF TimerRemoves
<1>21. CASE UNCHANGED browsersVars
  BY <1>21, QuietServed DEF browsersVars
<1> QED
  BY <1>1, <1>2, <1>3, <1>4, <1>5, <1>6, <1>7, <1>8, <1>9, <1>10, <1>11,
     <1>12, <1>13, <1>14, <1>15, <1>16, <1>17, <1>18, <1>19, <1>20, <1>21
  DEF BrowsersNext, Handle

LEMMA ServedInit == BrowsersInit => BrowsersServed
BY TypedInit, NoObjectAssumption
DEF BrowsersInit, BrowsersServed, MapNamesCreators, HoldsKnown, TimerOfCreated, BridgeRuns,
    ConsumerRuns, Registered, Created, Serving, PastBridge

\* The session a handler keeps is its browser's, so being registered under the
\* browser's id and being a registered object are the same.
LEMMA ServedIsConnectedIsServed == BrowsersServed => ConnectedIsServed
<1> SUFFICES ASSUME BrowsersServed, NEW c \in WebSocket, pc[c] \in Serving,
                    session_map[client[c]] = session[c]
             PROVE  bridge_reads[session[c]] /\ event_task[session[c]]
  BY DEF ConnectedIsServed
<1>1. /\ session[c] \in WebSocket /\ client[session[c]] = client[c]
      /\ client[c] \in BrowserId
  BY DEF BrowsersServed, BrowsersTyped, ClientKnown, HoldsKnown, Created, Serving
<1>2. Registered(session[c])
  BY <1>1 DEF Registered
<1>3. pc[c] \in PastBridge
  BY DEF Serving, PastBridge
<1> QED
  BY <1>1, <1>2, <1>3 DEF BrowsersServed, BridgeRuns, ConsumerRuns

\* However reapers, timers and the handlers of one browser overlap, a connected
\* browser whose session is registered has a bridge that reads its channel and
\* a running event consumer.
THEOREM ConnectedServed == BrowsersSpec => []ConnectedIsServed
<1>1. BrowsersInit => BrowsersServed
  BY ServedInit
<1>2. BrowsersServed /\ [BrowsersNext]_browsersVars => BrowsersServed'
  BY ServedSteps
<1>3. BrowsersServed => ConnectedIsServed
  BY ServedIsConnectedIsServed
<1> QED
  BY <1>1, <1>2, <1>3, PTL DEF BrowsersSpec

-----------------------------------------------------------------------------
(***************************************************************************)
(* A session's sink "rtc" and an event relay are never those of another    *)
(* browser's peer, nor of a peer whose bridge has not run, for any number  *)
(* of browsers, offers and disconnects.                                    *)
(*                                                                         *)
(* The sink of an offer's peer is made and removed in the session of the   *)
(* offer's browser, which never changes once the offer has a bridge: that  *)
(* an offer still being answered has none is what the invariant adds.      *)
(***************************************************************************)

\* What the argument needs of the types.
PeerTypes ==
  /\ origin \in [Offer -> RtcBrowser \cup {NoBrowser}]
  /\ opc \in [Offer -> {"none", "rejected", "abort_old", "answering", "failed", "inserting",
                        "answered"}]
  /\ bridge \in [Offer -> {"none", "starting", "running", "ended", "aborted"}]
  /\ relay \in [Offer -> BOOLEAN]
  /\ rtc_sink \in [RtcBrowser -> Offer \cup {NoOffer}]

\* An offer without an answer has no bridge.
NoBridgeYet ==
  \A o \in Offer :
    opc[o] \in {"none", "rejected", "abort_old", "answering", "failed"} => bridge[o] = "none"

PeersIInv == PeerTypes /\ NoBridgeYet /\ SinkOfOwnBrowser

LEMMA PeersStart == PeersInit => PeersIInv
BY DEF PeersInit, PeersIInv, PeerTypes, NoBridgeYet, SinkOfOwnBrowser

LEMMA PeersTyped == PeersIInv /\ [PeersNext]_peerVars => PeerTypes' /\ NoBridgeYet'
<1> SUFFICES ASSUME PeerTypes, NoBridgeYet, [PeersNext]_peerVars
             PROVE  PeerTypes' /\ NoBridgeYet'
  BY DEF PeersIInv
<1> USE DEF PeerTypes, NoBridgeYet
\* An offer gets its browser before it has a bridge a sink could send to.
<1>1. ASSUME NEW o \in Offer, OfferArrives(o)
      PROVE  PeerTypes' /\ NoBridgeYet'
  BY <1>1 DEF OfferArrives
\* A bridge that is aborted was not finished.
<1>2. ASSUME NEW o \in Offer, AbortOld(o)
      PROVE  PeerTypes' /\ NoBridgeYet'
  BY <1>2 DEF AbortOld, Replaced, Unfinished
<1>3. ASSUME NEW o \in Offer, AnswerReady(o)
      PROVE  PeerTypes' /\ NoBridgeYet'
  BY <1>3 DEF AnswerReady
<1>4. ASSUME NEW o \in Offer, AnswerFails(o)
      PROVE  PeerTypes' /\ NoBridgeYet'
  BY <1>4 DEF AnswerFails
<1>5. ASSUME NEW o \in Offer, InsertEntry(o)
      PROVE  PeerTypes' /\ NoBridgeYet'
  BY <1>5 DEF InsertEntry
<1>6. ASSUME NEW o \in Offer, BridgeStarts(o)
      PROVE  PeerTypes' /\ NoBridgeYet'
  BY <1>6 DEF BridgeStarts, Ends
<1>7. ASSUME NEW o \in Offer, ControlOpens(o)
      PROVE  PeerTypes' /\ NoBridgeYet'
  BY <1>7 DEF ControlOpens, SetSession, Running
<1>8. ASSUME NEW o \in Offer, TerminalOpens(o)
      PROVE  PeerTypes' /\ NoBridgeYet'
  BY <1>8 DEF TerminalOpens, SetSession, Running
<1>9. ASSUME NEW o \in Offer, Disconnected(o)
      PROVE  PeerTypes' /\ NoBridgeYet'
  BY <1>9 DEF Disconnected, SetSession, Running
<1>10. ASSUME NEW o \in Offer, Connected(o)
      PROVE  PeerTypes' /\ NoBridgeYet'
  BY <1>10 DEF Connected, Running
\* The task that ends clears the one place its peer's sink can be in.
<1>11. ASSUME NEW o \in Offer, PeerCloses(o)
      PROVE  PeerTypes' /\ NoBridgeYet'
  BY <1>11 DEF PeerCloses, Ends, Cleanup, SetSession, Running
<1>12. ASSUME NEW o \in Offer, RelayEnds(o)
      PROVE  PeerTypes' /\ NoBridgeYet'
  BY <1>12 DEF RelayEnds
<1>13. ASSUME NEW b \in RtcBrowser, SinkSendFails(b)
      PROVE  PeerTypes' /\ NoBridgeYet'
  BY <1>13 DEF SinkSendFails
<1>14. ASSUME NEW b \in RtcBrowser, SessionMade(b)
      PROVE  PeerTypes' /\ NoBridgeYet'
  BY <1>14 DEF SessionMade, SetSession
<1>15. CASE UNCHANGED peerVars
  BY <1>15 DEF peerVars
<1> QED
  BY <1>1, <1>2, <1>3, <1>4, <1>5, <1>6, <1>7, <1>8, <1>9, <1>10, <1>11, <1>12,
     <1>13, <1>14, <1>15 DEF PeersNext

LEMMA SinksStayOwn == PeersIInv /\ [PeersNext]_peerVars => SinkOfOwnBrowser'
<1> SUFFICES ASSUME PeerTypes, NoBridgeYet, SinkOfOwnBrowser, [PeersNext]_peerVars
             PROVE  SinkOfOwnBrowser'
  BY DEF PeersIInv
<1> USE DaemonPeersAssumption DEF PeerTypes, NoBridgeYet, SinkOfOwnBrowser
\* An offer gets its browser before it has a bridge a sink could send to.
<1>1. ASSUME NEW o \in Offer, OfferArrives(o)
      PROVE  SinkOfOwnBrowser'
  BY <1>1 DEF OfferArrives
\* A bridge that is aborted was not finished.
<1>2. ASSUME NEW o \in Offer, AbortOld(o)
      PROVE  SinkOfOwnBrowser'
  BY <1>2 DEF AbortOld, Replaced, Unfinished
<1>3. ASSUME NEW o \in Offer, AnswerReady(o)
      PROVE  SinkOfOwnBrowser'
  BY <1>3 DEF AnswerReady
<1>4. ASSUME NEW o \in Offer, AnswerFails(o)
      PROVE  SinkOfOwnBrowser'
  BY <1>4 DEF AnswerFails
<1>5. ASSUME NEW o \in Offer, InsertEntry(o)
      PROVE  SinkOfOwnBrowser'
  BY <1>5 DEF InsertEntry
<1>6. ASSUME NEW o \in Offer, BridgeStarts(o)
      PROVE  SinkOfOwnBrowser'
  BY <1>6 DEF BridgeStarts, Ends
<1>7. ASSUME NEW o \in Offer, ControlOpens(o)
      PROVE  SinkOfOwnBrowser'
  BY <1>7 DEF ControlOpens, SetSession, Running
<1>8. ASSUME NEW o \in Offer, TerminalOpens(o)
      PROVE  SinkOfOwnBrowser'
  BY <1>8 DEF TerminalOpens, SetSession, Running
<1>9. ASSUME NEW o \in Offer, Disconnected(o)
      PROVE  SinkOfOwnBrowser'
  BY <1>9 DEF Disconnected, SetSession, Running
<1>10. ASSUME NEW o \in Offer, Connected(o)
      PROVE  SinkOfOwnBrowser'
  BY <1>10 DEF Connected, Running
\* The task that ends clears the one place its peer's sink can be in.
<1>11. ASSUME NEW o \in Offer, PeerCloses(o)
      PROVE  SinkOfOwnBrowser'
  BY <1>11 DEF PeerCloses, Ends, Cleanup, SetSession, Running
<1>12. ASSUME NEW o \in Offer, RelayEnds(o)
      PROVE  SinkOfOwnBrowser'
  BY <1>12 DEF RelayEnds
<1>13. ASSUME NEW b \in RtcBrowser, SinkSendFails(b)
      PROVE  SinkOfOwnBrowser'
  BY <1>13 DEF SinkSendFails
<1>14. ASSUME NEW b \in RtcBrowser, SessionMade(b)
      PROVE  SinkOfOwnBrowser'
  BY <1>14 DEF SessionMade, SetSession
<1>15. CASE UNCHANGED peerVars
  BY <1>15 DEF peerVars
<1> QED
  BY <1>1, <1>2, <1>3, <1>4, <1>5, <1>6, <1>7, <1>8, <1>9, <1>10, <1>11, <1>12,
     <1>13, <1>14, <1>15 DEF PeersNext

\* Whatever peers of a browser overlap, are aborted or recover, a session sends
\* terminal frames only to a peer of its own browser.
THEOREM SinksOfOwnBrowser == PeersSpec => []SinkOfOwnBrowser
<1>1. PeersInit => PeersIInv
  BY PeersStart
<1>2. PeersIInv /\ [PeersNext]_peerVars => PeersIInv'
  BY PeersTyped, SinksStayOwn DEF PeersIInv
<1>3. PeersIInv => SinkOfOwnBrowser
  BY DEF PeersIInv
<1> QED
  BY <1>1, <1>2, <1>3, PTL DEF PeersSpec

LEMMA PeersInitTyped == PeersInit => PeersTypeOK
<1>1. 0 \in 0..MaxDisconnects
  BY DaemonPeersAssumption
<1> QED  BY <1>1 DEF PeersInit, PeersTypeOK

LEMMA PeersKeepTypes == PeersTypeOK /\ [PeersNext]_peerVars => PeersTypeOK'
<1> SUFFICES ASSUME PeersTypeOK, [PeersNext]_peerVars  PROVE PeersTypeOK'
  OBVIOUS
<1> USE DEF PeersTypeOK
<1>1. MaxDisconnects \in Nat
  BY DaemonPeersAssumption
<1>2. ASSUME UNCHANGED peerVars  PROVE PeersTypeOK'
  BY <1>2 DEF peerVars
<1>3. ASSUME NEW b \in RtcBrowser \cup {NoBrowser}, NEW s \in Offer \cup {NoOffer},
             NEW f \in BOOLEAN, SetSession(b, s, f)
      PROVE  /\ rtc_sink' \in [RtcBrowser -> Offer \cup {NoOffer}]
             /\ rtc_active' \in [RtcBrowser -> BOOLEAN]
  BY <1>3 DEF SetSession
<1>4. ASSUME NEW o \in Offer, OfferArrives(o)  PROVE PeersTypeOK'
  BY <1>4 DEF OfferArrives
<1>5. ASSUME NEW o \in Offer, AbortOld(o)  PROVE PeersTypeOK'
  BY <1>5 DEF AbortOld
<1>6. ASSUME NEW o \in Offer, AnswerReady(o) \/ AnswerFails(o) \/ InsertEntry(o)
      PROVE  PeersTypeOK'
  BY <1>6 DEF AnswerReady, AnswerFails, InsertEntry
<1>7. ASSUME NEW o \in Offer, BridgeStarts(o)  PROVE PeersTypeOK'
  BY <1>7 DEF BridgeStarts, Ends
<1>8. ASSUME NEW o \in Offer, ControlOpens(o)  PROVE PeersTypeOK'
  BY <1>8 DEF ControlOpens, SetSession
<1>9. ASSUME NEW o \in Offer, TerminalOpens(o)  PROVE PeersTypeOK'
  BY <1>9 DEF TerminalOpens, SetSession
<1>10. ASSUME NEW o \in Offer, Disconnected(o)  PROVE PeersTypeOK'
  <2>1. disconnects' \in [Offer -> 0..MaxDisconnects]
    BY <1>1, <1>10 DEF Disconnected
  <2> QED  BY <1>10, <2>1 DEF Disconnected, SetSession
<1>11. ASSUME NEW o \in Offer, Connected(o) \/ RelayEnds(o)  PROVE PeersTypeOK'
  BY <1>11 DEF Connected, RelayEnds
<1>12. ASSUME NEW o \in Offer, PeerCloses(o)  PROVE PeersTypeOK'
  BY <1>12 DEF PeerCloses, Cleanup, Ends, SetSession
<1>13. ASSUME NEW b \in RtcBrowser, SinkSendFails(b) \/ SessionMade(b)  PROVE PeersTypeOK'
  BY <1>13 DEF SinkSendFails, SessionMade, SetSession
<1> HIDE DEF PeersTypeOK
<1> QED
  BY <1>2, <1>4, <1>5, <1>6, <1>7, <1>8, <1>9, <1>10, <1>11, <1>12, <1>13 DEF PeersNext

\* Offers, bridges and sessions keep to their types (handle_offer and the bridge
\* tasks of rtc.rs), whichever sink a session is left with.
THEOREM PeerStatesTyped == PeersSpec => []PeersTypeOK
BY PeersInitTyped, PeersKeepTypes, PTL DEF PeersSpec

-----------------------------------------------------------------------------
(***************************************************************************)
(* There is one daemon and its files name it, for any number of processes  *)
(* and reboots, when commands are given one at a time.                     *)
(*                                                                         *)
(* The code's own check is is_running, and it is blind for a daemon that   *)
(* has been forked and has not written its pid yet.  What closes the gap   *)
(* is that the command that forked it waits (ForkedAwaited).  A command    *)
(* forks, and removes files, only when nobody is alive any more            *)
(* (NobodyBefore): to know this, one has to know that a daemon on its way  *)
(* has no socket behind it (Unbound), so that a stop that is refused was   *)
(* refused by a dead one's.                                                *)
(***************************************************************************)

OneCommand == \A c, d \in Command : c = d

StartingUp == {"listed", "checked", "spawned", "serving"}
Phases == Starting \cup {"none", "ready", "dead"} \cup Leaving
Steps == {"idle", "run", "fork", "wait", "install", "attach", "clean", "connect", "poll",
          "kill", "remove", "verify", "start"}

\* What the argument needs of the types.
LifeTypes ==
  /\ phase \in [Process -> Phases]
  /\ pid_file \in Process \cup {NoProcess} /\ socket_file \in Process \cup {NoProcess}
  /\ cmd \in [Command -> Steps] /\ target \in [Command -> Process \cup {NoProcess}]

NoneAlive == \A p \in Process : ~IsAlive(p)
NobodyForked == \A p \in Process : phase[p] # "forked"

Alone == \A p, q \in Process : IsAlive(p) /\ IsAlive(q) => p = q
Listed == \A p \in Process : IsAlive(p) /\ phase[p] # "forked" => pid_file = p
Bound == \A p \in Process : Listens(p) => socket_file = p
Unbound == \A p \in Process : phase[p] \in StartingUp => socket_file = NoProcess

ForkedAwaited ==
  \A p \in Process : phase[p] = "forked" =>
    \E c \in Command : cmd[c] = "wait" /\ target[c] = p

NobodyBefore == \A c \in Command : cmd[c] \in {"fork", "clean", "remove"} => NoneAlive

LifeIInv ==
  LifeTypes /\ Alone /\ Listed /\ Bound /\ Unbound /\ ForkedAwaited /\ NobodyBefore

LEMMA LifeStart == LifecycleInit => LifeIInv
BY DaemonLifecycleAssumption
DEF LifecycleInit, LifeIInv, LifeTypes, Alone, Listed, Bound, Unbound, ForkedAwaited,
    NobodyBefore, NoneAlive, IsAlive, Listens, Starting, Leaving, Phases, Steps, StartingUp

LEMMA FoundFromInvariant == LifeIInv => DaemonFound
BY DEF LifeIInv, Alone, Listed, Bound, DaemonFound

(* What the commands know *)

LEMMA OtherStepNoneForked ==
  ASSUME OneCommand, LifeIInv, NEW c \in Command, cmd[c] # "wait"
  PROVE  NobodyForked
BY DEF OneCommand, LifeIInv, ForkedAwaited, NobodyForked

LEMMA PidTellsAlive ==
  ASSUME LifeIInv, NobodyForked, NEW p \in Process, IsAlive(p)
  PROVE  pid_file = p /\ is_running
BY DaemonLifecycleAssumption
DEF LifeIInv, Listed, NobodyForked, is_running, process_exists

LEMMA NotRunningNobody ==
  ASSUME LifeIInv, NobodyForked, ~is_running
  PROVE  NoneAlive
BY PidTellsAlive DEF NoneAlive

(* What the steps do to the invariant *)

\* When nobody is alive the rest is trivial.
LEMMA NobodyIsSafe ==
  ASSUME LifeTypes', NoneAlive'
  PROVE  LifeIInv'
<1>1. \A p \in Process : phase'[p] \notin Starting \cup {"ready"} \cup Leaving
  BY DEF NoneAlive, IsAlive
<1> QED
  BY <1>1 DEF NoneAlive, LifeIInv, Alone, Listed, Bound, Unbound, ForkedAwaited, NobodyBefore,
              IsAlive, Listens, StartingUp, Starting, Leaving

\* A step of a command that neither starts nor ends a daemon.
LEMMA CommandKeeps ==
  ASSUME OneCommand, LifeIInv, NobodyForked,
         NEW c \in Command, NEW next \in Steps, cmd' = [cmd EXCEPT ![c] = next],
         UNCHANGED <<phase, socket_file>>, UNCHANGED pid_file \/ RemoveStalePid,
         target' \in [Command -> Process \cup {NoProcess}],
         next \in {"fork", "clean", "remove"} => NoneAlive
  PROVE  LifeIInv'
<1>1. LifeTypes'
  BY DEF LifeIInv, LifeTypes, RemoveStalePid
<1>2. \A p \in Process : IsAlive(p)' = IsAlive(p) /\ Listens(p)' = Listens(p)
  BY DEF IsAlive, Listens
<1>3. Listed'
  BY <1>2, PidTellsAlive DEF Listed, RemoveStalePid
<1>4. ForkedAwaited'
  BY DEF NobodyForked, ForkedAwaited
<1>5. NobodyBefore'
  <2>1. \A d \in Command : cmd'[d] = next
    BY DEF OneCommand, LifeIInv, LifeTypes
  <2>2. NoneAlive => NoneAlive'
    BY <1>2 DEF NoneAlive
  <2> QED
    BY <2>1, <2>2 DEF NobodyBefore
<1>6. Alone' /\ Bound' /\ Unbound'
  BY <1>2 DEF LifeIInv, Alone, Bound, Unbound
<1> QED
  BY <1>1, <1>3, <1>4, <1>5, <1>6 DEF LifeIInv

\* The one daemon goes on to another phase.
LEMMA DaemonKeeps ==
  ASSUME LifeIInv, NEW p \in Process, IsAlive(p), NEW next \in Phases \ {"forked", "none"},
         phase' = [phase EXCEPT ![p] = next], UNCHANGED <<cmd, target>>,
         pid_file' \in Process \cup {NoProcess}, socket_file' \in Process \cup {NoProcess},
         next # "dead" => pid_file' = p,
         next \in {"ready"} \cup Leaving => socket_file' = p,
         next \in StartingUp => socket_file' = NoProcess
  PROVE  LifeIInv'
<1>1. LifeTypes'
  BY DEF LifeIInv, LifeTypes
<1>2. phase'[p] = next
  BY DEF LifeIInv, LifeTypes
<1>3. \A q \in Process : q # p => ~IsAlive(q) /\ phase'[q] = phase[q]
  BY DEF LifeIInv, LifeTypes, Alone
<1>4. \A q \in Process : q # p => ~IsAlive(q)'
  BY <1>3 DEF IsAlive
<1>5. \A q \in Process : q # p =>
        phase'[q] \notin Starting \cup {"ready"} \cup Leaving
  BY <1>4 DEF IsAlive
<1>6. Alone'
  BY <1>4 DEF Alone
<1>7. Listed'
  BY <1>2, <1>4 DEF Listed, IsAlive, Starting, Leaving
<1>8. Bound'
  BY <1>2, <1>5 DEF Bound, Listens
<1>9. Unbound'
  BY <1>2, <1>5 DEF Unbound, StartingUp, Starting
<1>10. ForkedAwaited'
  BY <1>2, <1>5 DEF ForkedAwaited, Starting
<1>11. NobodyBefore'
  BY DEF LifeIInv, NobodyBefore, NoneAlive
<1> QED
  BY <1>1, <1>6, <1>7, <1>8, <1>9, <1>10, <1>11 DEF LifeIInv

\* Neither a daemon nor a command does anything that matters here.
LEMMA ElsewhereKeepsLife ==
  ASSUME LifeIInv, UNCHANGED <<phase, pid_file, socket_file, cmd, target>>
  PROVE  LifeIInv'
BY DEF LifeIInv, LifeTypes, Alone, Listed, Bound, Unbound, ForkedAwaited, NobodyBefore,
       NoneAlive, IsAlive, Listens

LEMMA DaemonStepKeeps ==
  ASSUME LifeIInv, NEW p \in Process, DaemonStep(p) \/ StartupFails(p) \/ Crashes(p)
  PROVE  LifeIInv'
<1>0. /\ phase \in [Process -> Phases] /\ p # NoProcess
      /\ pid_file \in Process \cup {NoProcess} /\ socket_file \in Process \cup {NoProcess}
  BY DaemonLifecycleAssumption DEF LifeIInv, LifeTypes
<1>1. CASE ListItself(p)
  <2>1. /\ IsAlive(p) /\ phase' = [phase EXCEPT ![p] = "listed"]
        /\ socket_file' = NoProcess /\ pid_file' = p /\ UNCHANGED <<cmd, target>>
    BY <1>1 DEF ListItself, Phase, IsAlive, Starting, commandVars
  <2>2. "listed" \in Phases \ {"forked", "none"}
        /\ "listed" \notin {"ready"} \cup Leaving
    BY DEF Phases, Starting, Leaving
  <2> QED
    BY <2>1, <2>2, DaemonKeeps
<1>2. CASE ApiReached(p) \/ SpawnPty(p) \/ CheckChild(p)
  <2>1. PICK next \in {"checked", "spawned", "serving"} :
          phase' = [phase EXCEPT ![p] = next]
    BY <1>2 DEF ApiReached, SpawnPty, CheckChild, Phase
  <2>2. /\ IsAlive(p) /\ phase[p] # "forked" /\ phase[p] \in StartingUp
        /\ UNCHANGED <<pid_file, socket_file, cmd, target>>
    BY <1>2 DEF ApiReached, SpawnPty, CheckChild, Phase, IsAlive, Starting, StartingUp,
           fileVars, commandVars
  <2>3. pid_file = p /\ socket_file = NoProcess
    BY <2>2 DEF LifeIInv, Listed, Unbound
  <2>4. next \in Phases \ {"forked", "none"} /\ next \notin {"ready"} \cup Leaving
    BY DEF Phases, Starting, Leaving
  <2> QED
    BY <2>1, <2>2, <2>3, <2>4, DaemonKeeps
<1>3. CASE BindSocket(p)
  <2>1. /\ IsAlive(p) /\ phase[p] # "forked" /\ phase' = [phase EXCEPT ![p] = "ready"]
        /\ socket_file' = p /\ UNCHANGED <<pid_file, cmd, target>>
    BY <1>3 DEF BindSocket, Phase, IsAlive, Starting, commandVars
  <2>2. pid_file = p
    BY <2>1 DEF LifeIInv, Listed
  <2>3. "ready" \in Phases \ {"forked", "none"} /\ "ready" \notin StartingUp
    BY DEF Phases, StartingUp
  <2> QED
    BY <2>1, <2>2, <2>3, DaemonKeeps
<1>4. CASE ReadStop(p) \/ MonitorSeesExit(p) \/ KillPty(p) \/ Deregister(p)
  <2>1. PICK next \in Leaving : phase' = [phase EXCEPT ![p] = next]
    BY <1>4 DEF ReadStop, MonitorSeesExit, KillPty, Deregister, Phase, Leaving
  <2>2. /\ phase[p] \in {"ready"} \cup Leaving
        /\ UNCHANGED <<pid_file, socket_file, cmd, target>>
    BY <1>4 DEF ReadStop, MonitorSeesExit, KillPty, Deregister, Phase, Leaving, fileVars,
                commandVars
  <2>3. IsAlive(p) /\ phase[p] # "forked" /\ Listens(p)
    BY <1>0, <2>2 DEF IsAlive, Listens, Leaving
  <2>4. pid_file = p /\ socket_file = p
    BY <2>3 DEF LifeIInv, Listed, Bound
  <2>5. next \in Phases \ {"forked", "none"} /\ next \notin StartingUp
    BY DEF Phases, StartingUp, Leaving
  <2> QED
    BY <1>0, <2>1, <2>2, <2>3, <2>4, <2>5, DaemonKeeps
<1>5. CASE ExitProcess(p) \/ Crashes(p) \/ StartupFails(p)
  <2>1. /\ IsAlive(p) /\ phase' = [phase EXCEPT ![p] = "dead"] /\ UNCHANGED <<cmd, target>>
        /\ pid_file' \in {pid_file, NoProcess} /\ socket_file' \in {socket_file, NoProcess}
    BY <1>5 DEF ExitProcess, Crashes, StartupFails, Dies, IsAlive, Starting, Leaving, fileVars,
                commandVars
  <2>2. /\ "dead" \in Phases \ {"forked", "none"}
        /\ "dead" \notin StartingUp /\ "dead" \notin {"ready"} \cup Leaving
    BY DEF Phases, StartingUp, Leaving
  <2> QED
    BY <1>0, <2>1, <2>2, DaemonKeeps
<1> QED
  BY <1>1, <1>2, <1>3, <1>4, <1>5 DEF DaemonStep

\* kill_process with the pid of the file ends the daemon there is.
LEMMA KillLeavesNobody ==
  ASSUME LifeIInv, NobodyForked, Kill(pid_file)
  PROVE  phase' \in [Process -> Phases] /\ NoneAlive'
<1>1. phase \in [Process -> Phases] /\ "dead" \in Phases
      /\ pid_file \in Process \cup {NoProcess}
  BY DEF LifeIInv, LifeTypes, Phases
<1>2. CASE pid_file # NoProcess /\ IsAlive(pid_file)
  <2>1. phase' = [phase EXCEPT ![pid_file] = "dead"]
    BY <1>2 DEF Kill, Dies
  <2>2. \A q \in Process : q # pid_file => ~IsAlive(q)
    BY PidTellsAlive
  <2>3. ASSUME NEW q \in Process PROVE ~IsAlive(q)'
    <3>1. CASE q = pid_file
      <4>1. phase'[q] = "dead"
        BY <1>1, <2>1, <3>1
      <4> QED
        BY <4>1 DEF IsAlive, Starting, Leaving
    <3>2. CASE q # pid_file
      <4>1. phase'[q] = phase[q]
        BY <1>1, <2>1, <3>2
      <4> QED
        BY <2>2, <3>2, <4>1 DEF IsAlive
    <3> QED
      BY <3>1, <3>2
  <2> QED
    BY <1>1, <2>1, <2>3 DEF NoneAlive
<1>3. CASE ~(pid_file # NoProcess /\ IsAlive(pid_file))
  <2>1. phase' = phase
    BY <1>3 DEF Kill
  <2>2. NoneAlive
    BY <1>3, PidTellsAlive, DaemonLifecycleAssumption DEF NoneAlive
  <2> QED
    BY <1>1, <2>1, <2>2 DEF NoneAlive, IsAlive
<1> QED
  BY <1>2, <1>3

\* What a step of a command other than "wait" may do, if it ends no daemon.
LEMMA StepKeeps ==
  ASSUME OneCommand, LifeIInv, NEW c \in Command, NEW here \in Steps \ {"wait"},
         NEW next \in Steps, CommandStep(c, here, next),
         UNCHANGED <<phase, socket_file>>, UNCHANGED pid_file \/ RemoveStalePid,
         target' \in [Command -> Process \cup {NoProcess}],
         next \in {"fork", "clean", "remove"} => ~is_running
  PROVE  LifeIInv'
<1>1. cmd[c] # "wait" /\ cmd' = [cmd EXCEPT ![c] = next]
  BY DEF CommandStep
<1>2. NobodyForked
  BY <1>1, OtherStepNoneForked
<1>3. next \in {"fork", "clean", "remove"} => NoneAlive
  BY <1>2, NotRunningNobody
<1> QED
  BY <1>1, <1>2, <1>3, CommandKeeps

\* The looks at the pid file, and what follows from them.
LEMMA LooksKeep ==
  ASSUME OneCommand, LifeIInv, NEW c \in Command,
         StartLooks(c) \/ RunLooks(c) \/ StopLooks(c)
  PROVE  LifeIInv'
<1>0. target \in [Command -> Process \cup {NoProcess}]
  BY DEF LifeIInv, LifeTypes
<1>1. /\ UNCHANGED <<phase, socket_file, target>> /\ RemoveStalePid
      /\ \E here \in {"idle", "start", "run"},
           there \in {<<"run", "fork">>, <<"attach", "fork">>, <<"connect", "clean">>} :
           CommandStep(c, here, IF is_running THEN there[1] ELSE there[2])
  BY DEF StartLooks, RunLooks, StopLooks, daemonVars
<1>2. PICK here \in {"idle", "start", "run"},
           there \in {<<"run", "fork">>, <<"attach", "fork">>, <<"connect", "clean">>} :
        CommandStep(c, here, IF is_running THEN there[1] ELSE there[2])
  BY <1>1
<1>3. CASE is_running
  <2>1. PICK next \in {"run", "attach", "connect"} : CommandStep(c, here, next)
    BY <1>2, <1>3
  <2>2. here \in Steps \ {"wait"} /\ next \in Steps /\ next \notin {"fork", "clean", "remove"}
    BY DEF Steps
  <2> QED
    BY <1>0, <1>1, <2>1, <2>2, StepKeeps
<1>4. CASE ~is_running
  <2>1. PICK next \in {"fork", "clean"} : CommandStep(c, here, next)
    BY <1>2, <1>4
  <2>2. here \in Steps \ {"wait"} /\ next \in Steps
    BY DEF Steps
  <2> QED
    BY <1>0, <1>1, <1>4, <2>1, <2>2, StepKeeps
<1> QED
  BY <1>3, <1>4

LEMMA AttachKeeps ==
  ASSUME OneCommand, LifeIInv, NEW c \in Command, Attach(c)
  PROVE  LifeIInv'
<1>1. /\ UNCHANGED <<phase, socket_file, target>> /\ RemoveStalePid
      /\ target \in [Command -> Process \cup {NoProcess}]
  BY DEF Attach, LifeIInv, LifeTypes
<1>2. PICK here \in {"idle", "attach"} : CommandStep(c, here, "idle")
  BY DEF Attach, CommandStep, LifeIInv, LifeTypes
<1>3. here \in Steps \ {"wait"} /\ "idle" \in Steps /\ "idle" \notin {"fork", "clean", "remove"}
  BY DEF Steps
<1> QED
  BY <1>1, <1>2, <1>3, StepKeeps

\* The steps of a start and a stop that end no daemon and remove no socket.
LEMMA AskingKeeps ==
  ASSUME OneCommand, LifeIInv, NEW c \in Command,
         InstallService(c) \/ StopConnects(c) \/ PollSeesStopped(c) \/ PollGivesUp(c)
  PROVE  LifeIInv'
<1>1. /\ UNCHANGED <<phase, socket_file>> /\ (UNCHANGED pid_file \/ RemoveStalePid)
      /\ target' \in [Command -> Process \cup {NoProcess}]
  BY DEF InstallService, StopConnects, PollSeesStopped, PollGivesUp, LifeIInv, LifeTypes,
         daemonVars, fileVars
<1>2. PICK here \in {"install", "connect", "poll"},
           next \in {"attach", "poll", "kill", "verify", "idle"} : CommandStep(c, here, next)
  BY DEF InstallService, StopConnects, PollSeesStopped, PollGivesUp, AfterStop
<1>3. here \in Steps \ {"wait"} /\ next \in Steps /\ next \notin {"fork", "clean", "remove"}
  BY DEF Steps
<1> QED
  BY <1>1, <1>2, <1>3, StepKeeps

\* A daemon whose start waits no longer is no longer just forked.
LEMMA WaitKeeps ==
  ASSUME OneCommand, LifeIInv, NEW c \in Command, StartWaits(c) \/ StartTimesOut(c)
  PROVE  LifeIInv'
<1>1. /\ cmd[c] = "wait" /\ phase[target[c]] # "forked"
      /\ UNCHANGED <<phase, pid_file, socket_file, target>>
  BY DEF StartWaits, StartTimesOut, CommandStep, Starting, daemonVars, fileVars
<1>2. NobodyForked
  BY <1>1 DEF OneCommand, LifeIInv, ForkedAwaited, NobodyForked
<1>3. PICK next \in {"install", "idle"} : cmd' = [cmd EXCEPT ![c] = next]
  BY DEF StartWaits, StartTimesOut, CommandStep
<1>4. next \in Steps /\ next \notin {"fork", "clean", "remove"}
  BY DEF Steps
<1>5. target' \in [Command -> Process \cup {NoProcess}]
  BY <1>1 DEF LifeIInv, LifeTypes
<1> QED
  BY <1>1, <1>2, <1>3, <1>4, <1>5, CommandKeeps

\* The one command forks when nobody is alive, and then waits for what it forked.
LEMMA ForkKeeps ==
  ASSUME OneCommand, LifeIInv, NEW c \in Command, NEW p \in Process, Fork(c, p)
  PROVE  LifeIInv'
<1>1. /\ cmd[c] = "fork" /\ cmd' = [cmd EXCEPT ![c] = "wait"]
      /\ target' = [target EXCEPT ![c] = p] /\ phase' = [phase EXCEPT ![p] = "forked"]
      /\ UNCHANGED <<pid_file, socket_file>>
  BY DEF Fork, CommandStep, fileVars
<1>2. NoneAlive
  BY <1>1 DEF LifeIInv, NobodyBefore
<1>3. LifeTypes'
  BY <1>1 DEF LifeIInv, LifeTypes, Phases, Starting, Steps
<1>4. phase'[p] = "forked" /\ \A q \in Process : q # p => ~IsAlive(q)'
  BY <1>1, <1>2 DEF NoneAlive, IsAlive, LifeIInv, LifeTypes
<1>5. \A q \in Process : q # p => phase'[q] \notin Starting \cup {"ready"} \cup Leaving
  BY <1>4 DEF IsAlive
<1>6. cmd'[c] = "wait" /\ target'[c] = p /\ \A d \in Command : cmd'[d] = "wait"
  BY <1>1 DEF OneCommand, LifeIInv, LifeTypes
<1>7. Alone' /\ Listed'
  BY <1>4 DEF Alone, Listed
<1>8. Bound' /\ Unbound'
  BY <1>4, <1>5 DEF Bound, Unbound, Listens, StartingUp, Starting, Leaving
<1>9. ForkedAwaited'
  BY <1>4, <1>5, <1>6 DEF ForkedAwaited, Starting
<1>10. NobodyBefore'
  BY <1>6 DEF NobodyBefore
<1> QED
  BY <1>3, <1>7, <1>8, <1>9, <1>10 DEF LifeIInv

\* The steps of a stop that remove files or kill: nobody is alive behind them.
LEMMA EndingKeeps ==
  ASSUME OneCommand, LifeIInv, NEW c \in Command,
         \/ CleanStale(c) \/ RemoveFiles(c) \/ StopTerminates(c) \/ ForceKill(c)
         \/ VerifyStopped(c) \/ StopIsRefused(c)
  PROVE  LifeIInv'
<1>1. PICK here \in {"clean", "remove", "connect", "kill", "verify"},
           next \in {"verify", "idle", "remove", "start"} :
        CommandStep(c, here, next)
  BY DEF CleanStale, RemoveFiles, StopTerminates, ForceKill, VerifyStopped, StopIsRefused,
         AfterStop
<1>2. /\ cmd[c] # "wait" /\ cmd' \in [Command -> Steps] /\ UNCHANGED target
      /\ pid_file' \in Process \cup {NoProcess} /\ socket_file' \in Process \cup {NoProcess}
  <2>1. next \in Steps
    BY DEF Steps
  <2> QED
    BY <1>1, <2>1
    DEF CommandStep, CleanStale, RemoveFiles, StopTerminates, ForceKill, VerifyStopped,
        StopIsRefused, LifeIInv, LifeTypes, fileVars
<1>3. NobodyForked
  BY <1>2, OtherStepNoneForked
<1>4. CASE CleanStale(c) \/ RemoveFiles(c)
  <2>1. cmd[c] \in {"clean", "remove"} /\ phase' = phase
    BY <1>4 DEF CleanStale, RemoveFiles, CommandStep, daemonVars
  <2>2. NoneAlive
    BY <2>1 DEF LifeIInv, NobodyBefore
  <2>3. NoneAlive' /\ phase' \in [Process -> Phases]
    BY <2>1, <2>2 DEF NoneAlive, IsAlive, LifeIInv, LifeTypes
  <2> QED
    BY <1>2, <2>3, NobodyIsSafe DEF LifeIInv, LifeTypes
<1>5. CASE StopTerminates(c) \/ ForceKill(c) \/ VerifyStopped(c)
  <2>1. Kill(pid_file)
    BY <1>5 DEF StopTerminates, ForceKill, VerifyStopped
  <2>2. phase' \in [Process -> Phases] /\ NoneAlive'
    BY <1>3, <2>1, KillLeavesNobody
  <2> QED
    BY <1>2, <2>2, NobodyIsSafe DEF LifeIInv, LifeTypes
<1>6. CASE StopIsRefused(c)
  <2>1. phase' = phase /\ socket_file # NoProcess /\ ~Listens(socket_file)
    BY <1>6 DEF StopIsRefused, daemonVars
  <2>2. ASSUME NEW p \in Process, IsAlive(p) PROVE FALSE
    <3>1. CASE phase[p] \in StartingUp
      BY <2>1, <3>1 DEF LifeIInv, Unbound
    <3>2. CASE phase[p] = "forked"
      BY <1>3, <3>2 DEF NobodyForked
    <3>3. CASE phase[p] \in {"ready"} \cup Leaving
      <4>1. Listens(p)
        BY <3>3, DaemonLifecycleAssumption DEF Listens
      <4> QED
        BY <2>1, <4>1 DEF LifeIInv, Bound
    <3> QED
      BY <2>2, <3>1, <3>2, <3>3 DEF IsAlive, Starting, StartingUp
  <2>3. NoneAlive' /\ phase' \in [Process -> Phases]
    BY <2>1, <2>2 DEF NoneAlive, IsAlive, LifeIInv, LifeTypes
  <2> QED
    BY <1>2, <2>3, NobodyIsSafe DEF LifeIInv, LifeTypes
<1> QED
  BY <1>4, <1>5, <1>6

LEMMA RebootKeeps ==
  ASSUME LifeIInv, NEW c \in Command, Reboot(c)
  PROVE  LifeIInv'
<1>1. phase' = [p \in Process |-> IF IsAlive(p) THEN "dead" ELSE phase[p]]
  BY DEF Reboot
<1>2. "dead" \in Phases /\ "dead" \notin Starting \cup {"ready"} \cup Leaving
  BY DEF Phases, Starting, Leaving
<1>3. phase' \in [Process -> Phases] /\ NoneAlive'
  BY <1>1, <1>2 DEF LifeIInv, LifeTypes, NoneAlive, IsAlive
<1>4. /\ cmd' \in [Command -> Steps]
      /\ UNCHANGED <<pid_file, socket_file, target>>
  BY DEF Reboot, Steps, fileVars
<1> QED
  BY <1>3, <1>4, NobodyIsSafe DEF LifeIInv, LifeTypes

LEMMA LifeSteps ==
  ASSUME OneCommand, LifeIInv, [LifecycleNext]_lifecycleVars
  PROVE  LifeIInv'
<1>1. ASSUME NEW p \in Process, DaemonStep(p) \/ StartupFails(p) \/ Crashes(p)
      PROVE  LifeIInv'
  BY <1>1, DaemonStepKeeps
<1>2. ASSUME NEW p \in Process,
             \/ ChildExits(p) \/ ClientTypes(p) \/ ChildReads(p) \/ ClientLeaves(p)
             \/ PidReused(p) \/ ProgramExits(p)
      PROVE  LifeIInv'
  BY <1>2, ElsewhereKeepsLife
  DEF ChildExits, ClientTypes, ChildReads, ClientLeaves, PidReused, ProgramExits, fileVars,
      commandVars
<1>3. ASSUME NEW c \in Command,
             \/ StartLooks(c) \/ RunLooks(c) \/ StopLooks(c) \/ Attach(c)
             \/ InstallService(c) \/ StartWaits(c) \/ StartTimesOut(c)
      PROVE  LifeIInv'
  BY <1>3, LooksKeep, AttachKeeps, AskingKeeps, WaitKeeps
<1>4. ASSUME NEW c \in Command, StopStep(c) \/ VerifyStopped(c)
      PROVE  LifeIInv'
  BY <1>4, AskingKeeps, EndingKeeps DEF StopStep
<1>5. ASSUME NEW c \in Command, Reboot(c)
      PROVE  LifeIInv'
  BY <1>5, RebootKeeps
<1>6. ASSUME NEW c \in Command, NEW p \in Process, Fork(c, p)
      PROVE  LifeIInv'
  BY <1>6, ForkKeeps
<1>7. CASE UNCHANGED lifecycleVars
  BY <1>7, ElsewhereKeepsLife DEF lifecycleVars, daemonVars, fileVars, commandVars
<1> QED
  BY <1>1, <1>2, <1>3, <1>4, <1>5, <1>6, <1>7 DEF LifecycleNext

\* With one command at a time there is never a second daemon, and the files name
\* the one there is, whatever daemons crash or fail to start, whatever pids are
\* reused, and whenever the machine reboots.
THEOREM DaemonIsFound ==
  ASSUME OneCommand
  PROVE  LifecycleSpec => []DaemonFound
<1>1. LifecycleInit => LifeIInv
  BY LifeStart
<1>2. LifeIInv /\ [LifecycleNext]_lifecycleVars => LifeIInv'
  BY LifeSteps
<1>3. LifeIInv => DaemonFound
  BY FoundFromInvariant
<1> QED
  BY <1>1, <1>2, <1>3, PTL DEF LifecycleSpec

LEMMA LifecycleInitTyped == LifecycleInit => LifecycleTypeOK
<1>1. 0 \in 0..MaxReboots
  BY DaemonLifecycleAssumption
<1> QED  BY <1>1 DEF LifecycleInit, LifecycleTypeOK

\* However many commands are given at a time: of the processes and files no more is
\* said here than their types.
LEMMA LifecycleKeepsTypes ==
  LifecycleTypeOK /\ [LifecycleNext]_lifecycleVars => LifecycleTypeOK'
<1> SUFFICES ASSUME LifecycleTypeOK, [LifecycleNext]_lifecycleVars  PROVE LifecycleTypeOK'
  OBVIOUS
<1> DEFINE PhaseTypes ==
             phase \in [Process -> Starting \cup {"none", "ready", "dead"} \cup Leaving]
           FlagTypes == /\ exited \subseteq Process /\ pty_blocked \subseteq Process
                        /\ stop_sent \subseteq Process /\ quit_sent \subseteq Process
                        /\ attached \subseteq Process /\ reused \subseteq Process
           FileTypes == /\ pid_file \in Process \cup {NoProcess}
                        /\ socket_file \in Process \cup {NoProcess}
                        /\ service \in BOOLEAN
           CommandTypes ==
             /\ cmd \in [Command -> {"idle", "run", "fork", "wait", "install", "attach",
                                     "clean", "connect", "poll", "kill", "remove", "verify",
                                     "start"}]
             /\ target \in [Command -> Process \cup {NoProcess}]
             /\ restarting \in [Command -> BOOLEAN]
           RebootTypes == reboots \in 0..MaxReboots
           Types == PhaseTypes /\ FlagTypes /\ FileTypes /\ CommandTypes /\ RebootTypes
<1>1. Types /\ MaxReboots \in Nat
  BY DaemonLifecycleAssumption DEF LifecycleTypeOK
<1>2. SUFFICES Types'
  BY DEF LifecycleTypeOK
<1>3. ASSUME UNCHANGED lifecycleVars  PROVE Types'
  BY <1>1, <1>3 DEF lifecycleVars, daemonVars, fileVars, commandVars
<1>4. ASSUME NEW p \in Process, DaemonStep(p)  PROVE Types'
  <2>1. PhaseTypes'
    BY <1>1, <1>4
    DEF DaemonStep, ListItself, ApiReached, SpawnPty, CheckChild, BindSocket, ReadStop,
        MonitorSeesExit, KillPty, Deregister, ExitProcess, Dies, Phase, Starting, Leaving
  <2>2. FlagTypes' /\ FileTypes' /\ UNCHANGED <<commandVars, reboots>>
    BY <1>1, <1>4
    DEF DaemonStep, ListItself, ApiReached, SpawnPty, CheckChild, BindSocket, ReadStop,
        MonitorSeesExit, KillPty, Deregister, ExitProcess, Dies, fileVars
  <2> QED  BY <1>1, <2>1, <2>2 DEF commandVars
<1>5. ASSUME NEW p \in Process, StartupFails(p) \/ Crashes(p)  PROVE Types'
  BY <1>1, <1>5 DEF StartupFails, Crashes, Dies, fileVars, commandVars
<1>6. ASSUME NEW p \in Process,
             \/ ChildExits(p) \/ ClientTypes(p) \/ ChildReads(p) \/ ClientLeaves(p)
             \/ PidReused(p) \/ ProgramExits(p)
      PROVE  Types'
  BY <1>1, <1>6
  DEF ChildExits, ClientTypes, ChildReads, ClientLeaves, PidReused, ProgramExits, fileVars,
      commandVars
<1>7. RemoveStalePid => pid_file' \in Process \cup {NoProcess}
  BY <1>1 DEF RemoveStalePid
<1>8. ASSUME Kill(pid_file)
      PROVE  /\ PhaseTypes' /\ pty_blocked' \subseteq Process /\ attached' \subseteq Process
             /\ reused' \subseteq Process
  BY <1>1, <1>8 DEF Kill, Dies
<1>9. ASSUME NEW c \in Command, StartLooks(c) \/ RunLooks(c) \/ StopLooks(c)  PROVE Types'
  BY <1>1, <1>7, <1>9 DEF StartLooks, RunLooks, StopLooks, CommandStep, daemonVars
<1>10. ASSUME NEW c \in Command, StartWaits(c) \/ StartTimesOut(c) \/ InstallService(c)
       PROVE  Types'
  BY <1>1, <1>10
  DEF StartWaits, StartTimesOut, InstallService, CommandStep, daemonVars, fileVars
<1>11. ASSUME NEW c \in Command, Attach(c)  PROVE Types'
  <2>1. attached' \subseteq Process
    BY <1>1, <1>11 DEF Attach, Listens
  <2> QED  BY <1>1, <1>7, <1>11, <2>1 DEF Attach, CommandStep
<1>12. ASSUME NEW c \in Command, StopStep(c)  PROVE Types'
  <2>1. cmd' \in [Command -> {"idle", "run", "fork", "wait", "install", "attach",
                              "clean", "connect", "poll", "kill", "remove", "verify", "start"}]
    BY <1>1, <1>12
    DEF StopStep, CleanStale, StopTerminates, StopConnects, StopIsRefused, PollSeesStopped,
        PollGivesUp, ForceKill, RemoveFiles, CommandStep, AfterStop
  <2>2. PhaseTypes' /\ FlagTypes'
    BY <1>1, <1>8, <1>12
    DEF StopStep, CleanStale, StopTerminates, StopConnects, StopIsRefused, PollSeesStopped,
        PollGivesUp, ForceKill, RemoveFiles, Listens, daemonVars
  <2>3. /\ FileTypes' /\ RebootTypes'
        /\ target' \in [Command -> Process \cup {NoProcess}] /\ UNCHANGED restarting
    BY <1>1, <1>7, <1>12
    DEF StopStep, CleanStale, StopTerminates, StopConnects, StopIsRefused, PollSeesStopped,
        PollGivesUp, ForceKill, RemoveFiles, fileVars
  <2> QED  BY <1>1, <2>1, <2>2, <2>3
<1>13. ASSUME NEW c \in Command, VerifyStopped(c)  PROVE Types'
  BY <1>1, <1>8, <1>13 DEF VerifyStopped, CommandStep
<1>14. ASSUME NEW c \in Command, Reboot(c)  PROVE Types'
  BY <1>1, <1>14 DEF Reboot, fileVars
<1>15. ASSUME NEW c \in Command, NEW p \in Process, Fork(c, p)  PROVE Types'
  BY <1>1, <1>15 DEF Fork, CommandStep, Starting, fileVars
<1> HIDE DEF Types
<1> QED
  BY <1>3, <1>4, <1>5, <1>6, <1>9, <1>10, <1>11, <1>12, <1>13, <1>14, <1>15 DEF LifecycleNext

\* The daemon's processes, files and commands keep to their types (run_daemon, b3
\* start, stop and attach, the restart script), however many commands run at a time.
THEOREM LifecycleTyped == LifecycleSpec => []LifecycleTypeOK
BY LifecycleInitTyped, LifecycleKeepsTypes, PTL DEF LifecycleSpec

-----------------------------------------------------------------------------
(***************************************************************************)
(* Every entry of the archive has its audio, or its message was evicted    *)
(* once, for any number of messages, uploads, entries and crashes.         *)
(*                                                                         *)
(* A task enters what it has written.  Whatever else happens between its   *)
(* write and its entry, a file only goes with an eviction, and of that     *)
(* there is the history: so what is covered stays covered.  The index file *)
(* is a copy of the index of some moment, and is covered for that reason.  *)
(***************************************************************************)

\* What the argument needs of the types: a task that stores has a message.
StoreTypes ==
  /\ store \in [Speaker -> {"idle", "wav", "lock", "evict", "save"}]
  /\ uploading \in [Upload -> Message \cup {NoMessage}]
  /\ \A p \in Speaker : store[p] # "idle" => MessageOf(p) \in Message
  /\ index \in Seq(Message) /\ index_file \in Seq(Message)

Covered == wav_files \cup evicted

\* A task that has written its file goes on to enter a covered message.
WrittenCovered ==
  \A p \in Speaker : store[p] \in {"lock", "evict", "save"} => MessageOf(p) \in Covered

EntriesCovered == ToSet(index) \subseteq Covered /\ ToSet(index_file) \subseteq Covered

SpeechIInv == StoreTypes /\ WrittenCovered /\ EntriesCovered

LEMMA CoveredIsAudio == EntriesCovered <=> EntryHasAudio
BY DEF EntriesCovered, EntryHasAudio, Covered, AudioPath, Archived

LEMMA SpeechStart == SpeechInit => SpeechIInv
<1> SUFFICES ASSUME SpeechInit PROVE SpeechIInv
  OBVIOUS
<1>1. ToSet(index) = {} /\ ToSet(index_file) = {}
  BY DEF SpeechInit, ToSet
<1> QED
  BY <1>1 DEF SpeechInit, SpeechIInv, StoreTypes, WrittenCovered, EntriesCovered, Speaker,
              MessageOf

\* What goes into a sequence and what remains of it.
LEMMA EntriesOfAppend ==
  ASSUME NEW S, NEW s \in Seq(S), NEW e \in S
  PROVE  Append(s, e) \in Seq(S) /\ ToSet(Append(s, e)) = ToSet(s) \cup {e}
<1>1. /\ Append(s, e) \in Seq(S) /\ Len(Append(s, e)) = Len(s) + 1
      /\ \A i \in 1 .. Len(s) : Append(s, e)[i] = s[i]
      /\ Append(s, e)[Len(s) + 1] = e
  BY AppendProperties
<1>2. DOMAIN s = 1 .. Len(s) /\ DOMAIN Append(s, e) = 1 .. Len(s) + 1 /\ Len(s) \in Nat
  BY <1>1, LenProperties
<1>3. 1 .. Len(s) + 1 = (1 .. Len(s)) \cup {Len(s) + 1}
  BY <1>2
<1> QED
  BY <1>1, <1>2, <1>3 DEF ToSet

LEMMA EntriesOfTail ==
  ASSUME NEW S, NEW s \in Seq(S), s # <<>>
  PROVE  Tail(s) \in Seq(S) /\ ToSet(Tail(s)) \subseteq ToSet(s)
<1>1. Len(s) \in Nat \ {0} /\ DOMAIN s = 1 .. Len(s)
  BY EmptySeq, LenProperties
<1>2. /\ Tail(s) \in Seq(S) /\ Len(Tail(s)) = Len(s) - 1
      /\ \A i \in 1 .. Len(s) - 1 : Tail(s)[i] = s[i + 1]
  BY HeadTailProperties
<1>3. DOMAIN Tail(s) = 1 .. Len(s) - 1
  BY <1>2, LenProperties
<1>4. \A i \in 1 .. Len(s) - 1 : i + 1 \in 1 .. Len(s)
  BY <1>1
<1> QED
  BY <1>1, <1>2, <1>3, <1>4 DEF ToSet

(* What the steps do to the invariant *)

\* Most steps concern neither the store's tasks nor the archive.
LEMMA ElsewhereKeepsSpeech ==
  ASSUME SpeechIInv, UNCHANGED <<store, uploading, archiveVars>>
  PROVE  SpeechIInv'
BY DEF SpeechIInv, StoreTypes, WrittenCovered, EntriesCovered, Covered, MessageOf, archiveVars

\* A task begins to store, or ends without an entry.
LEMMA StoringKeepsSpeech ==
  ASSUME SpeechIInv, UNCHANGED archiveVars,
         NEW p \in Speaker, NEW next \in {"idle", "wav", "lock", "evict"},
         store' = [store EXCEPT ![p] = next],
         uploading' \in [Upload -> Message \cup {NoMessage}],
         \A q \in Speaker \ {p} : MessageOf(q)' = MessageOf(q),
         next # "idle" => MessageOf(p)' \in Message,
         next \in {"lock", "evict"} => MessageOf(p)' \in Covered
  PROVE  SpeechIInv'
BY DEF SpeechIInv, StoreTypes, WrittenCovered, EntriesCovered, Covered, archiveVars

LEMMA OthersMessage ==
  ASSUME NEW p \in Speaker, NEW m,
         uploading' = IF p \in Upload THEN [uploading EXCEPT ![p] = m] ELSE uploading
  PROVE  \A q \in Speaker \ {p} : MessageOf(q)' = MessageOf(q)
BY DEF MessageOf, Speaker

LEMMA StitchKeeps ==
  ASSUME SpeechIInv, NEW m \in Message, Stitch(m)
  PROVE  SpeechIInv'
<1>1. m \in Speaker /\ MessageOf(m)' = m
  BY DEF Speaker, MessageOf
<1>2. /\ store' = [store EXCEPT ![m] = "wav"] /\ UNCHANGED <<uploading, archiveVars>>
  BY DEF Stitch, Storing
<1>3. \A q \in Speaker \ {m} : MessageOf(q)' = MessageOf(q)
  BY <1>2 DEF MessageOf
<1> QED
  BY <1>1, <1>2, <1>3, StoringKeepsSpeech DEF SpeechIInv, StoreTypes

LEMMA UploadKeeps ==
  ASSUME SpeechIInv, NEW u \in Upload, NEW m \in Message, UploadChecks(u, m)
  PROVE  SpeechIInv'
<1>1. u \in Speaker /\ u \notin Message
  BY SpeechArchiveAssumption DEF Speaker
<1>2. /\ store' = [store EXCEPT ![u] = "wav"] /\ uploading' = [uploading EXCEPT ![u] = m]
      /\ UNCHANGED archiveVars
  BY DEF UploadChecks, Storing
<1>3. uploading' \in [Upload -> Message \cup {NoMessage}] /\ MessageOf(u)' = m
  BY <1>1, <1>2 DEF SpeechIInv, StoreTypes, MessageOf
<1>4. \A q \in Speaker \ {u} : MessageOf(q)' = MessageOf(q)
  BY <1>1, <1>2, OthersMessage
<1> QED
  BY <1>1, <1>2, <1>3, <1>4, StoringKeepsSpeech

LEMMA WriteKeeps ==
  ASSUME SpeechIInv, NEW p \in Speaker, WriteWav(p)
  PROVE  SpeechIInv'
<1>1. /\ store[p] = "wav" /\ store' = [store EXCEPT ![p] = "lock"]
      /\ wav_files' = wav_files \cup {MessageOf(p)}
      /\ UNCHANGED <<uploading, index, index_file, evicted>>
  BY DEF WriteWav, Storing
<1>2. \A q \in Speaker : MessageOf(q)' = MessageOf(q)
  BY <1>1 DEF MessageOf
<1>3. StoreTypes'
  BY <1>1, <1>2 DEF SpeechIInv, StoreTypes
<1>4. WrittenCovered'
  BY <1>1, <1>2 DEF SpeechIInv, StoreTypes, WrittenCovered, Covered
<1>5. EntriesCovered'
  BY <1>1 DEF SpeechIInv, EntriesCovered, Covered
<1> QED
  BY <1>3, <1>4, <1>5 DEF SpeechIInv

LEMMA WriteFailsKeeps ==
  ASSUME SpeechIInv, NEW p \in Speaker, WriteWavFails(p)
  PROVE  SpeechIInv'
<1>1. /\ store' = [store EXCEPT ![p] = "idle"] /\ UNCHANGED archiveVars
      /\ uploading' = IF p \in Upload THEN [uploading EXCEPT ![p] = NoMessage] ELSE uploading
  BY DEF WriteWavFails, Storing, Returns
<1>2. uploading' \in [Upload -> Message \cup {NoMessage}]
  BY <1>1 DEF SpeechIInv, StoreTypes
<1>3. \A q \in Speaker \ {p} : MessageOf(q)' = MessageOf(q)
  BY <1>1, OthersMessage
<1> QED
  BY <1>1, <1>2, <1>3, StoringKeepsSpeech

LEMMA LockKeeps ==
  ASSUME SpeechIInv, NEW p \in Speaker, LockIndex(p)
  PROVE  SpeechIInv'
<1>1. /\ store[p] = "lock" /\ store' = [store EXCEPT ![p] = "evict"]
      /\ UNCHANGED <<uploading, archiveVars>>
  BY DEF LockIndex, Storing
<1>2. \A q \in Speaker : MessageOf(q)' = MessageOf(q)
  BY <1>1 DEF MessageOf
<1>3. MessageOf(p)' \in Message /\ MessageOf(p)' \in Covered
  BY <1>1, <1>2 DEF SpeechIInv, StoreTypes, WrittenCovered
<1>4. uploading' \in [Upload -> Message \cup {NoMessage}]
  BY <1>1 DEF SpeechIInv, StoreTypes
<1> QED
  BY <1>1, <1>2, <1>3, <1>4, StoringKeepsSpeech

\* The file of an evicted entry may go: the eviction is remembered.
LEMMA EvictKeeps ==
  ASSUME SpeechIInv, NEW p \in Speaker, Evict(p)
  PROVE  SpeechIInv'
<1>1. /\ UNCHANGED <<store, uploading, index_file>> /\ index' = Tail(index)
      /\ wav_files' \in {wav_files, wav_files \ {Head(index)}}
      /\ evicted' = evicted \cup {Head(index)}
  BY DEF Evict, tasksVars
<1>2. index # <<>>
  BY SpeechArchiveAssumption, EmptySeq DEF SpeechIInv, StoreTypes, Evict
<1>3. Covered \subseteq Covered'
  BY <1>1 DEF Covered
<1>4. index' \in Seq(Message) /\ ToSet(index') \subseteq ToSet(index)
  BY <1>1, <1>2, EntriesOfTail DEF SpeechIInv, StoreTypes
<1>5. \A q \in Speaker : MessageOf(q)' = MessageOf(q)
  BY <1>1 DEF MessageOf
<1> QED
  BY <1>1, <1>3, <1>4, <1>5 DEF SpeechIInv, StoreTypes, WrittenCovered, EntriesCovered

LEMMA PushKeeps ==
  ASSUME SpeechIInv, NEW p \in Speaker, PushEntry(p)
  PROVE  SpeechIInv'
<1>1. /\ store[p] = "evict" /\ store' = [store EXCEPT ![p] = "save"]
      /\ UNCHANGED <<uploading, index_file, wav_files, evicted>>
      /\ index' = Append(index, MessageOf(p))
  BY DEF PushEntry, Storing
<1>2. MessageOf(p) \in Message /\ MessageOf(p) \in Covered /\ index \in Seq(Message)
  BY <1>1 DEF SpeechIInv, StoreTypes, WrittenCovered
<1>3. index' \in Seq(Message) /\ ToSet(index') = ToSet(index) \cup {MessageOf(p)}
  BY <1>1, <1>2, EntriesOfAppend
<1>4. \A q \in Speaker : MessageOf(q)' = MessageOf(q)
  BY <1>1 DEF MessageOf
<1>5. Covered' = Covered
  BY <1>1 DEF Covered
<1>6. StoreTypes'
  BY <1>1, <1>3, <1>4 DEF SpeechIInv, StoreTypes
<1>7. WrittenCovered'
  BY <1>1, <1>2, <1>4, <1>5 DEF SpeechIInv, StoreTypes, WrittenCovered
<1>8. EntriesCovered'
  BY <1>1, <1>2, <1>3, <1>5 DEF SpeechIInv, EntriesCovered
<1> QED
  BY <1>6, <1>7, <1>8 DEF SpeechIInv

LEMMA SaveKeeps ==
  ASSUME SpeechIInv, NEW p \in Speaker, SaveIndex(p)
  PROVE  SpeechIInv'
<1>1. /\ store' = [store EXCEPT ![p] = "idle"] /\ index_file' \in {index, index_file}
      /\ UNCHANGED <<index, wav_files, evicted>>
      /\ uploading' = IF p \in Upload THEN [uploading EXCEPT ![p] = NoMessage] ELSE uploading
  BY DEF SaveIndex, Storing, Returns
<1>2. uploading' \in [Upload -> Message \cup {NoMessage}]
  BY <1>1 DEF SpeechIInv, StoreTypes
<1>3. \A q \in Speaker \ {p} : MessageOf(q)' = MessageOf(q)
  BY <1>1, OthersMessage
<1> QED
  BY <1>1, <1>2, <1>3 DEF SpeechIInv, StoreTypes, WrittenCovered, EntriesCovered, Covered

\* The tasks are gone, and the index is the file.
LEMMA CrashKeeps ==
  ASSUME SpeechIInv, CrashAndOpen
  PROVE  SpeechIInv'
<1>1. /\ store' = [p \in Speaker |-> "idle"] /\ uploading' = [u \in Upload |-> NoMessage]
      /\ index' = index_file /\ UNCHANGED <<index_file, wav_files, evicted>>
  BY DEF CrashAndOpen
<1> QED
  BY <1>1 DEF SpeechIInv, StoreTypes, WrittenCovered, EntriesCovered, Covered

LEMMA SpeechSteps == SpeechIInv /\ [SpeechNext]_speechVars => SpeechIInv'
<1> SUFFICES ASSUME SpeechIInv, [SpeechNext]_speechVars
             PROVE  SpeechIInv'
  OBVIOUS
<1>1. ASSUME NEW m \in Message, Preflight(m)
      PROVE  SpeechIInv'
  BY <1>1, ElsewhereKeepsSpeech DEF Preflight
<1>2. ASSUME NEW m \in Message, Speak(m)
      PROVE  SpeechIInv'
  <2>1. CASE Stitch(m)
    BY <2>1, StitchKeeps
  <2>2. CASE FetchConditionals(m) \/ Dispatch(m) \/ WatchdogLooks(m) \/ WatchdogJudges(m)
    BY <2>2, ElsewhereKeepsSpeech
    DEF FetchConditionals, Dispatch, WatchdogLooks, WatchdogJudges
  <2>3. CASE Submit(m) \/ SubmitFails(m) \/ StitchFails(m)
    BY <2>3, ElsewhereKeepsSpeech DEF Submit, SubmitFails, StitchFails, GenerationFails
  <2> QED
    BY <1>2, <2>1, <2>2, <2>3 DEF Speak
<1>3. ASSUME NEW m \in Message, Poll(m) \/ PollFails(m) \/ RequestHangs(m)
      PROVE  SpeechIInv'
  BY <1>3, ElsewhereKeepsSpeech
  DEF Poll, PollStream, PollLost, PollStatus, PollFails, GenerationFails, RequestHangs,
      tasksVars
<1>4. ASSUME NEW m \in Message, WorkerMakes(m) \/ WorkerEnds(m)
      PROVE  SpeechIInv'
  BY <1>4, ElsewhereKeepsSpeech DEF WorkerMakes, WorkerEnds, tasksVars
<1>5. ASSUME NEW m \in Message, BrowserReports(m) \/ ProgressAges(m)
      PROVE  SpeechIInv'
  BY <1>5, ElsewhereKeepsSpeech DEF BrowserReports, ProgressAges, tasksVars
<1>6. ASSUME NEW u \in Upload, NEW m \in Message, UploadChecks(u, m)
      PROVE  SpeechIInv'
  BY <1>6, UploadKeeps
<1>7. ASSUME NEW p \in Speaker, StoreStep(p)
      PROVE  SpeechIInv'
  BY <1>7, WriteKeeps, WriteFailsKeeps, LockKeeps, EvictKeeps, PushKeeps, SaveKeeps
  DEF StoreStep
<1>8. CASE AudioChanges
  BY <1>8, ElsewhereKeepsSpeech DEF AudioChanges, tasksVars
<1>9. CASE CrashAndOpen
  BY <1>9, CrashKeeps
<1>10. CASE UNCHANGED speechVars
  BY <1>10, ElsewhereKeepsSpeech DEF speechVars, tasksVars
<1> QED
  BY <1>1, <1>2, <1>3, <1>4, <1>5, <1>6, <1>7, <1>8, <1>9, <1>10 DEF SpeechNext

\* An entry of the archive, in memory or in the file a restart reads, has its
\* audio unless its message was evicted once, whatever tasks store at the same
\* time, whatever saves fail and wherever the daemon dies.
THEOREM EntriesHaveAudio == SpeechSpec => []EntryHasAudio
<1>1. SpeechInit => SpeechIInv
  BY SpeechStart
<1>2. SpeechIInv /\ [SpeechNext]_speechVars => SpeechIInv'
  BY SpeechSteps
<1>3. SpeechIInv => EntryHasAudio
  BY CoveredIsAudio DEF SpeechIInv
<1> QED
  BY <1>1, <1>2, <1>3, PTL DEF SpeechSpec

LEMMA SpeechInitTyped == SpeechInit => SpeechTypeOK
<1> SUFFICES ASSUME SpeechInit  PROVE SpeechTypeOK
  OBVIOUS
<1>1. /\ MaxAudio \in Nat /\ MaxEvents \in Nat /\ MaxCrashes \in Nat
      /\ \A S : <<>> \in Seq(S)
  BY EmptySeq, SpeechArchiveAssumption
<1> QED  BY <1>1 DEF SpeechInit, SpeechTypeOK

\* What the worker made bounds what the daemon was returned and has; who stores
\* anything stores a message (SpeechIInv).
LEMMA SpeechKeepsTypes ==
  SpeechIInv /\ SpeechTypeOK /\ [SpeechNext]_speechVars => SpeechTypeOK'
<1> SUFFICES ASSUME SpeechIInv, SpeechTypeOK, [SpeechNext]_speechVars  PROVE SpeechTypeOK'
  OBVIOUS
<1> DEFINE Statuses == {"registered", "done", "archived", "failed", "unstored", "hung",
                        "crashed"}
           TaskTypes ==
             /\ spc \in [Message -> {"new", "conditionals", "dispatch", "watch", "judge",
                                     "submit", "poll", "stitch", "over"}]
             /\ live_clients \in [Message -> BOOLEAN]
             /\ store \in [Speaker -> {"idle", "wav", "lock", "evict", "save"}]
             /\ uploading \in [Upload -> Message \cup {NoMessage}]
             /\ writer \in Speaker \cup {NoTask}
           ListenerTypes ==
             /\ audio_browser \in BOOLEAN /\ heard \in [Message -> BOOLEAN]
             /\ tts_progress \in [Message -> {"none", "recent", "old"}]
             /\ browser_events \in 0..MaxEvents /\ crashes \in 0..MaxCrashes
           WorkerTypes ==
             /\ produced \in [Message -> 0..MaxAudio] /\ returned \in [Message -> 0..MaxAudio]
             /\ ended \in [Message -> BOOLEAN]
             /\ chunks \in [Message -> SUBSET (1..MaxAudio)]
           ArchiveTypes ==
             /\ index \in Seq(Message) /\ index_file \in Seq(Message)
             /\ wav_files \subseteq Message /\ evicted \subseteq Message
           ReportTypes == report \in [Message -> SUBSET Statuses]
           Types == TaskTypes /\ ListenerTypes /\ WorkerTypes /\ ArchiveTypes /\ ReportTypes
<1>1. /\ Types /\ MaxAudio \in Nat /\ MaxEvents \in Nat /\ MaxCrashes \in Nat
      /\ MaxEntries \in Nat \ {0} /\ Message \subseteq Speaker /\ Upload \subseteq Speaker
  BY SpeechArchiveAssumption DEF SpeechTypeOK, Speaker
<1>2. SUFFICES Types'
  BY DEF SpeechTypeOK
<1>3. \A p \in Speaker : store[p] # "idle" => MessageOf(p) \in Message
  BY DEF SpeechIInv, StoreTypes
<1>4. ASSUME UNCHANGED speechVars  PROVE Types'
  BY <1>1, <1>4 DEF speechVars, tasksVars, listenerVars, speechWorkerVars, archiveVars
<1>5. ASSUME NEW m \in Message, NEW status \in Statuses, Report(m, status)  PROVE ReportTypes'
  BY <1>1, <1>5 DEF Report
<1> HIDE DEF Statuses
<1>6. /\ "registered" \in Statuses /\ "failed" \in Statuses /\ "hung" \in Statuses
      /\ "unstored" \in Statuses /\ "archived" \in Statuses /\ "done" \in Statuses
      /\ "crashed" \in Statuses
  BY DEF Statuses
<1>7. ASSUME NEW m \in Message, Preflight(m)  PROVE Types'
  <2>1. ReportTypes'
    BY <1>5, <1>6, <1>7 DEF Preflight
  <2> QED
    BY <1>1, <1>7, <2>1 DEF Preflight, At, listenerVars, speechWorkerVars, archiveVars
<1>8. ASSUME NEW m \in Message,
             FetchConditionals(m) \/ Dispatch(m) \/ WatchdogLooks(m) \/ WatchdogJudges(m)
               \/ Submit(m)
      PROVE  Types'
  <2>1. /\ UNCHANGED <<live_clients, store, uploading, writer, audio_browser,
                       browser_events, crashes>>
        /\ UNCHANGED <<produced, returned, ended, chunks, index, index_file, wav_files,
                       evicted, report>>
    BY <1>8
    DEF FetchConditionals, Dispatch, WatchdogLooks, WatchdogJudges, Submit, At,
        listenerVars, speechWorkerVars, archiveVars
  <2>2. WorkerTypes' /\ ArchiveTypes' /\ ReportTypes'
    BY <1>1, <2>1
  <2>3. TaskTypes' /\ ListenerTypes'
    <3>1. CASE FetchConditionals(m)
      BY <1>1, <2>1, <3>1 DEF FetchConditionals, At, listenerVars
    <3>2. CASE Dispatch(m)
      BY <1>1, <2>1, <3>2 DEF Dispatch, At, listenerVars
    <3>3. CASE WatchdogLooks(m)
      BY <1>1, <2>1, <3>3 DEF WatchdogLooks, At
    <3>4. CASE WatchdogJudges(m)
      BY <1>1, <2>1, <3>4 DEF WatchdogJudges, At
    <3>5. CASE Submit(m)
      BY <1>1, <2>1, <3>5 DEF Submit, At, listenerVars
    <3> QED  BY <1>8, <3>1, <3>2, <3>3, <3>4, <3>5
  <2> QED  BY <2>2, <2>3
<1>9. ASSUME NEW m \in Message,
             \/ SubmitFails(m) \/ PollFails(m) \/ StitchFails(m) \/ RequestHangs(m)
      PROVE  Types'
  <2>1. ReportTypes'
    BY <1>5, <1>6, <1>9 DEF SubmitFails, PollFails, StitchFails, RequestHangs, GenerationFails
  <2> QED
    BY <1>1, <1>9, <2>1
    DEF SubmitFails, PollFails, StitchFails, RequestHangs, GenerationFails, At, listenerVars,
        speechWorkerVars, archiveVars
<1>10. ASSUME NEW m \in Message, Stitch(m)  PROVE Types'
  BY <1>1, <1>10 DEF Stitch, At, Storing, listenerVars, speechWorkerVars, archiveVars
<1>11. ASSUME NEW m \in Message, Poll(m)  PROVE Types'
  <2>1. /\ produced[m] \in 0..MaxAudio /\ returned[m] \in 0..MaxAudio
        /\ (returned[m] + 1)..produced[m] \subseteq 1..MaxAudio
    BY <1>1
  <2>2. WorkerTypes'
    <3>1. CASE PollStream(m)
      <4>1. chunks[m] \cup ((returned[m] + 1)..produced[m]) \in SUBSET (1..MaxAudio)
        BY <1>1, <2>1
      <4> QED  BY <1>1, <2>1, <3>1, <4>1 DEF PollStream, StreamResponse
    <3>2. CASE PollLost(m)
      BY <1>1, <2>1, <3>2 DEF PollLost
    <3>3. CASE PollStatus(m)
      BY <1>1, <3>3 DEF PollStatus, speechWorkerVars
    <3> QED  BY <1>11, <3>1, <3>2, <3>3 DEF Poll
  <2>3. TaskTypes' /\ UNCHANGED <<listenerVars, crashes, archiveVars, report>>
    BY <1>1, <1>11 DEF Poll, PollStream, PollLost, PollStatus, At, tasksVars
  <2> QED  BY <1>1, <2>2, <2>3 DEF listenerVars, archiveVars
<1>12. ASSUME NEW m \in Message, WorkerMakes(m) \/ WorkerEnds(m)  PROVE Types'
  <2>1. WorkerTypes'
    <3>1. CASE WorkerMakes(m)
      <4>1. produced[m] + 1 \in 0..MaxAudio
        BY <1>1, <3>1 DEF WorkerMakes
      <4> QED  BY <1>1, <3>1, <4>1 DEF WorkerMakes
    <3>2. CASE WorkerEnds(m)
      BY <1>1, <3>2 DEF WorkerEnds
    <3> QED  BY <1>12, <3>1, <3>2
  <2> QED
    BY <1>1, <1>12, <2>1 DEF WorkerMakes, WorkerEnds, tasksVars, listenerVars, archiveVars
<1>13. ASSUME NEW u \in Upload, NEW m \in Message, UploadChecks(u, m)  PROVE Types'
  BY <1>1, <1>13 DEF UploadChecks, Storing, listenerVars, speechWorkerVars, archiveVars
<1>14. ASSUME NEW p \in Speaker, StoreStep(p)  PROVE Types'
  <2>1. MessageOf(p) \in Message
    BY <1>3, <1>14
    DEF StoreStep, WriteWav, WriteWavFails, LockIndex, Evict, PushEntry, SaveIndex, Storing
  <2>2. ReportTypes'
    BY <1>1, <1>5, <1>6, <1>14, <2>1
    DEF StoreStep, WriteWav, WriteWavFails, LockIndex, Evict, PushEntry, SaveIndex
  <2>3. TaskTypes'
    BY <1>1, <1>14
    DEF StoreStep, WriteWav, WriteWavFails, LockIndex, Evict, PushEntry, SaveIndex, Storing,
        Returns, tasksVars
  <2>4. ArchiveTypes'
    <3>1. Append(index, MessageOf(p)) \in Seq(Message)
      BY <1>1, <2>1, AppendProperties
    <3>2. Evict(p) => Tail(index) \in Seq(Message) /\ Head(index) \in Message
      <4>1. Evict(p) => index # <<>>
        BY <1>1, EmptySeq DEF Evict
      <4> QED  BY <1>1, <4>1, HeadTailProperties
    <3> QED
      BY <1>1, <1>14, <2>1, <3>1, <3>2
      DEF StoreStep, WriteWav, WriteWavFails, LockIndex, Evict, PushEntry, SaveIndex,
          archiveVars
  <2>5. UNCHANGED <<listenerVars, crashes, speechWorkerVars>>
    BY <1>14
    DEF StoreStep, WriteWav, WriteWavFails, LockIndex, Evict, PushEntry, SaveIndex
  <2> QED  BY <1>1, <2>2, <2>3, <2>4, <2>5 DEF listenerVars, speechWorkerVars
<1>15. ASSUME NEW m \in Message, BrowserReports(m) \/ ProgressAges(m)  PROVE Types'
  <2>1. TaskTypes' /\ WorkerTypes' /\ ArchiveTypes' /\ ReportTypes'
    BY <1>1, <1>15
    DEF BrowserReports, ProgressAges, tasksVars, speechWorkerVars, archiveVars
  <2>2. CASE BrowserReports(m)
    <3>1. browser_events + 1 \in 0..MaxEvents
      BY <1>1, <2>2 DEF BrowserReports
    <3> QED  BY <1>1, <2>1, <2>2, <3>1 DEF BrowserReports
  <2>3. CASE ProgressAges(m)
    BY <1>1, <2>1, <2>3 DEF ProgressAges
  <2> QED  BY <1>15, <2>2, <2>3
<1>16. ASSUME AudioChanges  PROVE Types'
  <2>1. TaskTypes' /\ WorkerTypes' /\ ArchiveTypes' /\ ReportTypes'
    BY <1>1, <1>16 DEF AudioChanges, tasksVars, speechWorkerVars, archiveVars
  <2>2. browser_events + 1 \in 0..MaxEvents
    BY <1>1, <1>16 DEF AudioChanges
  <2> QED  BY <1>1, <1>16, <2>1, <2>2 DEF AudioChanges
<1>17. ASSUME CrashAndOpen  PROVE Types'
  <2>1. ReportTypes'
    BY <1>1, <1>6, <1>17 DEF CrashAndOpen
  <2>2. TaskTypes'
    BY <1>1, <1>17 DEF CrashAndOpen
  <2>3. ArchiveTypes' /\ WorkerTypes'
    BY <1>1, <1>17 DEF CrashAndOpen, speechWorkerVars
  <2>4. crashes + 1 \in 0..MaxCrashes
    BY <1>1, <1>17 DEF CrashAndOpen
  <2>5. ListenerTypes'
    BY <1>1, <1>17, <2>4 DEF CrashAndOpen
  <2> QED  BY <2>1, <2>2, <2>3, <2>5
<1> HIDE DEF Types
<1> QED
  BY <1>4, <1>7, <1>8, <1>9, <1>10, <1>11, <1>12, <1>13, <1>14, <1>15, <1>16, <1>17
  DEF SpeechNext, Speak

\* The tasks of speech, the worker's chunks and the archive keep to their types (POST
\* /api/tts, gpu_client.rs, TtsArchive), over crashes of the daemon.
THEOREM SpeechTyped == SpeechSpec => []SpeechTypeOK
<1>1. SpeechIInv /\ SpeechTypeOK /\ [SpeechNext]_speechVars => SpeechIInv' /\ SpeechTypeOK'
  BY SpeechSteps, SpeechKeepsTypes
<1>2. SpeechInit => SpeechIInv /\ SpeechTypeOK
  BY SpeechStart, SpeechInitTyped
<1> QED  BY <1>1, <1>2, PTL DEF SpeechSpec

-----------------------------------------------------------------------------
(***************************************************************************)
(* What a WebRTC data channel delivers are whole messages in the order     *)
(* they were sent, for any number of tasks that send, any sizes of frames  *)
(* and queues and any payloads, as long as no two tasks are sending at the *)
(* same time.                                                              *)
(*                                                                         *)
(* The frames on their way are those of the send queue and then those that *)
(* the sending task has still to queue.  Every one of them is a frame of a *)
(* message that was sent, the one after it is the next chunk of the same   *)
(* message or the first frame of a later message, and the very last one    *)
(* ends its message.  That is what makes the receiver's state predictable: *)
(* the frame that arrives next alone tells what the assembler holds, which *)
(* is the chunks of its message before it.                                 *)
(***************************************************************************)

\* No two tasks are in the middle of a send.  ChannelSender does not see to
\* it.  A browser sends from one task; on the daemon's control channel the
\* event relay and the handler of requests share a sender, and for them this
\* is a condition (rtc.rs:393, 424): chunks carry no message id.
OneSending ==
  \A s, t \in SendingTask : sending[s] # <<>> /\ sending[t] # <<>> => s = t

Slice == [of : Nat, first : Nat, last : Nat]
ChannelFrame == [kind : {"whole", "chunk"}, type : Type, seq : Nat, total : Nat, data : Slice]
Whole == [type : Type, pieces : Seq(Slice)]

\* A frame as encode cuts it from the one of the messages ms it names.
SentFrame(ms, f) ==
  LET m == f.data.of
      n == Chunks(ms[m].length) IN
  /\ f \in ChannelFrame /\ m \in 1..Len(ms)
  /\ ms[m].length <= SingleRoom => f = WholeFrame(m, ms[m])
  /\ ms[m].length > SingleRoom => f.seq < n /\ f = ChunkFrame(m, ms[m], f.seq, n)

EndsMessage(f) == f.seq + 1 = f.total

\* The frame that is sent after f: its message goes on, or a later one begins.
Follows(f, g) ==
  \/ g.data.of = f.data.of /\ g.seq = f.seq + 1
  \/ g.data.of > f.data.of /\ g.seq = 0 /\ EndsMessage(f)

\* An assembler that holds the first k chunks of the message of frame f.
HeldOf(f, k) ==
  [total |-> f.total, original_type |-> f.type,
   chunks |-> [i \in 0..(f.total - 1) |->
      IF i < k
      THEN {ChunkFrame(f.data.of, messages[f.data.of], i, f.total).data} ELSE {}],
   received |-> k]

DeliveredBefore(m) == \A i \in DOMAIN Delivered : Delivered[i].pieces[1].of < m

\* The receiver is ready for f.
Expected(f) ==
  /\ assembler = IF f.seq = 0 \/ TooMany(f) THEN NoAssembler ELSE HeldOf(f, f.seq)
  /\ DeliveredBefore(f.data.of)

InTurn(ms, s) ==
  /\ \A i \in 1..Len(s) : SentFrame(ms, s[i])
  /\ \A i \in 1..(Len(s) - 1) : Follows(s[i], s[i + 1])

ChannelTypes ==
  /\ messages \in Seq([type : Type, length : Nat])
  /\ sending \in [SendingTask -> Seq(ChannelFrame)] /\ send_queue \in Seq(ChannelFrame)
  /\ decoded_tx \in Seq(Whole) /\ received_all \in Seq(Whole)

FramesInTurn ==
  /\ InTurn(messages, send_queue)
  /\ \A t \in SendingTask : InTurn(messages, sending[t])
  /\ \A t \in SendingTask : sending[t] # <<>> => EndsMessage(sending[t][Len(sending[t])])

\* What a task has still to queue goes on where the queue ends.
QueueGoesOn ==
  send_queue # <<>> =>
    /\ \A t \in SendingTask :
         sending[t] # <<>> => Follows(send_queue[Len(send_queue)], sending[t][1])
    /\ (\A t \in SendingTask : sending[t] = <<>>) => EndsMessage(send_queue[Len(send_queue)])

\* The receiver is ready for whatever arrives next.
ReceiverReady ==
  alive =>
    /\ send_queue # <<>> => Expected(send_queue[1])
    /\ send_queue = <<>> =>
         /\ \A t \in SendingTask : sending[t] # <<>> => Expected(sending[t][1])
         /\ (\A t \in SendingTask : sending[t] = <<>>) => assembler = NoAssembler

SentMessages ==
  \A i \in DOMAIN Delivered :
    /\ Delivered[i].pieces[1].of \in 1..Len(messages)
    /\ IsMessage(Delivered[i], Delivered[i].pieces[1].of)

MessagesAscend ==
  \A i \in DOMAIN Delivered :
    i > 1 => Delivered[i].pieces[1].of > Delivered[i - 1].pieces[1].of

ChannelIInv ==
  /\ ChannelTypes /\ FramesInTurn /\ QueueGoesOn /\ ReceiverReady
  /\ SentMessages /\ MessagesAscend

-----------------------------------------------------------------------------
(* Encoding *)

\* The chunks of a message of this length: the last one begins before its end,
\* and no byte is left behind it.
LEMMA ChunksCover ==
  ASSUME NEW l \in Nat, l > SingleRoom
  PROVE  /\ Chunks(l) \in Nat /\ Chunks(l) >= 2
         /\ (Chunks(l) - 1) * ChunkRoom < l /\ l <= Chunks(l) * ChunkRoom
<1> DEFINE x == l + ChunkRoom - 1
           n == x \div ChunkRoom
<1>1. x \in Nat /\ ChunkRoom \in Nat /\ ChunkRoom > 0 /\ l > ChunkRoom
  BY DataChannelAssumption
<1>2. n \in Nat /\ n * ChunkRoom <= x /\ x < n * ChunkRoom + ChunkRoom
  <2> HIDE DEF x
  <2>1. n \in Nat /\ n * ChunkRoom <= x
    BY <1>1
  <2>2. x < n * ChunkRoom + ChunkRoom
    BY <1>1
  <2> QED  BY <2>1, <2>2
<1> HIDE DEF n
<1>3. (n - 1) * ChunkRoom < l /\ l <= n * ChunkRoom
  BY <1>1, <1>2
<1>4. n >= 2
  <2>1. n = 0 => l <= 0
    BY <1>1, <1>3
  <2>2. n = 1 => l <= ChunkRoom
    BY <1>1, <1>3
  <2> QED  BY <1>1, <1>2, <2>1, <2>2
<1> QED  BY <1>2, <1>3, <1>4 DEF Chunks, n

LEMMA Multiples ==
  ASSUME NEW i \in Nat, NEW n \in Nat, i <= n
  PROVE  i * ChunkRoom \in Nat /\ i * ChunkRoom <= n * ChunkRoom
BY DataChannelAssumption

LEMMA RoomIsNatural == ChunkRoom \in Nat /\ SingleRoom \in Nat /\ MaxChunks \in Nat \ {0}
BY DataChannelAssumption

LEMMA ElementTyped ==
  ASSUME NEW ms \in Seq([type : Type, length : Nat]), NEW m \in 1..Len(ms)
  PROVE  ms[m] \in [type : Type, length : Nat] /\ m \in Nat
<1> DEFINE S == [type : Type, length : Nat]
<1>1. ms \in Seq(S)
  OBVIOUS
<1> HIDE DEF S
<1>2. ms[m] \in S /\ m \in Nat
  BY <1>1
<1> QED  BY <1>2 DEF S

LEMMA MessageTyped ==
  ASSUME ChannelTypes, NEW m \in 1..Len(messages)
  PROVE  messages[m] \in [type : Type, length : Nat] /\ m \in Nat
BY ElementTyped DEF ChannelTypes

\* A frame tells the type of its message and the number of its frames.
LEMMA FrameOfMessage ==
  ASSUME ChannelTypes, NEW f, SentFrame(messages, f)
  PROVE  LET m == f.data.of IN
         /\ m \in 1..Len(messages) /\ messages[m] \in [type : Type, length : Nat]
         /\ f.type = messages[m].type /\ f.seq \in Nat /\ f.total \in Nat
         /\ f.seq < f.total /\ f.data \in Slice
         /\ messages[m].length <= SingleRoom =>
              f.kind = "whole" /\ f.seq = 0 /\ f.total = 1
              /\ f.data = Piece(m, 1, messages[m].length)
         /\ messages[m].length > SingleRoom =>
              f.kind = "chunk" /\ f.total = Chunks(messages[m].length)
              /\ f.data = ChunkFrame(m, messages[m], f.seq, f.total).data
<1> DEFINE m == f.data.of
           l == messages[m].length
<1>1. /\ m \in 1..Len(messages) /\ messages[m] \in [type : Type, length : Nat]
      /\ f \in ChannelFrame
  <2>1. m \in 1..Len(messages) /\ f \in ChannelFrame
    BY DEF SentFrame
  <2> HIDE DEF m
  <2> QED  BY <2>1, MessageTyped
<1>2. l \in Nat /\ (l <= SingleRoom \/ l > SingleRoom)
  BY <1>1, RoomIsNatural
<1>3. CASE l <= SingleRoom
  BY <1>1, <1>3, RoomIsNatural DEF SentFrame, WholeFrame, ChannelFrame
<1>4. CASE l > SingleRoom
  <2>1. f.seq < Chunks(l) /\ f = ChunkFrame(m, messages[m], f.seq, Chunks(l))
    BY <1>4 DEF SentFrame
  <2>2. f.kind = "chunk" /\ f.total = Chunks(l) /\ f.type = messages[m].type
    BY <2>1 DEF ChunkFrame
  <2> QED  BY <1>1, <1>4, <2>1, <2>2, RoomIsNatural DEF ChannelFrame
<1> QED  BY <1>2, <1>3, <1>4

\* encode cuts a message into frames that are sent in turn, the last of which
\* ends it.
LEMMA EncodedInTurn ==
  ASSUME NEW ms \in Seq([type : Type, length : Nat]), NEW m \in 1..Len(ms)
  PROVE  LET s == Encode(m, ms[m]) IN
         /\ s \in Seq(ChannelFrame) /\ s # <<>> /\ InTurn(ms, s) /\ EndsMessage(s[Len(s)])
         /\ s[1].seq = 0 /\ s[1].data.of = m
<1> DEFINE msg == ms[m]
           l == ms[m].length
           s == Encode(m, ms[m])
<1>1. msg \in [type : Type, length : Nat] /\ l \in Nat /\ m \in Nat
  BY ElementTyped
<1>2. CASE l <= SingleRoom
  <2>1. s = <<WholeFrame(m, msg)>>
    BY <1>2 DEF Encode
  <2>2. WholeFrame(m, msg) \in ChannelFrame
    BY <1>1 DEF WholeFrame, ChannelFrame, Piece, Slice
  <2>3. SentFrame(ms, WholeFrame(m, msg))
    BY <1>1, <1>2, <2>2, RoomIsNatural DEF SentFrame, WholeFrame, Piece
  <2>4. EndsMessage(WholeFrame(m, msg))
    BY DEF EndsMessage, WholeFrame
  <2>5. WholeFrame(m, msg).seq = 0 /\ WholeFrame(m, msg).data.of = m
    BY DEF WholeFrame, Piece
  <2> DEFINE f == WholeFrame(m, msg)
  <2>6. f \in ChannelFrame /\ SentFrame(ms, f) /\ EndsMessage(f) /\ f.seq = 0 /\ f.data.of = m
    BY <2>2, <2>3, <2>4, <2>5
  <2> HIDE DEF f
  <2>7. s = <<f>>
    BY <2>1 DEF f
  <2> HIDE DEF s
  <2>8. s \in Seq(ChannelFrame) /\ Len(s) = 1 /\ s[1] = f
    BY <2>6, <2>7
  <2>9. InTurn(ms, s)
    BY <2>6, <2>8 DEF InTurn
  <2> QED  BY <2>6, <2>7, <2>8, <2>9 DEF s
<1>3. CASE l > SingleRoom
  <2> DEFINE n == Chunks(l)
             F(i) == ChunkFrame(m, msg, i - 1, n)
  <2>1. n \in Nat /\ n >= 2
    BY <1>1, <1>3, ChunksCover
  <2>2. s = [i \in 1..n |-> F(i)]
    BY <1>1, <1>3, RoomIsNatural DEF Encode
  <2> HIDE DEF n, s
  <2>3. ASSUME NEW i \in 1..n
        PROVE  /\ F(i) \in ChannelFrame /\ F(i).seq = i - 1 /\ F(i).total = n
               /\ F(i).data.of = m /\ SentFrame(ms, F(i))
    <3>1. i - 1 \in Nat /\ i - 1 < n
      BY <2>1
    <3>2. (i - 1) * ChunkRoom \in Nat /\ ((i - 1) + 1) * ChunkRoom \in Nat
      BY <3>1, Multiples
    <3>3. F(i) \in ChannelFrame
      BY <1>1, <2>1, <3>1, <3>2 DEF ChunkFrame, ChannelFrame, Piece, Slice
    <3>4. F(i).seq = i - 1 /\ F(i).total = n /\ F(i).data.of = m
      BY DEF ChunkFrame, Piece
    <3> HIDE DEF F
    <3>5. SentFrame(ms, F(i))
      <4>1. F(i) = ChunkFrame(m, msg, F(i).seq, n)
        BY <3>4 DEF F
      <4> QED  BY <1>1, <1>3, <3>1, <3>3, <3>4, <4>1, RoomIsNatural DEF SentFrame, n
    <3> QED  BY <3>3, <3>4, <3>5
  <2> HIDE DEF F
  <2>4. s \in Seq(ChannelFrame) /\ Len(s) = n /\ s # <<>> /\ \A i \in 1..n : s[i] = F(i)
    <3>1. \A i \in 1..n : F(i) \in ChannelFrame
      BY <2>3
    <3>2. s \in Seq(ChannelFrame) /\ Len(s) = n
      BY <2>1, <2>2, <3>1
    <3>3. \A i \in 1..n : s[i] = F(i)
      BY <2>2
    <3> QED  BY <2>1, <3>2, <3>3
  <2>5. InTurn(ms, s)
    <3>1. ASSUME NEW i \in 1..(n - 1)  PROVE Follows(s[i], s[i + 1])
      BY <2>1, <2>3, <2>4 DEF Follows
    <3> QED  BY <2>3, <2>4, <3>1 DEF InTurn
  <2>6. EndsMessage(s[n])
    <3>1. n \in 1..n
      BY <2>1
    <3>2. s[n].seq = n - 1 /\ s[n].total = n
      BY <2>3, <2>4, <3>1
    <3> QED  BY <2>1, <3>2 DEF EndsMessage
  <2>7. s[1].seq = 0 /\ s[1].data.of = m
    BY <2>1, <2>3, <2>4
  <2> QED  BY <2>4, <2>5, <2>6, <2>7 DEF s
<1>4. l <= SingleRoom \/ l > SingleRoom
  BY <1>1, RoomIsNatural
<1> QED  BY <1>2, <1>3, <1>4

-----------------------------------------------------------------------------
(* The receiver *)

\* What is decoded next to the messages already delivered is appended to them,
\* if there is room for it.
LEMMA DecodedAppends ==
  ASSUME ChannelTypes, NEW msg \in Whole, Decoded(msg), received_all' = received_all
  PROVE  /\ decoded_tx' \in Seq(Whole) /\ Delivered \in Seq(Whole)
         /\ Delivered' = Delivered \/ Delivered' = Append(Delivered, msg)
<1>1. decoded_tx \in Seq(Whole) /\ received_all \in Seq(Whole)
  BY DEF ChannelTypes
<1>2. decoded_tx' = decoded_tx \/ decoded_tx' = Append(decoded_tx, msg)
  BY DEF Decoded
<1>3. Delivered \in Seq(Whole)
  BY <1>1 DEF Delivered
<1>4. received_all \o Append(decoded_tx, msg) = Append(received_all \o decoded_tx, msg)
  BY <1>1, AppendIsConcat, ConcatAssociative
<1>5. decoded_tx' \in Seq(Whole)
  BY <1>1, <1>2
<1>6. Delivered' = Delivered \/ Delivered' = Append(Delivered, msg)
  BY <1>2, <1>4 DEF Delivered
<1> QED  BY <1>3, <1>5, <1>6

LEMMA OneMoreDelivered ==
  ASSUME ChannelTypes, SentMessages, MessagesAscend,
         NEW m \in 1..Len(messages), DeliveredBefore(m),
         NEW msg \in Whole, msg.pieces[1].of = m, IsMessage(msg, m), Decoded(msg),
         received_all' = received_all, messages' = messages
  PROVE  /\ decoded_tx' \in Seq(Whole) /\ SentMessages' /\ MessagesAscend'
         /\ \A k \in Nat : k > m => DeliveredBefore(k)'
<1>1. /\ decoded_tx' \in Seq(Whole) /\ Delivered \in Seq(Whole)
      /\ Delivered' = Delivered \/ Delivered' = Append(Delivered, msg)
  BY DecodedAppends
<1>2. m \in Nat /\ Len(messages) \in Nat
  BY DEF ChannelTypes
<1>3. \A i \in DOMAIN Delivered : Delivered[i].pieces[1].of \in Nat
  BY <1>2 DEF SentMessages
<1>4. ASSUME NEW i \in DOMAIN Delivered'
      PROVE  \/ i \in DOMAIN Delivered /\ Delivered'[i] = Delivered[i]
             \/ i = Len(Delivered) + 1 /\ Delivered'[i] = msg
  BY <1>1
<1>5. SentMessages'
  <2>1. ASSUME NEW i \in DOMAIN Delivered'
        PROVE  /\ Delivered'[i].pieces[1].of \in 1..Len(messages)
               /\ IsMessage(Delivered'[i], Delivered'[i].pieces[1].of)
    BY <1>4 DEF SentMessages
  <2> QED  BY <2>1 DEF SentMessages, IsMessage
<1>6. MessagesAscend'
  <2>1. SUFFICES ASSUME NEW i \in DOMAIN Delivered', i > 1
        PROVE  Delivered'[i].pieces[1].of > Delivered'[i - 1].pieces[1].of
    BY DEF MessagesAscend
  <2>2. ASSUME i \in DOMAIN Delivered
        PROVE  i - 1 \in DOMAIN Delivered /\ Delivered'[i - 1] = Delivered[i - 1]
    <3>1. i - 1 \in 1..Len(Delivered)
      BY <1>1, <2>1, <2>2
    <3> QED  BY <1>1, <3>1
  <2>3. i = Len(Delivered) + 1 =>
          i - 1 \in DOMAIN Delivered /\ Delivered'[i - 1] = Delivered[i - 1]
    BY <1>1, <2>1
  <2>4. CASE i \in DOMAIN Delivered /\ Delivered'[i] = Delivered[i]
    BY <2>1, <2>2, <2>4 DEF MessagesAscend
  <2>5. CASE i = Len(Delivered) + 1 /\ Delivered'[i] = msg
    BY <1>2, <1>3, <2>3, <2>5 DEF DeliveredBefore
  <2> QED  BY <1>4, <2>4, <2>5
<1>7. ASSUME NEW k \in Nat, k > m  PROVE DeliveredBefore(k)'
  <2>1. SUFFICES ASSUME NEW i \in DOMAIN Delivered'  PROVE Delivered'[i].pieces[1].of < k
    BY DEF DeliveredBefore
  <2> QED  BY <1>2, <1>3, <1>4, <1>7 DEF DeliveredBefore
<1> QED  BY <1>1, <1>5, <1>6, <1>7

LEMMA NothingDelivered ==
  ASSUME ChannelTypes, SentMessages, MessagesAscend,
         decoded_tx' = decoded_tx, received_all' = received_all, messages' = messages
  PROVE  /\ decoded_tx' \in Seq(Whole) /\ SentMessages' /\ MessagesAscend'
         /\ \A m, k \in Nat : DeliveredBefore(m) /\ k >= m => DeliveredBefore(k)'
<1>1. Delivered' = Delivered
  BY DEF Delivered
<1>2. decoded_tx' \in Seq(Whole)
  BY DEF ChannelTypes
<1>3. SentMessages' /\ MessagesAscend'
  BY <1>1 DEF SentMessages, MessagesAscend, IsMessage
<1>4. ASSUME NEW m \in Nat, NEW k \in Nat, DeliveredBefore(m), k >= m
      PROVE  DeliveredBefore(k)'
  <2>1. SUFFICES ASSUME NEW i \in DOMAIN Delivered  PROVE Delivered[i].pieces[1].of < k
    BY <1>1 DEF DeliveredBefore
  <2>2. Delivered[i].pieces[1].of \in 1..Len(messages) /\ Len(messages) \in Nat
    BY DEF SentMessages, ChannelTypes
  <2> QED  BY <1>4, <2>2 DEF DeliveredBefore
<1> QED  BY <1>2, <1>3, <1>4

LEMMA LongMessage ==
  ASSUME ChannelTypes, NEW f, SentFrame(messages, f), f.kind = "chunk"
  PROVE  LET m == f.data.of IN
         /\ m \in 1..Len(messages) /\ messages[m] \in [type : Type, length : Nat]
         /\ f.type = messages[m].type /\ messages[m].length > SingleRoom
         /\ f.seq \in Nat /\ f.total \in Nat /\ f.seq < f.total
         /\ f.total = Chunks(messages[m].length)
         /\ f.data = ChunkFrame(m, messages[m], f.seq, f.total).data
<1> DEFINE m == f.data.of
<1>1. messages[m] \in [type : Type, length : Nat]
  BY FrameOfMessage
<1>2. messages[m].length <= SingleRoom \/ messages[m].length > SingleRoom
  BY <1>1, RoomIsNatural
<1>3. ~(messages[m].length <= SingleRoom)
  BY FrameOfMessage
<1> QED  BY <1>2, <1>3, FrameOfMessage

\* A chunk that comes when the assembler holds the chunks before it.
LEMMA FeedNext ==
  ASSUME ChannelTypes, NEW f, SentFrame(messages, f), f.kind = "chunk", Expected(f), ~TooMany(f)
  PROVE  /\ Feed(Assembler(f), f) = HeldOf(f, f.seq + 1)
         /\ HeldOf(f, f.seq + 1).total = f.total
         /\ HeldOf(f, f.seq + 1).received = f.seq + 1
<1> DEFINE m == f.data.of
           D(i) == ChunkFrame(m, messages[m], i, f.total).data
           C(k) == [i \in 0..(f.total - 1) |-> IF i < k THEN {D(i)} ELSE {}]
<1>1. /\ f.seq \in Nat /\ f.total \in Nat /\ f.seq < f.total /\ f.data = D(f.seq)
  BY LongMessage
<1>2. \A k : HeldOf(f, k) = [total |-> f.total, original_type |-> f.type, chunks |-> C(k),
                              received |-> k]
  BY DEF HeldOf
<1> HIDE DEF D
<1>3. Assembler(f) = HeldOf(f, f.seq)
  <2>1. CASE f.seq = 0
    <3>1. C(f.seq) = [i \in 0..(f.total - 1) |-> {}]
      BY <2>1
    <3>2. assembler = NoAssembler
      BY <2>1 DEF Expected
    <3> HIDE DEF C
    <3> QED  BY <1>2, <2>1, <3>1, <3>2 DEF Assembler
  <2>2. CASE f.seq # 0
    <3>1. assembler = HeldOf(f, f.seq)
      BY <2>2 DEF Expected
    <3>2. "received" \in DOMAIN HeldOf(f, f.seq) /\ "received" \notin DOMAIN NoAssembler
      BY <1>2 DEF NoAssembler
    <3> QED  BY <3>1, <3>2 DEF Assembler
  <2> QED  BY <2>1, <2>2
<1>4. C(f.seq)[f.seq] = {} /\ [C(f.seq) EXCEPT ![f.seq] = {f.data}] = C(f.seq + 1)
  <2>1. C(f.seq)[f.seq] = {}
    BY <1>1
  <2>2. DOMAIN [C(f.seq) EXCEPT ![f.seq] = {f.data}] = 0..(f.total - 1)
    OBVIOUS
  <2>3. ASSUME NEW i \in 0..(f.total - 1)
        PROVE  [C(f.seq) EXCEPT ![f.seq] = {f.data}][i] = C(f.seq + 1)[i]
    <3>1. CASE i = f.seq
      BY <1>1, <3>1
    <3>2. CASE i # f.seq
      <4>1. i < f.seq + 1 <=> i < f.seq
        BY <1>1, <3>2
      <4> QED  BY <3>2, <4>1
    <3> QED  BY <3>1, <3>2
  <2> QED  BY <2>1, <2>2, <2>3
<1> HIDE DEF C
<1>5. Feed(HeldOf(f, f.seq), f) = HeldOf(f, f.seq + 1)
  <2>1. HeldOf(f, f.seq) = [total |-> f.total, original_type |-> f.type,
                             chunks |-> C(f.seq), received |-> f.seq]
    BY <1>2
  <2>2. HeldOf(f, f.seq + 1) = [total |-> f.total, original_type |-> f.type,
                                 chunks |-> C(f.seq + 1), received |-> f.seq + 1]
    BY <1>2
  <2>3. ~(f.seq >= f.total)
    BY <1>1
  <2> DEFINE a == HeldOf(f, f.seq)
  <2>4. a.total = f.total /\ a.chunks = C(f.seq) /\ a.received = f.seq
    BY <2>1
  <2>5. Feed(a, f) = [[a EXCEPT !.chunks = C(f.seq + 1)] EXCEPT !.received = f.seq + 1]
    BY <1>4, <2>3, <2>4 DEF Feed
  <2>6. [a EXCEPT !.chunks = C(f.seq + 1)]
          = [total |-> f.total, original_type |-> f.type,
             chunks |-> C(f.seq + 1), received |-> f.seq]
    BY <2>1
  <2> QED  BY <2>2, <2>5, <2>6
<1> QED  BY <1>2, <1>3, <1>5

\* All chunks of a message make the message.
LEMMA AllChunks ==
  ASSUME ChannelTypes, NEW f, SentFrame(messages, f), f.kind = "chunk"
  PROVE  LET msg == Assembled(HeldOf(f, f.total)) IN
         /\ msg \in Whole /\ msg.pieces[1].of = f.data.of
         /\ IsMessage(msg, f.data.of)
<1> DEFINE m == f.data.of
           l == messages[m].length
           n == f.total
           D(i) == ChunkFrame(m, messages[m], i, n).data
           pieces == [i \in 1..n |-> D(i - 1)]
<1>1. /\ m \in 1..Len(messages) /\ messages[m] \in [type : Type, length : Nat]
      /\ f.type = messages[m].type /\ n = Chunks(l) /\ l > SingleRoom
  BY LongMessage
<1>2. /\ n \in Nat /\ n >= 2 /\ (n - 1) * ChunkRoom < l /\ l <= n * ChunkRoom
      /\ l \in Nat /\ m \in Nat
  BY <1>1, ChunksCover
<1> HIDE DEF n, m, l
<1>3. ASSUME NEW i \in 1..n
      PROVE  /\ D(i - 1).of = m /\ D(i - 1).first = (i - 1) * ChunkRoom + 1
             /\ i < n => D(i - 1).last = i * ChunkRoom
             /\ i = n => D(i - 1).last = l
             /\ D(i - 1) \in Slice
  <2>1. i \in Nat /\ i - 1 \in Nat /\ (i - 1) * ChunkRoom \in Nat /\ i * ChunkRoom \in Nat
    BY <1>2, Multiples
  <2>2. D(i - 1) = [of |-> m, first |-> (i - 1) * ChunkRoom + 1,
                    last |-> IF i * ChunkRoom < l THEN i * ChunkRoom ELSE l]
    <3>1. (i - 1) + 1 = i
      BY <2>1
    <3> QED  BY <3>1 DEF ChunkFrame, Piece, l, m
  <2>3. i < n => i * ChunkRoom < l
    <3>1. i < n => i * ChunkRoom <= (n - 1) * ChunkRoom /\ (n - 1) * ChunkRoom \in Nat
      BY <1>2, <2>1, Multiples
    <3> QED  BY <1>2, <2>1, <3>1
  <2>4. i = n => ~(i * ChunkRoom < l)
    BY <1>2, <2>1
  <2> QED  BY <1>2, <2>1, <2>2, <2>3, <2>4 DEF Slice
<1> HIDE DEF D
<1>4. Assembled(HeldOf(f, n)) = [type |-> messages[m].type, pieces |-> pieces]
  <2>1. /\ HeldOf(f, n).total = n /\ HeldOf(f, n).original_type = f.type
        /\ HeldOf(f, n).chunks = [i \in 0..(n - 1) |-> IF i < n THEN {D(i)} ELSE {}]
    BY DEF HeldOf, D, n, m
  <2>2. ASSUME NEW i \in 1..n
        PROVE  (CHOOSE p \in HeldOf(f, n).chunks[i - 1] : TRUE) = D(i - 1)
    <3>1. i - 1 \in 0..(n - 1) /\ i - 1 < n
      BY <1>2
    <3>2. HeldOf(f, n).chunks[i - 1] = {D(i - 1)}
      BY <2>1, <3>1
    <3> QED  BY <3>2
  <2>3. [i \in 1..n |-> CHOOSE p \in HeldOf(f, n).chunks[i - 1] : TRUE] = pieces
    BY <2>2
  <2> HIDE DEF pieces
  <2> QED  BY <1>1, <2>1, <2>3 DEF Assembled
<1>5. pieces \in Seq(Slice) /\ Len(pieces) = n /\ \A i \in 1..n : pieces[i] = D(i - 1)
  <2>1. \A i \in 1..n : D(i - 1) \in Slice
    BY <1>3
  <2> QED  BY <1>2, <2>1
<1> HIDE DEF pieces
<1> DEFINE msg == [type |-> messages[m].type, pieces |-> pieces]
<1>6. msg \in Whole /\ msg.pieces = pieces /\ msg.type = messages[m].type
  BY <1>1, <1>5 DEF Whole
<1>7. pieces[1].of = m /\ \A i \in 1..n : pieces[i].of = m
  <2>1. \A i \in 1..n : pieces[i].of = m
    BY <1>3, <1>5
  <2> QED  BY <1>2, <2>1
<1>8. pieces[1].first = 1 /\ pieces[n].last = l
  <2>1. pieces[1] = D(1 - 1) /\ pieces[n] = D(n - 1)
    BY <1>2, <1>5
  <2>2. D(1 - 1).first = (1 - 1) * ChunkRoom + 1 /\ D(n - 1).last = l
    BY <1>2, <1>3
  <2>3. (1 - 1) * ChunkRoom + 1 = 1
    BY RoomIsNatural
  <2> QED  BY <2>1, <2>2, <2>3
<1>9. ASSUME NEW i \in 1..(n - 1)  PROVE pieces[i + 1].first = pieces[i].last + 1
  <2>1. i \in 1..n /\ i + 1 \in 1..n /\ (i + 1) - 1 = i /\ i < n
    BY <1>2
  <2>2. pieces[i] = D(i - 1) /\ pieces[i + 1] = D((i + 1) - 1)
    BY <1>5, <2>1
  <2>3. pieces[i + 1].first = ((i + 1) - 1) * ChunkRoom + 1
    BY <1>3, <2>1, <2>2
  <2>4. pieces[i].last = i * ChunkRoom
    BY <1>3, <2>1, <2>2
  <2> QED  BY <2>1, <2>3, <2>4
<1>10. IsMessage(msg, m)
  <2> HIDE DEF msg
  <2> QED  BY <1>5, <1>6, <1>7, <1>8, <1>9 DEF IsMessage, l
<1> QED  BY <1>4, <1>6, <1>7, <1>10 DEF m, n

\* What the frame after f needs of the receiver that has taken f.
Accepted(f) ==
  /\ EndsMessage(f) => assembler' = NoAssembler
  /\ ~EndsMessage(f) => assembler' = IF TooMany(f) THEN NoAssembler ELSE HeldOf(f, f.seq + 1)
  /\ \A k \in Nat : k > f.data.of => DeliveredBefore(k)'
  /\ ~EndsMessage(f) => DeliveredBefore(f.data.of)'

LEMMA FrameTaken ==
  ASSUME ChannelTypes, SentMessages, MessagesAscend, NEW f, SentFrame(messages, f), Expected(f),
         ReceiveWhole(f) \/ ReceiveChunk(f),
         received_all' = received_all, messages' = messages
  PROVE  /\ decoded_tx' \in Seq(Whole) /\ SentMessages' /\ MessagesAscend' /\ Accepted(f)
<1> DEFINE m == f.data.of
<1>1. /\ m \in 1..Len(messages) /\ messages[m] \in [type : Type, length : Nat]
      /\ f.type = messages[m].type /\ f.seq \in Nat /\ f.total \in Nat /\ f.seq < f.total
      /\ f.data \in Slice /\ m \in Nat /\ DeliveredBefore(m)
  BY FrameOfMessage, MessageTyped DEF Expected
<1>2. CASE decoded_tx' = decoded_tx /\ ~EndsMessage(f)
           /\ assembler' = IF TooMany(f) THEN NoAssembler ELSE HeldOf(f, f.seq + 1)
  <2>1. /\ decoded_tx' \in Seq(Whole) /\ SentMessages' /\ MessagesAscend'
        /\ \A k \in Nat : k >= m => DeliveredBefore(k)'
    BY <1>1, <1>2, NothingDelivered
  <2>2. DeliveredBefore(m)'
    <3>1. PICK k \in Nat : k = m
      BY <1>1
    <3>2. DeliveredBefore(k)'
      BY <2>1, <3>1
    <3> QED  BY <3>1, <3>2 DEF DeliveredBefore
  <2> QED  BY <1>1, <1>2, <2>1, <2>2 DEF Accepted
<1>3. CASE decoded_tx' = decoded_tx /\ EndsMessage(f) /\ assembler' = NoAssembler
  <2>1. /\ decoded_tx' \in Seq(Whole) /\ SentMessages' /\ MessagesAscend'
        /\ \A k \in Nat : k >= m => DeliveredBefore(k)'
    BY <1>1, <1>3, NothingDelivered
  <2> QED  BY <1>1, <1>3, <2>1 DEF Accepted
<1>4. ASSUME NEW msg \in Whole, msg.pieces[1].of = m, IsMessage(msg, m), Decoded(msg),
             EndsMessage(f), assembler' = NoAssembler
      PROVE  decoded_tx' \in Seq(Whole) /\ SentMessages' /\ MessagesAscend' /\ Accepted(f)
  <2>1. /\ decoded_tx' \in Seq(Whole) /\ SentMessages' /\ MessagesAscend'
        /\ \A k \in Nat : k > m => DeliveredBefore(k)'
    BY <1>1, <1>4, OneMoreDelivered
  <2> QED  BY <1>4, <2>1 DEF Accepted
<1>5. CASE ReceiveWhole(f)
  <2> DEFINE msg == [type |-> f.type, pieces |-> <<f.data>>]
  <2>1. f.kind = "whole" /\ Decoded(msg) /\ assembler' = assembler
    BY <1>5 DEF ReceiveWhole
  <2>2. messages[m].length <= SingleRoom
    BY <1>1, <2>1, FrameOfMessage, RoomIsNatural
  <2>3. f.seq = 0 /\ f.total = 1 /\ f.data = Piece(m, 1, messages[m].length)
    BY <2>2, FrameOfMessage
  <2>4. assembler' = NoAssembler /\ EndsMessage(f)
    BY <2>1, <2>3 DEF Expected, EndsMessage
  <2>5. msg \in Whole
    BY <1>1 DEF Whole
  <2>6. Len(msg.pieces) = 1 /\ msg.pieces[1] = Piece(m, 1, messages[m].length)
        /\ msg.type = messages[m].type
    BY <1>1, <2>3
  <2> HIDE DEF msg
  <2>7. msg.pieces[1].of = m /\ IsMessage(msg, m)
    BY <2>6 DEF IsMessage, Piece
  <2> QED  BY <1>4, <2>1, <2>4, <2>5, <2>7
<1>6. CASE ReceiveChunk(f)
  <2>1. f.kind = "chunk"
    BY <1>6 DEF ReceiveChunk
  <2>2. CASE TooMany(f)
    <3>1. assembler' = assembler /\ decoded_tx' = decoded_tx
      BY <1>6, <2>2 DEF ReceiveChunk
    <3>2. assembler' = NoAssembler
      BY <2>2, <3>1 DEF Expected
    <3> QED  BY <1>2, <1>3, <2>2, <3>1, <3>2
  <2>3. CASE ~TooMany(f)
    <3> DEFINE a == Feed(Assembler(f), f)
    <3>1. a = HeldOf(f, f.seq + 1) /\ a.total = f.total /\ a.received = f.seq + 1
      BY <2>1, <2>3, FeedNext
    <3>2. IF f.seq < a.total /\ a.received = a.total
          THEN assembler' = AssemblerAfter(a) /\ Decoded(Assembled(a))
          ELSE assembler' = a /\ UNCHANGED <<decoded_tx, overflowed>>
      BY <1>6, <2>3 DEF ReceiveChunk
    <3> HIDE DEF a
    <3>3. (f.seq < a.total /\ a.received = a.total) <=> EndsMessage(f)
      BY <1>1, <3>1 DEF EndsMessage
    <3>4. CASE EndsMessage(f)
      <4>1. a = HeldOf(f, f.total)
        BY <3>1, <3>4 DEF EndsMessage
      <4>2. assembler' = NoAssembler /\ Decoded(Assembled(a))
        BY <3>2, <3>3, <3>4 DEF AssemblerAfter
      <4>3. /\ Assembled(a) \in Whole /\ Assembled(a).pieces[1].of = m
            /\ IsMessage(Assembled(a), m)
        BY <2>1, <4>1, AllChunks
      <4> QED  BY <1>4, <3>4, <4>2, <4>3
    <3>5. CASE ~EndsMessage(f)
      <4>1. assembler' = HeldOf(f, f.seq + 1) /\ decoded_tx' = decoded_tx
        BY <3>1, <3>2, <3>3, <3>5
      <4> QED  BY <1>2, <2>3, <3>5, <4>1
    <3> QED  BY <3>4, <3>5
  <2> QED  BY <2>2, <2>3
<1> QED  BY <1>5, <1>6

\* Whatever frame follows f, the receiver is then ready for it.
LEMMA ReadyForNext ==
  ASSUME ChannelTypes, NEW f, SentFrame(messages, f), Accepted(f),
         NEW g, SentFrame(messages, g), Follows(f, g), messages' = messages
  PROVE  Expected(g)'
<1>1. /\ f.data.of \in Nat /\ g.data.of \in Nat /\ f.seq \in Nat /\ f.total \in Nat
      /\ g.seq \in Nat /\ g.seq < g.total /\ f.seq < f.total /\ g.total \in Nat
  BY FrameOfMessage, MessageTyped
<1>2. CASE g.data.of > f.data.of /\ g.seq = 0 /\ EndsMessage(f)
  BY <1>1, <1>2 DEF Accepted, Expected
<1>3. CASE g.data.of = f.data.of /\ g.seq = f.seq + 1
  <2>1. g.total = f.total /\ g.type = f.type
    BY <1>3, FrameOfMessage, RoomIsNatural
  <2>2. ~EndsMessage(f) /\ g.seq # 0
    BY <1>1, <1>3, <2>1 DEF EndsMessage
  <2>3. HeldOf(f, f.seq + 1)' = HeldOf(f, f.seq + 1)
    BY DEF HeldOf
  <2>4. HeldOf(g, g.seq)' = HeldOf(f, f.seq + 1)
    BY <1>3, <2>1 DEF HeldOf
  <2>5. TooMany(f) <=> TooMany(g)
    BY <2>1 DEF TooMany
  <2>6. assembler' = IF TooMany(g) THEN NoAssembler ELSE HeldOf(g, g.seq)'
    BY <2>2, <2>4, <2>5 DEF Accepted
  <2>7. DeliveredBefore(g.data.of)'
    BY <1>3, <2>2 DEF Accepted, DeliveredBefore
  <2> QED  BY <2>2, <2>6, <2>7 DEF Expected
<1> QED  BY <1>2, <1>3 DEF Follows

-----------------------------------------------------------------------------
(* Queues of frames *)

LEMMA RestInTurn ==
  ASSUME NEW ms, NEW s \in Seq(ChannelFrame), s # <<>>, InTurn(ms, s)
  PROVE  /\ Tail(s) \in Seq(ChannelFrame) /\ InTurn(ms, Tail(s)) /\ s[1] = Head(s)
         /\ SentFrame(ms, s[1]) /\ s[1] \in ChannelFrame
         /\ Tail(s) # <<>> =>
              /\ Follows(s[1], Tail(s)[1]) /\ SentFrame(ms, Tail(s)[1])
              /\ Tail(s)[Len(Tail(s))] = s[Len(s)]
         /\ Tail(s) = <<>> => s[Len(s)] = s[1]
<1>1. /\ Len(s) \in Nat /\ Len(s) >= 1 /\ Tail(s) \in Seq(ChannelFrame) /\ s[1] = Head(s)
      /\ Len(Tail(s)) = Len(s) - 1 /\ \A i \in 1..Len(Tail(s)) : Tail(s)[i] = s[i + 1]
  OBVIOUS
<1>2. SentFrame(ms, s[1]) /\ s[1] \in ChannelFrame
  BY <1>1 DEF InTurn
<1>3. InTurn(ms, Tail(s))
  <2>1. ASSUME NEW i \in 1..Len(Tail(s))  PROVE SentFrame(ms, Tail(s)[i])
    BY <1>1 DEF InTurn
  <2>2. ASSUME NEW i \in 1..(Len(Tail(s)) - 1)  PROVE Follows(Tail(s)[i], Tail(s)[i + 1])
    <3>1. i + 1 \in 1..(Len(s) - 1) /\ i \in 1..Len(Tail(s)) /\ i + 1 \in 1..Len(Tail(s))
      BY <1>1
    <3>2. Follows(s[i + 1], s[(i + 1) + 1])
      BY <3>1 DEF InTurn
    <3> QED  BY <1>1, <3>1, <3>2
  <2> QED  BY <2>1, <2>2 DEF InTurn
<1>4. ASSUME Tail(s) # <<>>
      PROVE  /\ Follows(s[1], Tail(s)[1]) /\ SentFrame(ms, Tail(s)[1])
             /\ Tail(s)[Len(Tail(s))] = s[Len(s)]
  <2>1. Len(Tail(s)) >= 1 /\ Len(s) >= 2
    BY <1>1, <1>4
  <2>2. Tail(s)[1] = s[2] /\ Tail(s)[Len(Tail(s))] = s[Len(s)]
    BY <1>1, <2>1
  <2>3. Follows(s[1], s[1 + 1])
    BY <1>1, <2>1 DEF InTurn
  <2> QED  BY <1>1, <1>3, <2>1, <2>2, <2>3 DEF InTurn
<1>5. Tail(s) = <<>> => Len(s) = 1
  <2>1. \A r : r = <<>> => Len(r) = 0
    OBVIOUS
  <2> HIDE <1>1
  <2>2. Tail(s) = <<>> => Len(Tail(s)) = 0
    BY <2>1, Zenon
  <2> QED  BY <1>1, <2>2
<1> QED  BY <1>1, <1>2, <1>3, <1>4, <1>5

LEMMA OneMoreInTurn ==
  ASSUME NEW ms, NEW s \in Seq(ChannelFrame), InTurn(ms, s),
         NEW f \in ChannelFrame, SentFrame(ms, f),
         s # <<>> => Follows(s[Len(s)], f)
  PROVE  LET t == Append(s, f) IN
         /\ t \in Seq(ChannelFrame) /\ t # <<>> /\ InTurn(ms, t) /\ t[Len(t)] = f
         /\ t[1] = IF s = <<>> THEN f ELSE s[1]
<1> DEFINE t == Append(s, f)
<1>1. /\ t \in Seq(ChannelFrame) /\ t # <<>> /\ Len(t) = Len(s) + 1 /\ Len(s) \in Nat
      /\ t[Len(s) + 1] = f /\ \A i \in 1..Len(s) : t[i] = s[i]
  BY AppendProperties
<1> HIDE DEF t
<1>2. ASSUME NEW i \in 1..Len(t)  PROVE SentFrame(ms, t[i])
  BY <1>1 DEF InTurn
<1>3. ASSUME NEW i \in 1..(Len(t) - 1)  PROVE Follows(t[i], t[i + 1])
  <2>1. CASE i < Len(s)
    <3>1. i \in 1..(Len(s) - 1) /\ i + 1 \in 1..Len(s)
      BY <1>1, <2>1
    <3> QED  BY <1>1, <3>1 DEF InTurn
  <2>2. CASE i = Len(s)
    BY <1>1, <2>2
  <2> QED  BY <1>1, <2>1, <2>2
<1>4. t[1] = IF s = <<>> THEN f ELSE s[1]
  <2>1. s # <<>> => 1 \in 1..Len(s)
    BY <1>1
  <2>2. s = <<>> => Len(s) = 0
    OBVIOUS
  <2> QED  BY <1>1, <2>1, <2>2
<1> QED  BY <1>1, <1>2, <1>3, <1>4 DEF InTurn, t

\* The frames of earlier messages are not touched by a further message.
LEMMA StillInTurn ==
  ASSUME NEW S, NEW ms \in Seq(S), NEW msg \in S, NEW s, InTurn(ms, s)
  PROVE  InTurn(Append(ms, msg), s)
<1>1. ASSUME NEW f, SentFrame(ms, f)  PROVE SentFrame(Append(ms, msg), f)
  <2>1. f.data.of \in 1..Len(Append(ms, msg)) /\ Append(ms, msg)[f.data.of] = ms[f.data.of]
    BY <1>1 DEF SentFrame
  <2> QED  BY <1>1, <2>1 DEF SentFrame
<1> QED  BY <1>1 DEF InTurn

-----------------------------------------------------------------------------
(* The steps *)

LEMMA ChannelStart == ChannelInit => ChannelIInv
<1>1. ChannelInit => ChannelTypes
  BY DEF ChannelInit, ChannelTypes
<1>2. ChannelInit => FramesInTurn
  BY DEF ChannelInit, FramesInTurn, InTurn
<1>3. ChannelInit => QueueGoesOn /\ ReceiverReady
  BY DEF ChannelInit, QueueGoesOn, ReceiverReady
<1>4. ChannelInit => Delivered = <<>>
  BY DEF ChannelInit, Delivered
<1>5. ChannelInit => SentMessages /\ MessagesAscend
  BY <1>4 DEF SentMessages, MessagesAscend
<1> QED  BY <1>1, <1>2, <1>3, <1>5 DEF ChannelIInv

\* One task begins its send: the others have none under way.
LEMMA StartKeeps ==
  ASSUME ChannelIInv, OneSending', NEW t \in SendingTask, SendStarts(t)
  PROVE  ChannelIInv'
<1> DEFINE m == Len(messages) + 1
<1>1. PICK type \in Type, length \in 0..MaxPayload :
        LET msg == [type |-> type, length |-> length] IN
        /\ messages' = Append(messages, msg)
        /\ sending' = [sending EXCEPT ![t] = Encode(Len(messages) + 1, msg)]
  BY DEF SendStarts
<1>2. PICK msg : msg = [type |-> type, length |-> length]
  OBVIOUS
<1>3. PICK s : s = Encode(m, msg)
  OBVIOUS
<1>4. /\ msg \in [type : Type, length : Nat]
      /\ messages \in Seq([type : Type, length : Nat])
      /\ messages' = Append(messages, msg) /\ Len(messages) \in Nat
      /\ sending \in [SendingTask -> Seq(ChannelFrame)] /\ send_queue \in Seq(ChannelFrame)
  BY <1>1, <1>2, DataChannelAssumption DEF ChannelIInv, ChannelTypes
<1>5. /\ alive /\ sending[t] = <<>> /\ sending' = [sending EXCEPT ![t] = s]
      /\ send_queue' = send_queue /\ alive' = alive /\ assembler' = assembler
      /\ decoded_tx' = decoded_tx /\ received_all' = received_all
  BY <1>1, <1>2, <1>3 DEF SendStarts
<1>6. /\ messages' \in Seq([type : Type, length : Nat]) /\ Len(messages') = m
      /\ messages'[m] = msg /\ \A i \in 1..Len(messages) : messages'[i] = messages[i]
      /\ m \in 1..Len(messages')
  <2> DEFINE S == [type : Type, length : Nat]
  <2>1. msg \in S /\ messages \in Seq(S) /\ messages' = Append(messages, msg)
    BY <1>4
  <2> HIDE DEF S
  <2>2. /\ messages' \in Seq(S) /\ Len(messages') = m
        /\ messages'[m] = msg /\ \A i \in 1..Len(messages) : messages'[i] = messages[i]
        /\ m \in 1..Len(messages')
    BY <2>1
  <2> QED  BY <2>2 DEF S
<1>7. /\ s \in Seq(ChannelFrame) /\ s # <<>> /\ InTurn(messages', s) /\ EndsMessage(s[Len(s)])
      /\ s[1].seq = 0 /\ s[1].data.of = m
  BY EncodedInTurn, <1>3, <1>6
<1>8. sending' \in [SendingTask -> Seq(ChannelFrame)] /\ sending'[t] = s
      /\ \A u \in SendingTask : u # t => sending'[u] = <<>>
  BY <1>4, <1>5, <1>7 DEF OneSending
<1>9. \A u \in SendingTask : sending[u] = <<>>
  BY <1>4, <1>5, <1>8
<1>10. Delivered' = Delivered
  BY <1>5 DEF Delivered
<1>11. ChannelTypes'
  BY <1>5, <1>6, <1>8 DEF ChannelIInv, ChannelTypes
<1>12. FramesInTurn'
  <2>1. InTurn(messages', send_queue')
    BY <1>4, <1>5, StillInTurn DEF ChannelIInv, FramesInTurn
  <2>2. ASSUME NEW u \in SendingTask
        PROVE  /\ InTurn(messages', sending'[u])
               /\ sending'[u] # <<>> => EndsMessage(sending'[u][Len(sending'[u])])
    <3>1. InTurn(messages', <<>>)
      BY DEF InTurn
    <3> QED  BY <1>7, <1>8, <3>1
  <2> QED  BY <2>1, <2>2 DEF FramesInTurn
<1>13. \A f : SentFrame(messages, f) => f.data.of < m
  BY <1>4 DEF SentFrame
<1>14. QueueGoesOn'
  <2>1. ASSUME send_queue # <<>>  PROVE Follows(send_queue[Len(send_queue)], s[1])
    <3>1. EndsMessage(send_queue[Len(send_queue)])
      BY <1>9, <2>1 DEF ChannelIInv, QueueGoesOn
    <3>2. SentFrame(messages, send_queue[Len(send_queue)])
      BY <1>4, <2>1 DEF ChannelIInv, FramesInTurn, InTurn
    <3> QED  BY <1>7, <1>13, <3>1, <3>2 DEF Follows
  <2> QED  BY <1>5, <1>7, <1>8, <2>1 DEF QueueGoesOn
<1>15. DeliveredBefore(m)
  BY <1>4 DEF ChannelIInv, SentMessages, DeliveredBefore
<1>16. ASSUME NEW f, SentFrame(messages, f), Expected(f)  PROVE Expected(f)'
  <2>1. HeldOf(f, f.seq)' = HeldOf(f, f.seq)
    BY <1>6, <1>16 DEF HeldOf, SentFrame
  <2> QED  BY <1>5, <1>10, <1>16, <2>1 DEF Expected, DeliveredBefore
<1>17. ReceiverReady'
  <2>1. CASE send_queue # <<>>
    <3>1. PICK f : f = send_queue[1]
      OBVIOUS
    <3>2. SentFrame(messages, f) /\ Expected(f)
      BY <1>4, <1>5, <2>1, <3>1 DEF ChannelIInv, FramesInTurn, InTurn, ReceiverReady
    <3>3. Expected(f)'
      BY <1>16, <3>2
    <3> QED  BY <1>5, <2>1, <3>1, <3>3 DEF ReceiverReady, Expected, HeldOf, DeliveredBefore
  <2>2. CASE send_queue = <<>>
    <3>1. assembler = NoAssembler
      BY <1>5, <1>9, <2>2 DEF ChannelIInv, ReceiverReady
    <3>2. PICK g : g = s[1]
      OBVIOUS
    <3>3. assembler' = NoAssembler /\ DeliveredBefore(m) /\ Delivered' = Delivered
      BY <1>5, <1>10, <1>15, <3>1
    <3>4. Expected(g)'
      BY <1>7, <3>2, <3>3 DEF Expected, DeliveredBefore
    <3>5. \A u \in SendingTask : sending'[u] # <<>> => sending'[u][1] = g
      BY <1>8, <3>2
    <3>6. send_queue' = <<>> /\ sending'[t] # <<>>
      BY <1>5, <1>7, <1>8, <2>2
    <3> QED  BY <3>4, <3>5, <3>6 DEF ReceiverReady, Expected, HeldOf, DeliveredBefore
  <2> QED  BY <2>1, <2>2
<1>18. SentMessages'
  <2>1. ASSUME NEW i \in DOMAIN Delivered
        PROVE  /\ Delivered[i].pieces[1].of \in 1..Len(messages')
               /\ IsMessage(Delivered[i], Delivered[i].pieces[1].of)'
    <3>1. PICK d : d = Delivered[i]
      OBVIOUS
    <3>2. PICK k : k = d.pieces[1].of
      OBVIOUS
    <3>3. k \in 1..Len(messages) /\ IsMessage(d, k)
      BY <3>1, <3>2 DEF ChannelIInv, SentMessages
    <3>4. k \in 1..Len(messages') /\ messages'[k] = messages[k]
      BY <1>4, <1>6, <3>3
    <3> QED  BY <1>10, <3>1, <3>2, <3>3, <3>4 DEF IsMessage
  <2> QED  BY <1>10, <2>1 DEF SentMessages, IsMessage
<1>19. MessagesAscend'
  BY <1>10 DEF ChannelIInv, MessagesAscend
<1> QED  BY <1>11, <1>12, <1>14, <1>17, <1>18, <1>19 DEF ChannelIInv

\* The sending task queues its next frame.
LEMMA SendFrameKeeps ==
  ASSUME ChannelIInv, OneSending, NEW t \in SendingTask, SendFrame(t)
  PROVE  ChannelIInv'
<1>1. PICK s : s = sending[t]
  OBVIOUS
<1>2. PICK q : q = send_queue
  OBVIOUS
<1>3. PICK f : f = s[1]
  OBVIOUS
<1>4. /\ s \in Seq(ChannelFrame) /\ q \in Seq(ChannelFrame) /\ s # <<>>
      /\ sending \in [SendingTask -> Seq(ChannelFrame)]
      /\ InTurn(messages, s) /\ InTurn(messages, q)
  BY <1>1, <1>2 DEF ChannelIInv, ChannelTypes, FramesInTurn, SendFrame
<1>5. /\ Tail(s) \in Seq(ChannelFrame) /\ InTurn(messages, Tail(s)) /\ f = Head(s)
      /\ SentFrame(messages, f) /\ f \in ChannelFrame
      /\ Tail(s) # <<>> => Follows(f, Tail(s)[1]) /\ Tail(s)[Len(Tail(s))] = s[Len(s)]
      /\ Tail(s) = <<>> => s[Len(s)] = f
  BY <1>3, <1>4, RestInTurn
<1>6. /\ send_queue' = Append(q, f) /\ sending' = [sending EXCEPT ![t] = Tail(s)]
      /\ alive /\ messages' = messages /\ alive' = alive /\ assembler' = assembler
      /\ decoded_tx' = decoded_tx /\ received_all' = received_all
  BY <1>1, <1>2, <1>5 DEF SendFrame
<1>7. \A u \in SendingTask : u # t => sending[u] = <<>>
  BY <1>1, <1>4 DEF OneSending
<1>8. q # <<>> => Follows(q[Len(q)], f)
  BY <1>1, <1>2, <1>3, <1>4 DEF ChannelIInv, QueueGoesOn
<1>9. PICK r : r = Append(q, f)
  OBVIOUS
<1>10. /\ r \in Seq(ChannelFrame) /\ r # <<>> /\ InTurn(messages, r) /\ r[Len(r)] = f
       /\ r[1] = IF q = <<>> THEN f ELSE q[1]
  BY <1>4, <1>5, <1>8, <1>9, OneMoreInTurn
<1>11. sending' \in [SendingTask -> Seq(ChannelFrame)] /\ sending'[t] = Tail(s)
       /\ \A u \in SendingTask : u # t => sending'[u] = <<>>
  BY <1>4, <1>5, <1>6, <1>7
<1>12. s[Len(s)] = sending[t][Len(sending[t])] /\ EndsMessage(s[Len(s)])
  BY <1>1, <1>4 DEF ChannelIInv, FramesInTurn
<1>13. ChannelTypes'
  BY <1>6, <1>9, <1>10, <1>11 DEF ChannelIInv, ChannelTypes
<1>14. FramesInTurn'
  <2>1. InTurn(messages, <<>>)
    BY DEF InTurn
  <2>2. ASSUME NEW u \in SendingTask
        PROVE  /\ InTurn(messages', sending'[u])
               /\ sending'[u] # <<>> => EndsMessage(sending'[u][Len(sending'[u])])
    BY <1>5, <1>6, <1>11, <1>12, <2>1
  <2>3. InTurn(messages', send_queue')
    BY <1>6, <1>9, <1>10
  <2> QED  BY <2>2, <2>3 DEF FramesInTurn
<1>15. QueueGoesOn'
  <2>1. send_queue' = r /\ r[Len(r)] = f
    BY <1>6, <1>9, <1>10
  <2>2. \A u \in SendingTask : sending'[u] # <<>> => Follows(f, sending'[u][1])
    BY <1>5, <1>11
  <2>3. (\A u \in SendingTask : sending'[u] = <<>>) => EndsMessage(f)
    BY <1>5, <1>11, <1>12
  <2> QED  BY <2>1, <2>2, <2>3 DEF QueueGoesOn
<1>16. PICK g : g = r[1]
  OBVIOUS
<1>17. Expected(g)
  <2>1. CASE q = <<>>
    BY <1>1, <1>2, <1>3, <1>4, <1>6, <1>10, <1>16, <2>1 DEF ChannelIInv, ReceiverReady
  <2>2. CASE q # <<>>
    BY <1>2, <1>6, <1>10, <1>16, <2>2 DEF ChannelIInv, ReceiverReady
  <2> QED  BY <2>1, <2>2
<1>18. Delivered' = Delivered
  BY <1>6 DEF Delivered
<1>19. ReceiverReady'
  <2>1. Expected(g)'
    BY <1>6, <1>17, <1>18 DEF Expected, HeldOf, DeliveredBefore
  <2>2. send_queue' # <<>> /\ send_queue'[1] = g
    BY <1>6, <1>9, <1>10, <1>16
  <2> QED  BY <2>1, <2>2 DEF ReceiverReady, Expected, HeldOf, DeliveredBefore
<1>20. SentMessages' /\ MessagesAscend'
  BY <1>6, <1>18 DEF ChannelIInv, SentMessages, MessagesAscend, IsMessage
<1> QED  BY <1>13, <1>14, <1>15, <1>19, <1>20 DEF ChannelIInv

\* The receiver takes the frame that was queued first.
LEMMA OnMessageKeeps ==
  ASSUME ChannelIInv, OnMessage
  PROVE  ChannelIInv'
<1>1. PICK q : q = send_queue
  OBVIOUS
<1>2. PICK f : f = q[1]
  OBVIOUS
<1>3. q \in Seq(ChannelFrame) /\ q # <<>> /\ InTurn(messages, q) /\ ChannelTypes
  BY <1>1 DEF ChannelIInv, ChannelTypes, FramesInTurn, OnMessage
<1>4. /\ Tail(q) \in Seq(ChannelFrame) /\ InTurn(messages, Tail(q)) /\ f = Head(q)
      /\ SentFrame(messages, f)
      /\ Tail(q) # <<>> => /\ Follows(f, Tail(q)[1]) /\ SentFrame(messages, Tail(q)[1])
                           /\ Tail(q)[Len(Tail(q))] = q[Len(q)]
      /\ Tail(q) = <<>> => q[Len(q)] = f
  BY <1>2, <1>3, RestInTurn
<1>5. /\ send_queue' = Tail(q) /\ (ReceiveWhole(f) \/ ReceiveChunk(f))
      /\ alive /\ messages' = messages /\ sending' = sending /\ alive' = alive
      /\ received_all' = received_all
  BY <1>1, <1>4 DEF OnMessage
<1>6. Expected(f)
  BY <1>1, <1>2, <1>3, <1>5 DEF ChannelIInv, ReceiverReady
<1>7. /\ decoded_tx' \in Seq(Whole) /\ SentMessages' /\ MessagesAscend' /\ Accepted(f)
  BY <1>3, <1>4, <1>5, <1>6, FrameTaken DEF ChannelIInv
<1>8. ChannelTypes'
  BY <1>3, <1>4, <1>5, <1>7 DEF ChannelTypes
<1>9. FramesInTurn'
  BY <1>4, <1>5 DEF ChannelIInv, FramesInTurn
<1>10. QueueGoesOn
  BY DEF ChannelIInv
<1>11. QueueGoesOn'
  <2>1. Tail(q) # <<>> => Tail(q)[Len(Tail(q))] = q[Len(q)]
    BY <1>4
  <2> QED  BY <1>1, <1>3, <1>5, <1>10, <2>1 DEF QueueGoesOn
<1>12. ReceiverReady'
  <2>1. CASE Tail(q) # <<>>
    <3>1. PICK g : g = Tail(q)[1]
      OBVIOUS
    <3>2. Expected(g)'
      BY <1>3, <1>4, <1>5, <1>7, <2>1, <3>1, ReadyForNext
    <3> QED  BY <1>5, <2>1, <3>1, <3>2 DEF ReceiverReady, Expected, HeldOf, DeliveredBefore
  <2>2. CASE Tail(q) = <<>>
    <3>1. ASSUME NEW u \in SendingTask, sending[u] # <<>>,
                 NEW g, g = sending[u][1]
          PROVE  Expected(g)'
      <4>1. Follows(f, g)
        BY <1>1, <1>3, <1>4, <1>10, <2>2, <3>1 DEF QueueGoesOn
      <4>2. SentFrame(messages, g)
        <5>1. sending[u] \in Seq(ChannelFrame) /\ InTurn(messages, sending[u])
          BY <1>3 DEF ChannelIInv, ChannelTypes, FramesInTurn
        <5> QED  BY <3>1, <5>1, RestInTurn
      <4> QED  BY <1>3, <1>4, <1>5, <1>7, <4>1, <4>2, ReadyForNext
    <3>2. (\A u \in SendingTask : sending[u] = <<>>) => assembler' = NoAssembler
      BY <1>1, <1>3, <1>4, <1>7, <1>10, <2>2 DEF QueueGoesOn, Accepted
    <3>3. ASSUME NEW u \in SendingTask, sending'[u] # <<>>
          PROVE  Expected(sending[u][1])'
      <4>1. PICK g : g = sending[u][1]
        OBVIOUS
      <4>2. Expected(g)'
        BY <1>5, <3>1, <3>3, <4>1
      <4> QED  BY <1>5, <4>1, <4>2 DEF Expected, HeldOf, DeliveredBefore
    <3> QED  BY <1>5, <2>2, <3>2, <3>3 DEF ReceiverReady, Expected, HeldOf, DeliveredBefore
  <2> QED  BY <2>1, <2>2
<1> QED  BY <1>7, <1>8, <1>9, <1>11, <1>12 DEF ChannelIInv

LEMMA RecvKeeps ==
  ASSUME ChannelIInv, Recv
  PROVE  ChannelIInv'
<1>1. decoded_tx \in Seq(Whole) /\ received_all \in Seq(Whole) /\ decoded_tx # <<>>
  BY DEF ChannelIInv, ChannelTypes, Recv
<1>2. /\ received_all' = Append(received_all, Head(decoded_tx))
      /\ decoded_tx' = Tail(decoded_tx)
      /\ messages' = messages /\ sending' = sending /\ send_queue' = send_queue
      /\ alive' = alive /\ assembler' = assembler
  BY DEF Recv
<1>3. /\ Head(decoded_tx) \in Whole /\ Tail(decoded_tx) \in Seq(Whole)
      /\ <<Head(decoded_tx)>> \in Seq(Whole)
      /\ decoded_tx = <<Head(decoded_tx)>> \o Tail(decoded_tx)
  BY <1>1
<1>4. received_all' \in Seq(Whole) /\ decoded_tx' \in Seq(Whole)
  BY <1>1, <1>2, <1>3
<1>5. Append(received_all, Head(decoded_tx)) = received_all \o <<Head(decoded_tx)>>
  BY <1>1, <1>3, AppendIsConcat
<1>6. (received_all \o <<Head(decoded_tx)>>) \o Tail(decoded_tx) = received_all \o decoded_tx
  BY <1>1, <1>3, ConcatAssociative
<1>7. Delivered' = Delivered
  BY <1>2, <1>5, <1>6 DEF Delivered
<1>8. ChannelTypes' /\ FramesInTurn' /\ QueueGoesOn'
  BY <1>2, <1>4 DEF ChannelIInv, ChannelTypes, FramesInTurn, QueueGoesOn
<1>9. ReceiverReady'
  BY <1>2, <1>7 DEF ChannelIInv, ReceiverReady, Expected, HeldOf, DeliveredBefore
<1>10. SentMessages' /\ MessagesAscend'
  BY <1>2, <1>7 DEF ChannelIInv, SentMessages, MessagesAscend, IsMessage
<1> QED  BY <1>8, <1>9, <1>10 DEF ChannelIInv

LEMMA FailKeeps ==
  ASSUME ChannelIInv, ChannelFails
  PROVE  ChannelIInv'
<1>1. /\ ~alive' /\ send_queue' = <<>> /\ sending' = [t \in SendingTask |-> <<>>]
      /\ messages' = messages /\ assembler' = assembler /\ decoded_tx' = decoded_tx
      /\ received_all' = received_all
  BY DEF ChannelFails
<1>2. InTurn(messages, <<>>)
  BY DEF InTurn
<1>3. Delivered' = Delivered
  BY <1>1 DEF Delivered
<1>4. ChannelTypes' /\ QueueGoesOn' /\ ReceiverReady'
  BY <1>1 DEF ChannelIInv, ChannelTypes, QueueGoesOn, ReceiverReady
<1>5. FramesInTurn'
  BY <1>1, <1>2 DEF FramesInTurn
<1>6. SentMessages' /\ MessagesAscend'
  BY <1>1, <1>3 DEF ChannelIInv, SentMessages, MessagesAscend, IsMessage
<1> QED  BY <1>4, <1>5, <1>6 DEF ChannelIInv

LEMMA ChannelSteps ==
  ASSUME ChannelIInv, OneSending, OneSending', [ChannelNext]_dataChannelVars
  PROVE  ChannelIInv'
<1>1. CASE UNCHANGED dataChannelVars
  <2>1. Delivered' = Delivered
    BY <1>1 DEF dataChannelVars, Delivered
  <2>2. ChannelTypes' /\ FramesInTurn' /\ QueueGoesOn'
    BY <1>1 DEF dataChannelVars, ChannelIInv, ChannelTypes, FramesInTurn, QueueGoesOn
  <2>3. ReceiverReady'
    BY <1>1, <2>1 DEF dataChannelVars, ChannelIInv, ReceiverReady, Expected, HeldOf,
                      DeliveredBefore
  <2>4. SentMessages' /\ MessagesAscend'
    BY <1>1, <2>1 DEF dataChannelVars, ChannelIInv, SentMessages, MessagesAscend, IsMessage
  <2> QED  BY <2>2, <2>3, <2>4 DEF ChannelIInv
<1>2. ASSUME NEW t \in SendingTask, SendStarts(t)  PROVE ChannelIInv'
  BY <1>2, StartKeeps
<1>3. ASSUME NEW t \in SendingTask, SendFrame(t)  PROVE ChannelIInv'
  BY <1>3, SendFrameKeeps
<1> QED  BY <1>1, <1>2, <1>3, OnMessageKeeps, RecvKeeps, FailKeeps DEF ChannelNext

\* README of b3-webrtc ("splits large messages ..., reassembles on receive"):
\* as long as no two tasks send at the same time, what the receiver gets are
\* messages that were sent, whole and one by one in the order they were sent,
\* also when a queue drops some of them or the channel fails in the middle.
THEOREM MessagesArriveWhole == ChannelSpec /\ []OneSending => []WholeMessages
<1>1. ChannelIInv => WholeMessages
  BY DEF ChannelIInv, SentMessages, MessagesAscend, WholeMessages
<1>2. ChannelIInv /\ OneSending /\ OneSending' /\ [ChannelNext]_dataChannelVars => ChannelIInv'
  BY ChannelSteps
<1>3. ChannelSpec /\ []OneSending => []ChannelIInv
  BY ChannelStart, <1>2, PTL DEF ChannelSpec
<1> QED  BY <1>1, <1>3, PTL

(* The types of a data channel, however many tasks send at the same time *)

Cut == [of : 1..MaxMessages, first : Nat, last : Nat]

\* A frame of some message: a chunk is one of at least two.
SomeFrame ==
  {f \in [kind : {"whole", "chunk"}, type : Type, seq : Nat, total : Nat, data : Cut] :
     f.kind = "chunk" => f.seq < f.total /\ f.total >= 2}

Places(n) == [0..(n - 1) -> {{}} \cup {{p} : p \in Cut}]
TakenOf(n, c) == {i \in 0..(n - 1) : c[i] # {}}

\* An assembler counts the places that are taken, so that a complete one has
\* every chunk; chunks of several messages may have got into it.
Assembling(a) ==
  \E n \in 2..MaxChunks, type \in Type : \E c \in Places(n) :
    a = [total |-> n, original_type |-> type, chunks |-> c,
         received |-> Cardinality(TakenOf(n, c))]

ChannelTyped ==
  /\ messages \in Seq([type : Type, length : 0..MaxPayload]) /\ Len(messages) <= MaxMessages
  /\ sending \in [SendingTask -> Seq(SomeFrame)]
  /\ \A t \in SendingTask : Len(sending[t]) <= Chunks(MaxPayload) + 1
  /\ send_queue \in Seq(SomeFrame) /\ Len(send_queue) <= QueueSlots
  /\ alive \in BOOLEAN
  /\ \/ assembler = NoAssembler
     \/ Assembling(assembler) /\ assembler.received \in 1..(assembler.total - 1)
  /\ decoded_tx \in Seq(DecodedMessage) /\ Len(decoded_tx) <= DecodedSlots
  /\ received_all \in Seq(DecodedMessage) /\ overflowed \subseteq 1..MaxMessages

LEMMA CountsOfChannel ==
  /\ SingleRoom \in Nat /\ ChunkRoom \in Nat /\ MaxChunks \in Nat /\ QueueSlots \in Nat
  /\ DecodedSlots \in Nat /\ MaxPayload \in Nat /\ MaxMessages \in Nat
  /\ 0 < QueueSlots /\ 0 < DecodedSlots /\ 0 < ChunkRoom
BY DataChannelAssumption

\* A longer message has no fewer chunks.
LEMMA MoreChunks ==
  ASSUME NEW l \in 0..MaxPayload
  PROVE  Chunks(l) \in Nat /\ Chunks(MaxPayload) \in Nat /\ Chunks(l) <= Chunks(MaxPayload)
<1> DEFINE x == l + ChunkRoom - 1
           y == MaxPayload + ChunkRoom - 1
           n == x \div ChunkRoom
           k == y \div ChunkRoom
<1>1. x \in Nat /\ y \in Nat /\ x <= y /\ ChunkRoom \in Nat /\ ChunkRoom > 0
  BY CountsOfChannel
<1> HIDE DEF x, y
<1>2. n \in Nat /\ n * ChunkRoom <= x
  BY <1>1
<1>3. k \in Nat /\ y < k * ChunkRoom + ChunkRoom
  BY <1>1
<1> HIDE DEF n, k
<1>4. ASSUME k + 1 <= n  PROVE FALSE
  <2>1. (k + 1) * ChunkRoom \in Nat /\ (k + 1) * ChunkRoom <= n * ChunkRoom
    BY <1>2, <1>3, <1>4, Multiples
  <2>2. (k + 1) * ChunkRoom = k * ChunkRoom + ChunkRoom /\ n * ChunkRoom \in Nat
    BY <1>1, <1>2, <1>3
  <2> QED  BY <1>1, <1>2, <1>3, <2>1, <2>2
<1>5. n <= k
  BY <1>2, <1>3, <1>4
<1> QED  BY <1>2, <1>3, <1>5 DEF Chunks, x, y, n, k

LEMMA EncodedTyped ==
  ASSUME NEW m \in 1..MaxMessages, NEW msg \in [type : Type, length : 0..MaxPayload]
  PROVE  /\ Encode(m, msg) \in Seq(SomeFrame)
         /\ Len(Encode(m, msg)) <= Chunks(MaxPayload) + 1
<1> DEFINE l == msg.length
<1>1. l \in 0..MaxPayload /\ l \in Nat /\ msg.type \in Type
  BY CountsOfChannel
<1>2. /\ Chunks(l) \in Nat /\ Chunks(MaxPayload) \in Nat
      /\ Chunks(l) <= Chunks(MaxPayload)
  BY <1>1, MoreChunks
<1>3. CASE l <= SingleRoom
  <2>1. Encode(m, msg) = <<WholeFrame(m, msg)>>
    BY <1>3 DEF Encode
  <2>2. WholeFrame(m, msg) \in SomeFrame
    BY <1>1 DEF WholeFrame, SomeFrame, Piece, Cut
  <2> DEFINE f == WholeFrame(m, msg)
  <2> HIDE DEF f
  <2>3. <<f>> \in Seq(SomeFrame) /\ Len(<<f>>) = 1
    BY <2>2 DEF f
  <2> QED  BY <1>2, <2>1, <2>3 DEF f
<1>4. CASE l > SingleRoom
  <2> DEFINE n == Chunks(l)
             F(i) == ChunkFrame(m, msg, i - 1, n)
             s == Encode(m, msg)
  <2>1. n \in Nat /\ n >= 2
    BY <1>1, <1>4, ChunksCover
  <2>2. s = [i \in 1..n |-> F(i)]
    BY <1>1, <1>4, CountsOfChannel DEF Encode
  <2>3. ASSUME NEW i \in 1..n  PROVE F(i) \in SomeFrame
    <3>1. i - 1 \in Nat /\ i - 1 < n
      BY <2>1
    <3>2. (i - 1) * ChunkRoom \in Nat /\ ((i - 1) + 1) * ChunkRoom \in Nat
      BY <3>1, Multiples
    <3> HIDE DEF n
    <3> QED  BY <1>1, <2>1, <3>1, <3>2 DEF ChunkFrame, SomeFrame, Piece, Cut
  <2> HIDE DEF n, F, s
  <2>4. s \in Seq(SomeFrame) /\ Len(s) = n
    BY <2>1, <2>2, <2>3
  <2> QED  BY <1>2, <2>1, <2>4 DEF s, n
<1> QED  BY <1>1, <1>3, <1>4, CountsOfChannel

\* A chunk takes its place.
LEMMA PlaceTaken ==
  ASSUME NEW n \in Nat, NEW c \in Places(n), NEW i \in 0..(n - 1), NEW p \in Cut
  PROVE  LET d == [c EXCEPT ![i] = {p}] IN
         /\ d \in Places(n) /\ Cardinality(TakenOf(n, c)) \in Nat
         /\ Cardinality(TakenOf(n, d)) =
              IF c[i] = {} THEN Cardinality(TakenOf(n, c)) + 1 ELSE Cardinality(TakenOf(n, c))
<1> DEFINE d == [c EXCEPT ![i] = {p}]
<1>1. d \in Places(n)
  BY DEF Places
<1>2. TakenOf(n, d) = TakenOf(n, c) \cup {i}
  BY DEF Places, TakenOf
<1>3. IsFiniteSet(TakenOf(n, c))
  <2>1. IsFiniteSet(0..(n - 1))
    BY FS_Interval
  <2> QED  BY <2>1, FS_Subset DEF TakenOf
<1>4. i \in TakenOf(n, c) <=> c[i] # {}
  BY DEF TakenOf
<1>5. Cardinality(TakenOf(n, c) \cup {i}) =
        IF i \in TakenOf(n, c) THEN Cardinality(TakenOf(n, c))
                               ELSE Cardinality(TakenOf(n, c)) + 1
  BY <1>3, FS_AddElement
<1>6. Cardinality(TakenOf(n, c)) \in Nat
  BY <1>3, FS_CardinalityType
<1> QED  BY <1>1, <1>2, <1>4, <1>5, <1>6, Zenon

LEMMA EveryPlaceTaken ==
  ASSUME NEW n \in Nat, NEW c \in Places(n), Cardinality(TakenOf(n, c)) = n
  PROVE  \A i \in 0..(n - 1) : c[i] # {}
<1>1. IsFiniteSet(0..(n - 1)) /\ Cardinality(0..(n - 1)) = n
  <2>1. 0 \in Int /\ n - 1 \in Int
    OBVIOUS
  <2>2. /\ IsFiniteSet(0..(n - 1))
        /\ Cardinality(0..(n - 1)) = IF 0 > n - 1 THEN 0 ELSE (n - 1) - 0 + 1
    BY <2>1, FS_Interval
  <2> QED  BY <2>2
<1>2. TakenOf(n, c) \subseteq 0..(n - 1)
  BY DEF TakenOf
<1>3. 0..(n - 1) = TakenOf(n, c)
  BY <1>1, <1>2, FS_Subset
<1> QED  BY <1>3 DEF TakenOf

\* A complete assembler gives a message of as many pieces as its total.
LEMMA AssembledTyped ==
  ASSUME NEW a, Assembling(a), a.received = a.total
  PROVE  Assembled(a) \in DecodedMessage /\ Assembled(a).pieces[1].of \in 1..MaxMessages
<1>1a. PICK n \in 2..MaxChunks, type \in Type : \E c \in Places(n) :
         a = [total |-> n, original_type |-> type, chunks |-> c,
              received |-> Cardinality(TakenOf(n, c))]
  BY DEF Assembling
<1>1. PICK c \in Places(n) :
        a = [total |-> n, original_type |-> type, chunks |-> c,
             received |-> Cardinality(TakenOf(n, c))]
  BY <1>1a
<1>2. n \in Nat /\ n >= 2 /\ type \in Type /\ c \in Places(n)
  BY <1>1a, <1>1, CountsOfChannel
<1>3. Cardinality(TakenOf(n, c)) = n
  BY <1>1
<1>4. \A i \in 0..(n - 1) : c[i] # {} /\ c[i] \subseteq Cut
  BY <1>2, <1>3, EveryPlaceTaken DEF Places
<1> DEFINE P(i) == CHOOSE p \in c[i - 1] : TRUE
           pieces == [i \in 1..n |-> P(i)]
<1>5. ASSUME NEW i \in 1..n  PROVE P(i) \in Cut
  <2>1. i - 1 \in 0..(n - 1)
    BY <1>2
  <2> QED  BY <1>4, <2>1
<1>6. Assembled(a) = [type |-> type, pieces |-> pieces]
  BY <1>1 DEF Assembled
<1> HIDE DEF P
<1>7. pieces \in Seq(Cut) /\ pieces[1] \in Cut
  BY <1>2, <1>5
<1> HIDE DEF pieces
<1>8. pieces[1].of \in 1..MaxMessages
  BY <1>7 DEF Cut
<1>9. [type |-> type, pieces |-> pieces] \in DecodedMessage
  BY <1>2, <1>7 DEF DecodedMessage, Cut
<1> QED  BY <1>6, <1>8, <1>9

\* What a chunk leaves behind.
LEMMA FedTyped ==
  ASSUME NEW f \in SomeFrame, f.kind = "chunk", ~TooMany(f),
         \/ assembler = NoAssembler
         \/ Assembling(assembler) /\ assembler.received \in 1..(assembler.total - 1)
  PROVE  LET a == Feed(Assembler(f), f) IN
         /\ Assembling(a) /\ a.received \in 1..a.total
         /\ f.seq >= a.total => a.received # a.total
<1>1. /\ f.type \in Type /\ f.seq \in Nat /\ f.total \in Nat /\ f.data \in Cut
      /\ f.seq < f.total /\ f.total >= 2 /\ f.total <= MaxChunks
  BY CountsOfChannel DEF SomeFrame, TooMany
<1> DEFINE b == Assembler(f)
<1>2. Assembling(b) /\ b.received \in 0..(b.total - 1) /\ (b.received = 0 => f.seq < b.total)
  <2>1. CASE assembler = NoAssembler
    <3> DEFINE n == f.total
               c == [i \in 0..(n - 1) |-> {}]
    <3>1. b = [total |-> n, original_type |-> f.type, chunks |-> c, received |-> 0]
      BY <2>1 DEF Assembler
    <3>2. n \in 2..MaxChunks /\ c \in Places(n)
      BY <1>1, CountsOfChannel DEF Places
    <3>3. TakenOf(n, c) = {}
      BY DEF TakenOf
    <3>4. Cardinality(TakenOf(n, c)) = 0
      BY <3>3, FS_EmptySet
    <3> HIDE DEF b, c
    <3>5. Assembling(b)
      BY <1>1, <3>1, <3>2, <3>4 DEF Assembling
    <3> QED  BY <1>1, <3>1, <3>5
  <2>2. CASE assembler # NoAssembler
    <3>1. b = assembler
      BY <2>2 DEF Assembler
    <3>2. Assembling(assembler) /\ assembler.received \in 1..(assembler.total - 1)
      BY <2>2
    <3>3. assembler.total \in Nat
      BY <3>2, CountsOfChannel DEF Assembling
    <3> QED  BY <3>1, <3>2, <3>3
  <2> QED  BY <2>1, <2>2
<1>3a. PICK n \in 2..MaxChunks, type \in Type : \E c \in Places(n) :
         b = [total |-> n, original_type |-> type, chunks |-> c,
              received |-> Cardinality(TakenOf(n, c))]
  BY <1>2 DEF Assembling
<1>3. PICK c \in Places(n) :
        b = [total |-> n, original_type |-> type, chunks |-> c,
             received |-> Cardinality(TakenOf(n, c))]
  BY <1>3a
<1> HIDE DEF b
<1>4. n \in Nat /\ c \in Places(n) /\ n \in 2..MaxChunks /\ type \in Type
  BY <1>3a, <1>3, CountsOfChannel
<1>5. /\ b.total = n /\ b.received = Cardinality(TakenOf(n, c)) /\ b.chunks = c
      /\ Cardinality(TakenOf(n, c)) \in 0..(n - 1)
      /\ Cardinality(TakenOf(n, c)) = 0 => f.seq < n
  BY <1>2, <1>3
<1>6. CASE f.seq >= n
  <2>1. Feed(b, f) = b
    BY <1>5, <1>6 DEF Feed
  <2>2. b.received \in 1..(b.total - 1)
    BY <1>1, <1>4, <1>5, <1>6
  <2> QED  BY <1>2, <1>4, <1>5, <2>1, <2>2 DEF b
<1>7. CASE f.seq < n
  <2> DEFINE i == f.seq
             d == [c EXCEPT ![i] = {f.data}]
             k == Cardinality(TakenOf(n, c))
             a == [total |-> n, original_type |-> type, chunks |-> d,
                   received |-> Cardinality(TakenOf(n, d))]
  <2>1. i \in 0..(n - 1)
    BY <1>1, <1>4, <1>7
  <2>2. /\ d \in Places(n) /\ k \in Nat
        /\ Cardinality(TakenOf(n, d)) = IF c[i] = {} THEN k + 1 ELSE k
    BY <1>1, <1>4, <2>1, PlaceTaken
  <2>3. Feed(b, f) = [total |-> n, original_type |-> type, chunks |-> d,
                      received |-> IF c[i] = {} THEN k + 1 ELSE k]
    <3>1. ~(f.seq >= b.total)
      BY <1>1, <1>4, <1>5, <1>7
    <3>2. Feed(b, f) = [b EXCEPT !.chunks = d, !.received = IF c[i] = {} THEN k + 1 ELSE k]
      BY <1>5, <3>1 DEF Feed
    <3> HIDE DEF d, k
    <3> QED  BY <1>3, <3>2
  <2>4. Feed(b, f) = a
    BY <2>2, <2>3
  <2>5. a.received \in 1..n
    <3>1. c[i] # {} => k # 0
      <4>1. ASSUME c[i] # {}, k = 0  PROVE FALSE
        <5>1. i \in TakenOf(n, c)
          BY <2>1, <4>1 DEF TakenOf
        <5>2. IsFiniteSet(TakenOf(n, c))
          <6>1. IsFiniteSet(0..(n - 1))
            BY <1>4, FS_Interval
          <6> QED  BY <6>1, FS_Subset DEF TakenOf
        <5> QED  BY <4>1, <5>1, <5>2, FS_EmptySet
      <4> QED  BY <4>1
    <3> HIDE DEF k, d
    <3> QED  BY <1>4, <1>5, <2>2, <3>1 DEF k
  <2>6. Assembling(a)
    <3> HIDE DEF d
    <3> QED  BY <1>4, <2>2 DEF Assembling
  <2>7. a.total = n /\ ~(f.seq >= a.total)
    BY <1>1, <1>4, <1>7
  <2> HIDE DEF a
  <2> QED  BY <2>4, <2>5, <2>6, <2>7 DEF b
<1> QED  BY <1>1, <1>4, <1>6, <1>7

\* A message that was decoded is queued, or counted as dropped.
LEMMA DecodedTyped ==
  ASSUME ChannelTyped, NEW msg \in DecodedMessage, msg.pieces[1].of \in 1..MaxMessages,
         Decoded(msg)
  PROVE  /\ decoded_tx' \in Seq(DecodedMessage) /\ Len(decoded_tx') <= DecodedSlots
         /\ overflowed' \subseteq 1..MaxMessages
<1> USE DEF ChannelTyped
<1> HIDE DEF DecodedMessage
<1>1. CASE Len(decoded_tx) < DecodedSlots
  <2>1. decoded_tx' = Append(decoded_tx, msg) /\ overflowed' = overflowed
    BY <1>1 DEF Decoded
  <2>2. /\ Append(decoded_tx, msg) \in Seq(DecodedMessage)
        /\ Len(Append(decoded_tx, msg)) = Len(decoded_tx) + 1 /\ Len(decoded_tx) \in Nat
    BY AppendProperties, LenProperties
  <2>3. Len(Append(decoded_tx, msg)) <= DecodedSlots
    BY <1>1, <2>2, CountsOfChannel
  <2> QED  BY <2>1, <2>2, <2>3, Zenon
<1>2. CASE ~(Len(decoded_tx) < DecodedSlots)
  BY <1>2 DEF Decoded
<1> QED  BY <1>1, <1>2

LEMMA ChannelInitTyped == ChannelInit => ChannelTyped
<1> SUFFICES ASSUME ChannelInit  PROVE ChannelTyped
  OBVIOUS
<1>1. Len(<<>>) = 0 /\ \A S : <<>> \in Seq(S)
  BY EmptySeq
<1>2. 0 \in 0..MaxPayload /\ Chunks(MaxPayload) \in Nat
  BY CountsOfChannel, MoreChunks
<1>3. /\ Len(messages) <= MaxMessages /\ Len(send_queue) <= QueueSlots
      /\ Len(decoded_tx) <= DecodedSlots
  BY <1>1, CountsOfChannel DEF ChannelInit
<1>4. \A t \in SendingTask : Len(sending[t]) <= Chunks(MaxPayload) + 1
  BY <1>1, <1>2 DEF ChannelInit
<1> QED  BY <1>1, <1>3, <1>4 DEF ChannelInit, ChannelTyped

LEMMA ChannelKeepsTypes == ChannelTyped /\ [ChannelNext]_dataChannelVars => ChannelTyped'
<1> SUFFICES ASSUME ChannelTyped, [ChannelNext]_dataChannelVars  PROVE ChannelTyped'
  OBVIOUS
<1> DEFINE Msg == [type : Type, length : 0..MaxPayload]
           SentPart == messages \in Seq(Msg) /\ Len(messages) <= MaxMessages
           TaskPart == /\ sending \in [SendingTask -> Seq(SomeFrame)]
                       /\ \A t \in SendingTask : Len(sending[t]) <= Chunks(MaxPayload) + 1
           QueuePart == /\ send_queue \in Seq(SomeFrame) /\ Len(send_queue) <= QueueSlots
                        /\ alive \in BOOLEAN
           FedPart == \/ assembler = NoAssembler
                      \/ /\ Assembling(assembler)
                         /\ assembler.received \in 1..(assembler.total - 1)
           DecodedPart == /\ decoded_tx \in Seq(DecodedMessage)
                          /\ Len(decoded_tx) <= DecodedSlots
                          /\ overflowed \subseteq 1..MaxMessages
           ReceivedPart == received_all \in Seq(DecodedMessage)
           Parts == /\ SentPart /\ TaskPart /\ QueuePart /\ FedPart /\ DecodedPart
                    /\ ReceivedPart
<1>1. Parts
  BY DEF ChannelTyped
<1>2. SUFFICES Parts'
  BY DEF ChannelTyped
<1>3. Len(<<>>) = 0 /\ (\A S : <<>> \in Seq(S)) /\ Chunks(MaxPayload) \in Nat
  <2>1. 0 \in 0..MaxPayload
    BY CountsOfChannel
  <2> QED  BY <2>1, EmptySeq, MoreChunks
<1>4. ASSUME UNCHANGED dataChannelVars  PROVE Parts'
  <2>1. /\ messages' = messages /\ sending' = sending /\ send_queue' = send_queue
        /\ alive' = alive /\ assembler' = assembler /\ decoded_tx' = decoded_tx
        /\ received_all' = received_all /\ overflowed' = overflowed
    BY <1>4 DEF dataChannelVars
  <2> QED  BY <1>1, <2>1, Zenon
<1>5. ASSUME NEW t \in SendingTask, SendStarts(t)  PROVE Parts'
  <2>1. PICK type \in Type, length \in 0..MaxPayload :
          LET msg == [type |-> type, length |-> length] IN
          /\ messages' = Append(messages, msg)
          /\ sending' = [sending EXCEPT ![t] = Encode(Len(messages) + 1, msg)]
    BY <1>5 DEF SendStarts
  <2>2. PICK msg : msg = [type |-> type, length |-> length]
    OBVIOUS
  <2>3. msg \in Msg
    BY <2>1, <2>2
  <2>4. PICK s : s = Encode(Len(messages) + 1, msg)
    OBVIOUS
  <2>5. Len(messages) + 1 \in 1..MaxMessages /\ Len(messages) \in Nat
    BY <1>1, <1>5, LenProperties, CountsOfChannel DEF SendStarts
  <2>6. s \in Seq(SomeFrame) /\ Len(s) <= Chunks(MaxPayload) + 1
    BY <2>3, <2>4, <2>5, EncodedTyped
  <2>7. SentPart'
    <3> HIDE DEF Msg
    <3>1. /\ Append(messages, msg) \in Seq(Msg)
          /\ Len(Append(messages, msg)) = Len(messages) + 1
      BY <1>1, <2>3, AppendProperties
    <3>2. Len(Append(messages, msg)) <= MaxMessages
      BY <2>5, <3>1, CountsOfChannel
    <3>3. messages' = Append(messages, msg)
      BY <2>1, <2>2
    <3> QED  BY <3>1, <3>2, <3>3, Zenon
  <2>8. TaskPart'
    <3>1. sending' = [sending EXCEPT ![t] = s]
      BY <2>1, <2>2, <2>4
    <3>2. [sending EXCEPT ![t] = s] \in [SendingTask -> Seq(SomeFrame)]
      BY <1>1, <2>6
    <3>3. \A u \in SendingTask : Len([sending EXCEPT ![t] = s][u]) <= Chunks(MaxPayload) + 1
      BY <1>1, <2>6
    <3> QED  BY <3>1, <3>2, <3>3, Zenon
  <2>9. /\ send_queue' = send_queue /\ alive' = alive /\ assembler' = assembler
        /\ decoded_tx' = decoded_tx /\ received_all' = received_all
        /\ overflowed' = overflowed
    BY <1>5 DEF SendStarts
  <2>10. QueuePart' /\ FedPart' /\ DecodedPart' /\ ReceivedPart'
    BY <1>1, <2>9, Zenon
  <2> QED  BY <2>7, <2>8, <2>10
<1>6. ASSUME NEW t \in SendingTask, SendFrame(t)  PROVE Parts'
  <2>1. sending[t] \in Seq(SomeFrame) /\ sending[t] # <<>>
    BY <1>1, <1>6 DEF SendFrame
  <2>2. PICK f \in SomeFrame : f = Head(sending[t])
    BY <2>1, HeadTailProperties
  <2>3. PICK r \in Seq(SomeFrame) : r = Tail(sending[t])
    BY <2>1, HeadTailProperties
  <2>4. Len(r) <= Chunks(MaxPayload) + 1
    <3>1. Len(r) = Len(sending[t]) - 1 /\ Len(sending[t]) \in Nat
      BY <2>1, <2>3, HeadTailProperties, LenProperties
    <3>2. Len(sending[t]) <= Chunks(MaxPayload) + 1
      BY <1>1
    <3> QED  BY <1>3, <3>1, <3>2
  <2>5. TaskPart'
    <3>1. sending' = [sending EXCEPT ![t] = r]
      BY <1>6, <2>3 DEF SendFrame
    <3>2. [sending EXCEPT ![t] = r] \in [SendingTask -> Seq(SomeFrame)]
      BY <1>1
    <3>3. \A u \in SendingTask : Len([sending EXCEPT ![t] = r][u]) <= Chunks(MaxPayload) + 1
      BY <1>1, <2>4
    <3> QED  BY <3>1, <3>2, <3>3, Zenon
  <2>6. QueuePart'
    <3>1. /\ Append(send_queue, f) \in Seq(SomeFrame)
          /\ Len(Append(send_queue, f)) = Len(send_queue) + 1 /\ Len(send_queue) \in Nat
      BY <1>1, AppendProperties, LenProperties
    <3>2. Len(Append(send_queue, f)) <= QueueSlots
      BY <1>6, <3>1, CountsOfChannel DEF SendFrame
    <3>3. send_queue' = Append(send_queue, f) /\ alive' = alive
      BY <1>6, <2>2 DEF SendFrame
    <3> QED  BY <1>1, <3>1, <3>2, <3>3, Zenon
  <2>7. /\ messages' = messages /\ assembler' = assembler
        /\ decoded_tx' = decoded_tx /\ received_all' = received_all
        /\ overflowed' = overflowed
    BY <1>6 DEF SendFrame
  <2>8. SentPart' /\ FedPart' /\ DecodedPart' /\ ReceivedPart'
    BY <1>1, <2>7, Zenon
  <2> QED  BY <2>5, <2>6, <2>8
<1>7. ASSUME ChannelFails  PROVE Parts'
  <2>1. /\ messages' = messages /\ sending' = [t \in SendingTask |-> <<>>]
        /\ send_queue' = <<>> /\ alive' = FALSE /\ assembler' = assembler
        /\ decoded_tx' = decoded_tx /\ received_all' = received_all
        /\ overflowed' = overflowed
    BY <1>7 DEF ChannelFails
  <2>2. SentPart' /\ FedPart' /\ DecodedPart' /\ ReceivedPart'
    BY <1>1, <2>1, Zenon
  <2>3. Len(<<>>) <= QueueSlots /\ Len(<<>>) <= Chunks(MaxPayload) + 1
    BY <1>3, CountsOfChannel
  <2>4. QueuePart'
    BY <1>3, <2>1, <2>3, Zenon
  <2>5. TaskPart'
    <3>1. [t \in SendingTask |-> <<>>] \in [SendingTask -> Seq(SomeFrame)]
      BY <1>3
    <3>2. \A u \in SendingTask : Len([t \in SendingTask |-> <<>>][u]) <= Chunks(MaxPayload) + 1
      BY <2>3
    <3> QED  BY <2>1, <3>1, <3>2, Zenon
  <2> QED  BY <2>2, <2>4, <2>5
<1>8. ASSUME OnMessage  PROVE Parts'
  <2>1. send_queue \in Seq(SomeFrame) /\ send_queue # <<>>
    BY <1>1, <1>8 DEF OnMessage
  <2>2. PICK f \in SomeFrame : f = Head(send_queue)
    BY <2>1, HeadTailProperties
  <2>3. PICK r \in Seq(SomeFrame) : r = Tail(send_queue)
    BY <2>1, HeadTailProperties
  <2>4. Len(r) <= QueueSlots
    <3>1. /\ Len(r) = Len(send_queue) - 1 /\ Len(send_queue) \in Nat
          /\ Len(send_queue) <= QueueSlots
      BY <1>1, <2>1, <2>3, HeadTailProperties, LenProperties
    <3> QED  BY <3>1, CountsOfChannel
  <2>5. /\ messages' = messages /\ sending' = sending /\ alive' = alive
        /\ received_all' = received_all /\ send_queue' = r
    BY <1>8, <2>3 DEF OnMessage
  <2>6. SentPart' /\ TaskPart' /\ QueuePart' /\ ReceivedPart'
    BY <1>1, <2>4, <2>5, Zenon
  <2>7. CASE ReceiveWhole(f)
    <3>1. PICK msg : msg = [type |-> f.type, pieces |-> <<f.data>>]
      OBVIOUS
    <3>2. f.type \in Type /\ f.data \in Cut
      BY DEF SomeFrame
    <3>3. msg \in DecodedMessage /\ msg.pieces[1].of \in 1..MaxMessages
      BY <3>1, <3>2 DEF DecodedMessage, Cut
    <3>4. Decoded(msg) /\ assembler' = assembler
      BY <2>7, <3>1 DEF ReceiveWhole
    <3>5. DecodedPart'
      BY <3>3, <3>4, DecodedTyped
    <3>6. FedPart'
      BY <1>1, <3>4, Zenon
    <3> QED  BY <2>6, <3>5, <3>6
  <2>8. CASE ReceiveChunk(f)
    <3>1. CASE TooMany(f)
      <4>1. /\ assembler' = assembler /\ decoded_tx' = decoded_tx
            /\ overflowed' = overflowed
        BY <2>8, <3>1 DEF ReceiveChunk
      <4>2. FedPart' /\ DecodedPart'
        BY <1>1, <4>1, Zenon
      <4> QED  BY <2>6, <4>2
    <3>2. CASE ~TooMany(f)
      <4>1. PICK a : a = Feed(Assembler(f), f)
        OBVIOUS
      <4>2. f.kind = "chunk"
        BY <2>8 DEF ReceiveChunk
      <4>3. /\ Assembling(a) /\ a.received \in 1..a.total
            /\ f.seq >= a.total => a.received # a.total
        BY <1>1, <3>2, <4>1, <4>2, FedTyped
      <4>4. a.total \in Nat /\ f.seq \in Nat
        <5>1. a.total \in 2..MaxChunks
          BY <4>3 DEF Assembling
        <5> QED  BY <5>1, CountsOfChannel DEF SomeFrame
      <4>5. CASE f.seq < a.total /\ a.received = a.total
        <5>1. assembler' = NoAssembler /\ Decoded(Assembled(a))
          BY <2>8, <3>2, <4>1, <4>5 DEF ReceiveChunk, AssemblerAfter
        <5>2. Assembled(a) \in DecodedMessage /\ Assembled(a).pieces[1].of \in 1..MaxMessages
          BY <4>3, <4>5, AssembledTyped
        <5>3. DecodedPart'
          BY <5>1, <5>2, DecodedTyped
        <5> QED  BY <2>6, <5>1, <5>3
      <4>6. CASE ~(f.seq < a.total /\ a.received = a.total)
        <5>1. assembler' = a /\ decoded_tx' = decoded_tx /\ overflowed' = overflowed
          BY <2>8, <3>2, <4>1, <4>6 DEF ReceiveChunk
        <5>2. a.received \in 1..(a.total - 1)
          BY <4>3, <4>4, <4>6
        <5>3. FedPart' /\ DecodedPart'
          BY <1>1, <4>3, <5>1, <5>2, Zenon
        <5> QED  BY <2>6, <5>3
      <4> QED  BY <4>5, <4>6
    <3> QED  BY <3>1, <3>2
  <2> QED  BY <1>8, <2>2, <2>7, <2>8 DEF OnMessage
<1>9. ASSUME Recv  PROVE Parts'
  <2>1. /\ Head(decoded_tx) \in DecodedMessage /\ Tail(decoded_tx) \in Seq(DecodedMessage)
        /\ Len(Tail(decoded_tx)) = Len(decoded_tx) - 1 /\ Len(decoded_tx) \in Nat
    BY <1>1, <1>9, HeadTailProperties, LenProperties DEF Recv
  <2>2. Len(Tail(decoded_tx)) <= DecodedSlots
    BY <1>1, <2>1, CountsOfChannel
  <2>3. Append(received_all, Head(decoded_tx)) \in Seq(DecodedMessage)
    BY <1>1, <2>1, AppendProperties
  <2>4. /\ messages' = messages /\ sending' = sending /\ send_queue' = send_queue
        /\ alive' = alive /\ assembler' = assembler /\ overflowed' = overflowed
        /\ decoded_tx' = Tail(decoded_tx)
        /\ received_all' = Append(received_all, Head(decoded_tx))
    BY <1>9 DEF Recv
  <2> QED  BY <1>1, <2>1, <2>2, <2>3, <2>4, Zenon
<1> HIDE DEF Parts
<1> QED  BY <1>4, <1>5, <1>6, <1>7, <1>8, <1>9 DEF ChannelNext

\* Frames, assembler and queues of a data channel keep to their types and bounds
\* (channel.rs), also when tasks send at the same time and the chunks of their messages
\* mix: an assembler is never complete between two frames, and none is taken apart that
\* lacks a chunk.
THEOREM ChannelStatesTyped == ChannelSpec => []ChannelTypeOK
<1>1. ChannelTyped => ChannelTypeOK
  <2> SUFFICES ASSUME ChannelTyped  PROVE ChannelTypeOK
    OBVIOUS
  <2>1. ASSUME assembler # NoAssembler
        PROVE  assembler.total \in 1..MaxChunks /\ assembler.original_type \in Type
    <3>1. assembler.total \in 2..MaxChunks /\ assembler.original_type \in Type
      BY <2>1 DEF ChannelTyped, Assembling
    <3> QED  BY <3>1, CountsOfChannel
  <2> QED  BY <2>1 DEF ChannelTyped, ChannelTypeOK
<1>2. ChannelSpec => []ChannelTyped
  BY ChannelInitTyped, ChannelKeepsTypes, PTL DEF ChannelSpec
<1> QED  BY <1>1, <1>2, PTL

=============================================================================
