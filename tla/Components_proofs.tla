------------------------- MODULE Components_proofs --------------------------
(***************************************************************************)
(* What MCComponents explores is each component alone: a behaviour of its  *)
(* specification is a behaviour of every part's own, so what is proved of  *)
(* a part holds in the runs, and the types of all parts can be stated as   *)
(* the runs state them.                                                    *)
(***************************************************************************)
EXTENDS MCComponents, Relay_proofs, Daemon_proofs, Agent_proofs

-----------------------------------------------------------------------------

LEMMA PartsStart ==
  Init => /\ SessionsInit /\ JobsInit /\ TunnelInit /\ GpuInit /\ ProxyInit /\ PeersInit
          /\ ChannelInit /\ HiveInit /\ RoomInit /\ SpeechInit /\ LifecycleInit
          /\ AgentInputInit /\ BrowsersInit /\ MemoryInit
BY DEF Init

\* A step is a step of the part that is explored; the others stand still.
LEMMA PartsStep ==
  [Next]_allVars =>
    /\ [SessionsNext]_sessionsVars /\ [JobsNext]_jobsVars
    /\ [TunnelNext]_tunnelVars /\ [GpuNext]_gpuSessionVars
    /\ [ProxyNext]_proxyVars /\ [PeersNext]_peerVars
    /\ [ChannelNext]_dataChannelVars /\ [HiveNext]_hiveVars
    /\ [RoomNext]_roomVars /\ [SpeechNext]_speechVars
    /\ [LifecycleNext]_lifecycleVars /\ [AgentInputNext]_inputVars
    /\ [BrowsersNext]_browsersVars /\ [MemoryNext]_memoryVars
<1> SUFFICES ASSUME [Next]_allVars
             PROVE  /\ [SessionsNext]_sessionsVars /\ [JobsNext]_jobsVars
                    /\ [TunnelNext]_tunnelVars /\ [GpuNext]_gpuSessionVars
                    /\ [ProxyNext]_proxyVars /\ [PeersNext]_peerVars
                    /\ [ChannelNext]_dataChannelVars /\ [HiveNext]_hiveVars
                    /\ [RoomNext]_roomVars /\ [SpeechNext]_speechVars
                    /\ [LifecycleNext]_lifecycleVars /\ [AgentInputNext]_inputVars
                    /\ [BrowsersNext]_browsersVars /\ [MemoryNext]_memoryVars
  OBVIOUS
<1>1. CASE UNCHANGED allVars
  BY <1>1 DEF allVars
<1>2. CASE In("sessions") /\ SessionsNext
  BY <1>2 DEF In
<1>3. CASE In("jobs") /\ JobsNext
  BY <1>3 DEF In
<1>4. CASE In("tunnel") /\ TunnelNext
  BY <1>4 DEF In
<1>5. CASE In("gpu") /\ GpuNext
  BY <1>5 DEF In
<1>6. CASE In("proxy") /\ ProxyNext
  BY <1>6 DEF In
<1>7. CASE In("peers") /\ PeersNext
  BY <1>7 DEF In
<1>8. CASE In("channel") /\ ChannelNext
  BY <1>8 DEF In
<1>9. CASE In("hive") /\ HiveNext
  BY <1>9 DEF In
<1>10. CASE In("room") /\ RoomNext
  BY <1>10 DEF In
<1>11. CASE In("speech") /\ SpeechNext
  BY <1>11 DEF In
<1>12. CASE In("daemon") /\ LifecycleNext
  BY <1>12 DEF In
<1>13. CASE In("input") /\ AgentInputNext
  BY <1>13 DEF In
<1>14. CASE In("browsers") /\ BrowsersNext
  BY <1>14 DEF In
<1>15. CASE In("memory") /\ MemoryNext
  BY <1>15 DEF In
<1> QED
  BY <1>1, <1>2, <1>3, <1>4, <1>5, <1>6, <1>7, <1>8, <1>9, <1>10, <1>11, <1>12,
     <1>13, <1>14, <1>15
  DEF Next

\* Each part in a behaviour of the runs behaves as its own specification says
\* (MCComponents).
THEOREM PartsAlone ==
  Spec => /\ SessionsSpec /\ JobsSpec /\ TunnelSpec /\ GpuSpec /\ ProxySpec /\ PeersSpec
          /\ ChannelSpec /\ HiveSpec /\ RoomSpec /\ SpeechSpec /\ LifecycleSpec
          /\ AgentInputSpec /\ BrowsersSpec /\ MemorySpec
BY PartsStart, PartsStep, PTL
DEF Spec, SessionsSpec, JobsSpec, TunnelSpec, GpuSpec, ProxySpec, PeersSpec, ChannelSpec,
    HiveSpec, RoomSpec, SpeechSpec, LifecycleSpec, AgentInputSpec, BrowsersSpec, MemorySpec

\* The types of every component, for every value of the constants, in the runs as a
\* whole (the state of each handler, task, file and queue that the parts model).
THEOREM ComponentsTyped == Spec => []ComponentsTypeOK
<1>1. SessionsSpec => []SessionsTypeOK
  <2>1. SessionsInit => SessionsTypeOK
    BY SessionsStart DEF SessionsIInv
  <2> QED  BY <2>1, SessionsTyped, PTL DEF SessionsSpec
<1>2. BrowsersSpec => []BrowsersTypeOK
  <2>1. BrowsersTyped => BrowsersTypeOK
    BY DEF BrowsersTyped
  <2> QED  BY <2>1, TypedInit, StaysTyped, PTL DEF BrowsersSpec
<1>3. /\ SessionsTypeOK /\ JobsTypeOK /\ TunnelTypeOK /\ GpuTypeOK /\ ProxyTypeOK
      /\ PeersTypeOK /\ ChannelTypeOK /\ HiveTypeOK /\ RoomTypeOK /\ SpeechTypeOK
      /\ LifecycleTypeOK /\ AgentInputTypeOK /\ BrowsersTypeOK /\ MemoryTypeOK
      => ComponentsTypeOK
  BY DEF ComponentsTypeOK
<1> QED
  BY <1>1, <1>2, <1>3, PartsAlone, JobsTyped, TunnelStatesTyped, GpuTyped, ProxyStatesTyped,
     PeerStatesTyped, ChannelStatesTyped, HiveTyped, RoomStatesTyped, SpeechTyped,
     LifecycleTyped, InputTyped, MemoryTyped, PTL
=============================================================================
