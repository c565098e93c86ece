---------------------------- MODULE DaemonPeers ----------------------------
(***************************************************************************)
(* The WebRTC peers of the daemon (daemon/rtc.rs, built with the feature   *)
(* webrtc-experimental): handle_offer, the bridge task of a peer, the      *)
(* event relay and the terminal sink it hangs into its browser's session.  *)
(* Every offer is handled by a task of its own (bridge/puller.rs), so two  *)
(* offers of one browser may overlap.  What the channels carry is the      *)
(* business of DataChannel and of the reliable layer.                      *)
(***************************************************************************)
EXTENDS Naturals, FiniteSets

CONSTANTS
  RtcBrowser,
  Offer,          \* bound: the offers ever made
  NoOffer, NoBrowser,
  MaxDisconnects  \* bound: disconnects a peer may recover from

ASSUME DaemonPeersAssumption ==
  NoOffer \notin Offer /\ NoBrowser \notin RtcBrowser /\ MaxDisconnects \in Nat

VARIABLES
  known,          \* browsers with a session
  origin,         \* of an offer: its browser
  opc,            \* handler of an offer: next step
  peer_registry,  \* offers with an entry
  bridge,         \* bridge task: "none", "starting", "running", "ended", "aborted"
  peer,           \* peer connection: "none", "new", "disconnected", "dead"
  relay,          \* event_relay_task of a peer runs
  rtc_sink,       \* of a session: the peer its sink "rtc" sends to
  rtc_active,     \* of a session
  disconnects,
  opened          \* peers whose channel "terminal" has come in

peerVars == <<known, origin, opc, peer_registry, bridge, peer, relay, rtc_sink, rtc_active,
              disconnects, opened>>

SetSession(b, s, f) ==
  /\ rtc_sink' = [rtc_sink EXCEPT ![b] = s]
  /\ rtc_active' = [rtc_active EXCEPT ![b] = f]

Unfinished(o) == bridge[o] \in {"starting", "running"}

----------------------------------------------------------------------------
(* handle_offer *)

\* An offer of a browser without a session is turned away before there is a peer.
OfferArrives(o) ==
  /\ opc[o] = "none"
  /\ \E b \in RtcBrowser :
       /\ origin' = [origin EXCEPT ![o] = b]
       /\ opc' = [opc EXCEPT ![o] = IF b \in known THEN "abort_old" ELSE "rejected"]
  /\ UNCHANGED <<known, peer_registry, bridge, peer, relay, rtc_sink, rtc_active,
                 disconnects, opened>>

Same(o) == {q \in peer_registry : origin[q] = origin[o]}

\* Peers of the same browser that run on go.
Replaced(o) == {q \in Same(o) : Unfinished(q)}

\* Aborting a bridge task drops its peer, and nothing else it left behind.
AbortOld(o) ==
  /\ opc[o] = "abort_old"
  /\ opc' = [opc EXCEPT ![o] = "answering"]
  /\ peer_registry' = {q \in peer_registry : Unfinished(q)} \ Replaced(o)
  /\ bridge' = [q \in Offer |-> IF q \in Replaced(o) THEN "aborted" ELSE bridge[q]]
  /\ peer' = [q \in Offer |-> IF q \in Replaced(o) THEN "dead"
                              ELSE IF q = o THEN "new" ELSE peer[q]]
  /\ UNCHANGED <<known, origin, relay, rtc_sink, rtc_active, disconnects, opened>>

\* Within 10 s the candidates are gathered; else the offer fails.
AnswerReady(o) ==
  /\ opc[o] = "answering"
  /\ opc' = [opc EXCEPT ![o] = "inserting"]
  /\ bridge' = [bridge EXCEPT ![o] = "starting"]
  /\ UNCHANGED <<known, origin, peer_registry, peer, relay, rtc_sink, rtc_active,
                 disconnects, opened>>

AnswerFails(o) ==
  /\ opc[o] = "answering"
  /\ opc' = [opc EXCEPT ![o] = "failed"]
  /\ peer' = [peer EXCEPT ![o] = "dead"]
  /\ UNCHANGED <<known, origin, peer_registry, bridge, relay, rtc_sink, rtc_active,
                 disconnects, opened>>

\* The entry is made when the task runs already, or has even ended.
InsertEntry(o) ==
  /\ opc[o] = "inserting"
  /\ opc' = [opc EXCEPT ![o] = "answered"]
  /\ peer_registry' = peer_registry \cup {o}
  /\ UNCHANGED <<known, origin, bridge, peer, relay, rtc_sink, rtc_active, disconnects,
                 opened>>

----------------------------------------------------------------------------
(* rtc_bridge_task_inner *)

\* The task ends: its entry goes, its peer is dropped.
Ends(o) ==
  /\ bridge' = [bridge EXCEPT ![o] = "ended"]
  /\ peer' = [peer EXCEPT ![o] = "dead"]
  /\ peer_registry' = peer_registry \ {o}

BridgeStarts(o) ==
  /\ bridge[o] = "starting"
  /\ IF origin[o] \in known
     THEN bridge' = [bridge EXCEPT ![o] = "running"] /\ UNCHANGED <<peer, peer_registry>>
     ELSE Ends(o)
  /\ UNCHANGED <<known, origin, opc, relay, rtc_sink, rtc_active, disconnects, opened>>

Running(o) == bridge[o] = "running"

\* IncomingChannel "control": its event relay starts.
ControlOpens(o) ==
  /\ Running(o) /\ peer[o] = "new" /\ ~relay[o]
  /\ relay' = [relay EXCEPT ![o] = TRUE]
  /\ SetSession(origin[o], rtc_sink[origin[o]], TRUE)
  /\ UNCHANGED <<known, origin, opc, peer_registry, bridge, peer, disconnects, opened>>

\* IncomingChannel "terminal": the sink "rtc" is replaced.
TerminalOpens(o) ==
  /\ Running(o) /\ peer[o] = "new" /\ o \notin opened
  /\ opened' = opened \cup {o}
  /\ SetSession(origin[o], o, TRUE)
  /\ UNCHANGED <<known, origin, opc, peer_registry, bridge, peer, relay, disconnects>>

\* The sink "rtc" goes, whoever it sends to; 30 s to recover.
Disconnected(o) ==
  /\ Running(o) /\ peer[o] = "new" /\ disconnects[o] < MaxDisconnects
  /\ disconnects' = [disconnects EXCEPT ![o] = @ + 1]
  /\ peer' = [peer EXCEPT ![o] = "disconnected"]
  /\ SetSession(origin[o], NoOffer, FALSE)
  /\ UNCHANGED <<known, origin, opc, peer_registry, bridge, relay, opened>>

\* The sink does not come back.
Connected(o) ==
  /\ Running(o) /\ peer[o] = "disconnected"
  /\ peer' = [peer EXCEPT ![o] = "new"]
  /\ UNCHANGED <<known, origin, opc, peer_registry, bridge, relay, rtc_sink, rtc_active,
                 disconnects, opened>>

\* Mutant: the cleanup at the end of the task is missing.
CleanupSkipped(o) == UNCHANGED <<relay, rtc_sink, rtc_active>>

\* The children are aborted, the sink "rtc" goes, whoever it sends to.
Cleanup(o) ==
  /\ relay' = [relay EXCEPT ![o] = FALSE]
  /\ SetSession(origin[o], NoOffer, FALSE)

\* "closed", "failed", or 30 s without recovery.
PeerCloses(o) ==
  /\ Running(o)
  /\ Cleanup(o)
  /\ Ends(o)
  /\ UNCHANGED <<known, origin, opc, disconnects, opened>>

----------------------------------------------------------------------------
(* What an aborted bridge leaves behind *)

\* The next event cannot be sent: the relay ends, and clears its session's flag.
RelayEnds(o) ==
  /\ relay[o] /\ peer[o] = "dead"
  /\ relay' = [relay EXCEPT ![o] = FALSE]
  /\ rtc_active' = [rtc_active EXCEPT ![origin[o]] = FALSE]
  /\ UNCHANGED <<known, origin, opc, peer_registry, bridge, peer, rtc_sink, disconnects,
                 opened>>

\* A frame handed to the sink of a dead peer cannot be sent: the sink goes.
SinkSendFails(b) ==
  /\ rtc_sink[b] # NoOffer /\ peer[rtc_sink[b]] = "dead"
  /\ rtc_sink' = [rtc_sink EXCEPT ![b] = NoOffer]
  /\ UNCHANGED <<known, origin, opc, peer_registry, bridge, peer, relay, rtc_active,
                 disconnects, opened>>

\* The WS handler makes the session; its timer takes it away when no sink is left.
SessionMade(b) ==
  /\ b \notin known /\ known' = known \cup {b}
  /\ SetSession(b, NoOffer, FALSE)
  /\ UNCHANGED <<origin, opc, peer_registry, bridge, peer, relay, disconnects, opened>>

PeersInit ==
  /\ known = {} /\ peer_registry = {}
  /\ origin = [o \in Offer |-> NoBrowser]
  /\ opc = [o \in Offer |-> "none"] /\ bridge = [o \in Offer |-> "none"]
  /\ peer = [o \in Offer |-> "none"] /\ relay = [o \in Offer |-> FALSE]
  /\ rtc_sink = [b \in RtcBrowser |-> NoOffer] /\ rtc_active = [b \in RtcBrowser |-> FALSE]
  /\ disconnects = [o \in Offer |-> 0] /\ opened = {}

PeersNext ==
  \/ \E o \in Offer :
       \/ OfferArrives(o) \/ AbortOld(o) \/ AnswerReady(o) \/ AnswerFails(o) \/ InsertEntry(o)
       \/ BridgeStarts(o) \/ ControlOpens(o) \/ TerminalOpens(o)
       \/ Disconnected(o) \/ Connected(o) \/ PeerCloses(o) \/ RelayEnds(o)
  \/ \E b \in RtcBrowser : SinkSendFails(b) \/ SessionMade(b)

PeersSpec == PeersInit /\ [][PeersNext]_peerVars

----------------------------------------------------------------------------
(* Properties *)

\* The type invariant.
PeersTypeOK ==
  /\ known \subseteq RtcBrowser /\ origin \in [Offer -> RtcBrowser \cup {NoBrowser}]
  /\ opc \in [Offer -> {"none", "rejected", "abort_old", "answering", "failed", "inserting",
                        "answered"}]
  /\ peer_registry \subseteq Offer
  /\ bridge \in [Offer -> {"none", "starting", "running", "ended", "aborted"}]
  /\ peer \in [Offer -> {"none", "new", "disconnected", "dead"}]
  /\ relay \in [Offer -> BOOLEAN]
  /\ rtc_sink \in [RtcBrowser -> Offer \cup {NoOffer}]
  /\ rtc_active \in [RtcBrowser -> BOOLEAN]
  /\ disconnects \in [Offer -> 0..MaxDisconnects] /\ opened \subseteq Offer

\* rtc.rs:316 ("it removes the RTC transport from the wrong session"): sinks and
\* relays are those of the session's own browser and of a bridge that ran.
SinkOfOwnBrowser ==
  /\ \A b \in RtcBrowser : rtc_sink[b] # NoOffer =>
       origin[rtc_sink[b]] = b /\ bridge[rtc_sink[b]] \in {"running", "aborted"}
  /\ \A o \in Offer : relay[o] => bridge[o] \in {"running", "aborted"}

=============================================================================
