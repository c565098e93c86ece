--------------------------- MODULE ControlTunnel ---------------------------
(***************************************************************************)
(* The control connections of a machine behind NAT: run_tunnel_client of   *)
(* crates/b3-tunnel and the registration loops around it, the daemon's for *)
(* its primary server and for every peer (daemon/ec2_proxy.rs), and the    *)
(* GPU relay's for its one server (b3-gpu-relay/src/main.rs).  A server    *)
(* asks for a session over a control connection; the session itself runs   *)
(* on a connection of its own (DaemonProxy, GpuSession).                   *)
(*                                                                         *)
(* Whenever the daemon's manager has registered with the primary it ends   *)
(* the peer loops and spawns fresh ones.  Delays and their backoff are     *)
(* left out: they bound a rate, not an order.                              *)
(***************************************************************************)
EXTENDS Naturals, FiniteSets

CONSTANTS
  Peer,       \* the daemon's servers but the primary
  Request,    \* bound: the sessions ever asked for
  MaxFaults   \* bound: connections that fail, break or fall silent

ASSUME ControlTunnelAssumption ==
  MaxFaults \in Nat /\ "primary" \notin Peer /\ "relay" \notin Peer

\* A registration loop: its server, and for a peer which spawning it is of.
Spawning == 1..(MaxFaults + 1)
Primary == [server |-> "primary", spawning |-> 0]
Relay == [server |-> "relay", spawning |-> 0]
PeerLoop == [server : Peer, spawning : Spawning]
Loop == PeerLoop \cup {Primary, Relay}

VARIABLES
  lpc,            \* of a loop: next step
  control,        \* its control connection: "none", "up", "silent" or "closed"
  pong_late,      \* no sign of life for longer than pong_timeout
  spawnings,      \* how often the manager spawned the peer loops
  ec2_registered, \* of the relay: what /health reports
  dialing,        \* of a request: "none", "dialing", "session" or "failed"
  faults

tunnelVars == <<lpc, control, pong_late, spawnings, ec2_registered, dialing, faults>>

Fault == faults < MaxFaults /\ faults' = faults + 1

Flag(l, value) == ec2_registered' = IF l = Relay THEN value ELSE ec2_registered

\* The loop starts over; its connection is dropped.
Again(l) ==
  /\ lpc' = [lpc EXCEPT ![l] = "top"]
  /\ control' = [control EXCEPT ![l] = "none"]
  /\ pong_late' = [pong_late EXCEPT ![l] = FALSE]

----------------------------------------------------------------------------
(* The registration loops *)

\* A loop whose watch sender is gone ends here, and only here.
LoopTop(l) ==
  /\ lpc[l] = "top"
  /\ lpc' = [lpc EXCEPT ![l] = IF l \in PeerLoop /\ l.spawning < spawnings
                               THEN "ended" ELSE "connecting"]
  /\ UNCHANGED <<control, pong_late, spawnings, ec2_registered, dialing, faults>>

Connect(l) ==
  /\ lpc[l] = "connecting"
  /\ lpc' = [lpc EXCEPT ![l] = "registering"]
  /\ control' = [control EXCEPT ![l] = "up"]
  /\ Flag(l, TRUE)
  /\ UNCHANGED <<pong_late, spawnings, dialing, faults>>

ConnectFails(l) ==
  /\ lpc[l] = "connecting" /\ Fault
  /\ lpc' = [lpc EXCEPT ![l] = "top"]
  /\ UNCHANGED <<control, pong_late, spawnings, ec2_registered, dialing>>

\* The register frame fails: `continue`, which leaves the relay's flag set.
RegisterFails(l) ==
  /\ lpc[l] = "registering" /\ control[l] = "closed"
  /\ Again(l)
  /\ UNCHANGED <<spawnings, ec2_registered, dialing, faults>>

\* Mutant: the watch sender is dropped, the handles are not aborted.
EndedLoopsSignalled(l) == {k \in PeerLoop : l = Primary /\ lpc[k] = "top"}

\* The loops that end when l has registered: abort reaches a peer loop at
\* whatever await it is.
EndedLoops(l) == {k \in PeerLoop : l = Primary /\ lpc[k] \notin {"none", "ended"}}

FreshLoops(l) == {k \in PeerLoop : l = Primary /\ k.spawning = spawnings + 1}

\* A dial-back is a task of its own: no loop takes it along.
DialsAfter(L) == dialing

\* The frame is sent; over a connection that broke it may seem to be.  The
\* daemon's manager then replaces the peer loops and enters its control loop.
Register(l) ==
  /\ lpc[l] = "registering"
  /\ lpc' = [k \in Loop |-> IF k = l THEN "serving"
                            ELSE IF k \in EndedLoops(l) THEN "ended"
                            ELSE IF k \in FreshLoops(l) THEN "top" ELSE lpc[k]]
  /\ control' = [k \in Loop |-> IF k \in EndedLoops(l) THEN "none" ELSE control[k]]
  /\ pong_late' = [k \in Loop |-> pong_late[k] /\ k \notin EndedLoops(l)]
  /\ spawnings' = IF l = Primary THEN spawnings + 1 ELSE spawnings
  /\ dialing' = DialsAfter(EndedLoops(l))
  /\ UNCHANGED <<ec2_registered, faults>>

----------------------------------------------------------------------------
(* run_tunnel_client *)

\* A ping or a pong of the server.
HearServer(l) ==
  /\ lpc[l] = "serving" /\ control[l] = "up" /\ pong_late[l]
  /\ pong_late' = [pong_late EXCEPT ![l] = FALSE]
  /\ UNCHANGED <<lpc, control, spawnings, ec2_registered, dialing, faults>>

\* Time passes without either.
PongTimeout(l) ==
  /\ lpc[l] = "serving" /\ control[l] = "silent" /\ ~pong_late[l]
  /\ pong_late' = [pong_late EXCEPT ![l] = TRUE]
  /\ UNCHANGED <<lpc, control, spawnings, ec2_registered, dialing, faults>>

\* Mutant: what we send ourselves counts as a sign of life.
GivesUpAtClose(l) == control[l] = "closed"

\* The control loop returns: the connection closed, or ping_tick finds the
\* pongs late or cannot send.
GivesUp(l) == control[l] = "closed" \/ pong_late[l]

ControlEnds(l) ==
  /\ lpc[l] = "serving" /\ GivesUp(l)
  /\ Again(l)
  /\ Flag(l, FALSE)
  /\ UNCHANGED <<spawnings, dialing, faults>>

\* A session_request: the dial-back is spawned, the loop goes on.
SessionRequest(l, r) ==
  /\ lpc[l] = "serving" /\ control[l] = "up" /\ dialing[r] = "none"
  /\ dialing' = [dialing EXCEPT ![r] = "dialing"]
  /\ UNCHANGED <<lpc, control, pong_late, spawnings, ec2_registered, faults>>

\* The dial-back connects and hands over to the session, or fails, after 10 s
\* at the latest.
DialBack(r) ==
  /\ dialing[r] = "dialing"
  /\ \E d \in {"session", "failed"} : dialing' = [dialing EXCEPT ![r] = d]
  /\ UNCHANGED <<lpc, control, pong_late, spawnings, ec2_registered, faults>>

----------------------------------------------------------------------------
(* The network *)

ControlBreaks(l) ==
  /\ control[l] = "up" /\ Fault
  /\ \E s \in {"silent", "closed"} : control' = [control EXCEPT ![l] = s]
  /\ UNCHANGED <<lpc, pong_late, spawnings, ec2_registered, dialing>>

ControlRecovers(l) ==
  /\ control[l] = "silent"
  /\ control' = [control EXCEPT ![l] = "up"]
  /\ UNCHANGED <<lpc, pong_late, spawnings, ec2_registered, dialing, faults>>

TunnelInit ==
  /\ lpc = [l \in Loop |-> IF l \in PeerLoop THEN "none" ELSE "top"]
  /\ control = [l \in Loop |-> "none"]
  /\ pong_late = [l \in Loop |-> FALSE]
  /\ spawnings = 0 /\ faults = 0
  /\ ec2_registered = FALSE
  /\ dialing = [r \in Request |-> "none"]

\* What a loop does by itself.
LoopRuns(l) ==
  LoopTop(l) \/ Connect(l) \/ RegisterFails(l) \/ Register(l) \/ HearServer(l)
    \/ PongTimeout(l) \/ ControlEnds(l)

TunnelNext ==
  \/ \E l \in Loop : LoopRuns(l) \/ ConnectFails(l) \/ ControlBreaks(l) \/ ControlRecovers(l)
  \/ \E l \in Loop, r \in Request : SessionRequest(l, r)
  \/ \E r \in Request : DialBack(r)

TunnelSpec == TunnelInit /\ [][TunnelNext]_tunnelVars

----------------------------------------------------------------------------
(* Properties *)

Live(l) == lpc[l] \notin {"none", "ended"}

\* The type invariant.
TunnelTypeOK ==
  /\ lpc \in [Loop -> {"none", "top", "connecting", "registering", "serving", "ended"}]
  /\ control \in [Loop -> {"none", "up", "silent", "closed"}]
  /\ pong_late \in [Loop -> BOOLEAN]
  /\ spawnings \in 0..(MaxFaults + 1)
  /\ ec2_registered \in BOOLEAN
  /\ dialing \in [Request -> {"none", "dialing", "session", "failed"}]
  /\ faults \in 0..MaxFaults

\* ec2_proxy.rs:172 ("a dropped JoinHandle detaches, not cancels"): no server
\* is ever registered with by two loops, however often the primary reconnects
\* and wherever the peer loops are waiting.
OneLoopPerServer ==
  \A k, l \in Loop : Live(k) /\ Live(l) /\ k.server = l.server => k = l

Serves(l) == lpc[l] = "serving" /\ control[l] = "up"

\* Outages end, also those no close announces: every server the machine is to
\* be registered with has a control connection that works, again and again.
ControlRestored ==
  \A s \in Peer \cup {"primary", "relay"} :
    []<>(\E l \in Loop : l.server = s /\ Serves(l))

=============================================================================
