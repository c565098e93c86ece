---------------------------- MODULE DaemonProxy ----------------------------
(***************************************************************************)
(* A browser that reaches the daemon through the server: run_daemon_session *)
(* of crates/b3-cli/src/daemon/ec2_proxy.rs on the dialed-back connection  *)
(* (ControlTunnel).  Terminal output goes from the event broadcast through *)
(* the encrypted channel; keystrokes go through a local /ws-proxy socket   *)
(* whose other end is handle_terminal_ws of daemon/web.rs; HTTP requests   *)
(* are made by tasks of their own.                                         *)
(*                                                                         *)
(* handle_terminal_ws does not know that its output is unwanted: what the  *)
(* session's channel, the heartbeat and the pings write to the local       *)
(* socket piles up there, for the proxy dropped the reading half.          *)
(*                                                                         *)
(* The terminal is counted in units of output.  The channel delivers what  *)
(* is sent on it in order (LossyLink); a frame its full queue drops leaves *)
(* a gap behind which it stands still.                                     *)
(***************************************************************************)
EXTENDS Naturals, Sequences, FiniteSets, SequencesExt

CONSTANTS
  MaxWritten,   \* bound: units of terminal output
  MaxKept,      \* MAX_BUFFER_BYTES, in units
  MaxChatter,   \* bound: other events
  EventSlots,   \* capacity of the event broadcast
  MaxKeys,      \* bound: keystrokes
  HttpRequest,  \* bound: the requests ever made
  MaxHandshakes, \* bound: browsers on one connection
  MsgSlots,     \* capacity of msg_tx
  SocketSlots,  \* what the local socket takes that nobody reads
  QueueDrops    \* whether the queue to the server may be full

ASSUME DaemonProxyAssumption ==
  /\ MaxWritten \in Nat /\ MaxKept \in Nat \ {0} /\ EventSlots \in Nat \ {0}
  /\ MaxChatter \in Nat
  /\ MaxKeys \in Nat /\ MaxHandshakes \in Nat \ {0}
  /\ MsgSlots \in Nat \ {0} /\ SocketSlots \in Nat /\ QueueDrops \in BOOLEAN

VARIABLES
  written, announced,  \* units in the SessionStore, and announced in events
  chatter,             \* how many other events there were
  events, lagged,      \* the session's broadcast receiver; whether it was overrun
  dpc, inbound,        \* the session task: next step, frame it handles
  from_browser,        \* frames of the browser: handshakes, keys and requests
  handshakes, typed,   \* how many of them there were
  proxy_ready,         \* EncryptedChannelState::Ready
  sent_offset,
  shown,               \* the snapshots and deltas the browser applied
  gap,                 \* a frame of the channel was dropped for good
  local_ws_tx,         \* the writing half of /ws-proxy: "none", "open" or "broken"
  local_in,            \* keystrokes in the local socket
  local_out, msg_tx,   \* output in the local socket, and queued before it
  hloop,               \* the loop of handle_terminal_ws: "select", "ping" or "done"
  pty,                 \* keystrokes written to the terminal
  http                 \* of a request: "none", "asked", "pending", "answered" or "dropped"

outputVars == <<written, announced, chatter, events, lagged>>
taskVars == <<dpc, inbound>>
fromBrowserVars == <<from_browser, handshakes, typed>>
screenVars == <<proxy_ready, sent_offset, shown, gap>>
localVars == <<local_ws_tx, local_in, local_out, msg_tx, hloop, pty>>
proxyVars == <<outputVars, taskVars, fromBrowserVars, screenVars, localVars, http>>

Handshake == [kind |-> "handshake"]
Key(n) == [kind |-> "key", n |-> n]
Http(r) == [kind |-> "http", r |-> r]

StepAt(here, next) == dpc = here /\ dpc' = next

----------------------------------------------------------------------------
(* Terminal output: spawn_local_pusher, and the event arm of the session *)

Write ==
  /\ written < MaxWritten /\ written = announced
  /\ written' = written + 1
  /\ UNCHANGED <<announced, chatter, events, lagged, taskVars, fromBrowserVars, screenVars,
                 localVars, http>>

\* The broadcast overwrites the oldest event of a receiver that is behind.
Broadcast(e) ==
  IF Len(events) < EventSlots THEN events' = Append(events, e) /\ UNCHANGED lagged
  ELSE events' = Append(Tail(events), e) /\ lagged' = TRUE

\* The session of the local socket hears of it too and, its gate timed out,
\* writes a delta, or drops it when msg_tx is full.
Announce ==
  /\ announced < written
  /\ announced' = written
  /\ Broadcast("update")
  /\ msg_tx' = IF hloop # "done" /\ local_ws_tx # "none" /\ msg_tx < MsgSlots
               THEN msg_tx + 1 ELSE msg_tx
  /\ UNCHANGED <<written, chatter, taskVars, fromBrowserVars, screenVars, local_ws_tx,
                 local_in, local_out, hloop, pty, http>>

\* Speech, notifications, evals and the like.
OtherEvent ==
  /\ chatter < MaxChatter /\ chatter' = chatter + 1
  /\ Broadcast("other")
  /\ UNCHANGED <<written, announced, taskVars, fromBrowserVars, screenVars, localVars, http>>

\* enc.send: on to the browser, or into a full queue.
Show(f) ==
  \/ shown' = (IF gap THEN shown ELSE Append(shown, f)) /\ UNCHANGED gap
  \/ QueueDrops /\ f.kind # "init" /\ gap' = TRUE /\ UNCHANGED shown

\* delta_msg: the new units, or a snapshot when the store has not kept them.
\* MAX_DELTA_CAP is as large as the store, so neither is cut short.
SendDelta ==
  IF written <= sent_offset THEN UNCHANGED <<sent_offset, shown, gap>>
  ELSE LET kept == IF written < MaxKept THEN written ELSE MaxKept
           full == written - sent_offset > kept
       IN /\ Show([kind |-> IF full THEN "full" ELSE "delta",
                   from |-> IF full THEN written - kept ELSE sent_offset,
                   to |-> written])
          /\ sent_offset' = written

\* Mutant: a lag is only logged.
LagSkips == UNCHANGED <<sent_offset, shown, gap>>

\* What was overwritten is made good by one delta.
LagCatchesUp == SendDelta

\* Events before the handshake are read and dropped.
TakeEvent ==
  /\ dpc = "select" /\ (lagged \/ events # <<>>)
  /\ IF lagged THEN lagged' = FALSE /\ UNCHANGED events
               ELSE events' = Tail(events) /\ UNCHANGED lagged
  /\ IF proxy_ready /\ lagged THEN LagCatchesUp
     ELSE IF proxy_ready /\ Head(events) = "update" THEN SendDelta
     ELSE UNCHANGED <<sent_offset, shown, gap>>
  /\ UNCHANGED <<written, announced, chatter, taskVars, fromBrowserVars, proxy_ready,
                 localVars, http>>

----------------------------------------------------------------------------
(* Frames of the browser: handle_ec2_frame *)

TakeInbound ==
  /\ dpc = "select" /\ from_browser # <<>>
  /\ inbound' = Head(from_browser) /\ from_browser' = Tail(from_browser)
  /\ dpc' = inbound'.kind
  /\ UNCHANGED <<outputVars, handshakes, typed, screenVars, localVars, http>>

\* A handshake while ready is a new browser: reset_for_reconnect.  The local
\* socket is closed, and its handler ends.
HandshakeResets ==
  /\ dpc = "handshake" /\ proxy_ready
  /\ proxy_ready' = FALSE /\ gap' = FALSE /\ shown' = <<>>
  /\ local_ws_tx' = "none" /\ local_in' = <<>> /\ local_out' = 0 /\ msg_tx' = 0
  /\ hloop' = "done"
  /\ UNCHANGED <<outputVars, taskVars, fromBrowserVars, sent_offset, pty, http>>

\* /ws-proxy opens, with a handler of its own; then the keys and handshake_ok.
HandshakeConnects ==
  /\ ~proxy_ready /\ StepAt("handshake", "init")
  /\ local_ws_tx' = "open" /\ hloop' = "select"
  /\ local_in' = <<>> /\ local_out' = 0 /\ msg_tx' = 0
  /\ proxy_ready' = TRUE
  /\ UNCHANGED <<outputVars, inbound, fromBrowserVars, sent_offset, shown, gap, pty, http>>

HandshakeFails ==
  /\ ~proxy_ready /\ StepAt("handshake", "select")
  /\ UNCHANGED <<outputVars, inbound, fromBrowserVars, screenVars, localVars, http>>

\* Mutant: the offset of the snapshot is not noted.
InitLeavesOffset == UNCHANGED sent_offset

InitSetsOffset == sent_offset' = written

\* send_init_frame: a snapshot, if there is anything yet.
SendInitFrame ==
  /\ StepAt("init", "select")
  /\ IF written = 0 THEN UNCHANGED <<sent_offset, shown, gap>>
     ELSE /\ Show([kind |-> "init",
                   from |-> IF written < MaxKept THEN 0 ELSE written - MaxKept,
                   to |-> written])
          /\ InitSetsOffset
  /\ UNCHANGED <<outputVars, inbound, fromBrowserVars, proxy_ready, localVars, http>>

\* A keystroke goes to the local socket; if that broke, it is dropped, with the
\* socket, and the session goes on without.
ForwardKey ==
  /\ StepAt("key", "select")
  /\ local_in' = IF proxy_ready /\ local_ws_tx = "open"
                 THEN Append(local_in, inbound.n) ELSE local_in
  /\ local_ws_tx' = IF proxy_ready /\ local_ws_tx = "broken" THEN "none" ELSE local_ws_tx
  /\ UNCHANGED <<outputVars, inbound, fromBrowserVars, screenVars, local_out, msg_tx,
                 hloop, pty, http>>

\* The request is made by a task, or refused with a response of our own.
StartHttp(r) == http' = [http EXCEPT ![r] = "pending"]

HttpOverWs ==
  /\ StepAt("http", "select")
  /\ IF proxy_ready THEN StartHttp(inbound.r)
                    ELSE http' = [http EXCEPT ![inbound.r] = "dropped"]
  /\ UNCHANGED <<outputVars, inbound, fromBrowserVars, screenVars, localVars>>

\* http_resp_rx: the response goes out, if there is a browser.
HttpResponse(r) ==
  /\ dpc = "select" /\ http[r] = "pending"
  /\ http' = [http EXCEPT ![r] = IF proxy_ready THEN "answered" ELSE "dropped"]
  /\ UNCHANGED <<outputVars, taskVars, fromBrowserVars, screenVars, localVars>>

----------------------------------------------------------------------------
(* The other end of the local socket: handle_terminal_ws *)

\* ws_send_task writes until the socket is full.
LocalSend ==
  /\ hloop # "done" /\ msg_tx > 0 /\ local_out < SocketSlots
  /\ msg_tx' = msg_tx - 1 /\ local_out' = local_out + 1
  /\ UNCHANGED <<outputVars, taskVars, fromBrowserVars, screenVars, local_ws_tx, local_in,
                 hloop, pty, http>>

\* The heartbeat task waits for room in msg_tx.
LocalHeartbeat ==
  /\ hloop # "done" /\ msg_tx < MsgSlots
  /\ msg_tx' = msg_tx + 1
  /\ UNCHANGED <<outputVars, taskVars, fromBrowserVars, screenVars, local_ws_tx, local_in,
                 local_out,
                 hloop, pty, http>>

\* The loop itself sends a ping every 30 s, and awaits room for it.
LocalPing ==
  /\ hloop = "select" /\ hloop' = "ping"
  /\ UNCHANGED <<outputVars, taskVars, fromBrowserVars, screenVars, local_ws_tx, local_in,
                 local_out,
                 msg_tx, pty, http>>

LocalPinged ==
  /\ hloop = "ping" /\ msg_tx < MsgSlots
  /\ hloop' = "select" /\ msg_tx' = msg_tx + 1
  /\ UNCHANGED <<outputVars, taskVars, fromBrowserVars, screenVars, local_ws_tx, local_in,
                 local_out,
                 pty, http>>

\* Keystrokes are read one after the other.
NextKey == {1} \cap DOMAIN local_in

LocalRead ==
  /\ hloop = "select"
  /\ \E i \in NextKey :
       /\ pty' = Append(pty, local_in[i])
       /\ local_in' = RemoveAt(local_in, i)
  /\ UNCHANGED <<outputVars, taskVars, fromBrowserVars, screenVars, local_ws_tx, local_out,
                 msg_tx,
                 hloop, http>>

\* The handler's connection ends under it.
LocalBreaks ==
  /\ hloop # "done" /\ local_ws_tx = "open"
  /\ hloop' = "done" /\ local_ws_tx' = "broken"
  /\ local_in' = <<>> /\ local_out' = 0 /\ msg_tx' = 0
  /\ UNCHANGED <<outputVars, taskVars, fromBrowserVars, screenVars, pty, http>>

----------------------------------------------------------------------------
(* The browser, and the end *)

BrowserHandshakes ==
  /\ handshakes < MaxHandshakes /\ handshakes' = handshakes + 1
  /\ from_browser' = Append(from_browser, Handshake)
  /\ UNCHANGED <<outputVars, taskVars, typed, screenVars, localVars, http>>

\* The browser types and asks once it has its handshake_ok.
BrowserTypes ==
  /\ proxy_ready /\ typed < MaxKeys /\ typed' = typed + 1
  /\ from_browser' = Append(from_browser, Key(typed + 1))
  /\ UNCHANGED <<outputVars, taskVars, handshakes, screenVars, localVars, http>>

BrowserAsks(r) ==
  /\ proxy_ready /\ http[r] = "none"
  /\ http' = [http EXCEPT ![r] = "asked"]
  /\ from_browser' = Append(from_browser, Http(r))
  /\ UNCHANGED <<outputVars, taskVars, handshakes, typed, screenVars, localVars>>

ProxyInit ==
  /\ written = 0 /\ announced = 0 /\ chatter = 0 /\ events = <<>> /\ lagged = FALSE
  /\ dpc = "select" /\ inbound = Handshake
  /\ from_browser = <<>> /\ handshakes = 0 /\ typed = 0
  /\ proxy_ready = FALSE /\ sent_offset = 0 /\ shown = <<>> /\ gap = FALSE
  /\ local_ws_tx = "none" /\ local_in = <<>> /\ local_out = 0 /\ msg_tx = 0
  /\ hloop = "done" /\ pty = <<>>
  /\ http = [r \in HttpRequest |-> "none"]

\* The arms of the session task.  A handshake always gets an end, by
\* connecting or by failing.
SessionArm ==
  TakeEvent \/ TakeInbound \/ HandshakeResets \/ HandshakeConnects \/ HandshakeFails
    \/ SendInitFrame \/ ForwardKey \/ HttpOverWs

ProxyNext ==
  \/ Write \/ Announce \/ OtherEvent \/ SessionArm
  \/ \E r \in HttpRequest : HttpResponse(r) \/ BrowserAsks(r)
  \/ LocalSend \/ LocalHeartbeat \/ LocalPing \/ LocalPinged \/ LocalRead \/ LocalBreaks
  \/ BrowserHandshakes \/ BrowserTypes

ProxySpec == ProxyInit /\ [][ProxyNext]_proxyVars

----------------------------------------------------------------------------
(* Properties *)

\* The type invariant.
ProxyTypeOK ==
  /\ written \in 0..MaxWritten /\ announced \in 0..written
  /\ events \in Seq({"update", "other"}) /\ Len(events) <= EventSlots /\ lagged \in BOOLEAN
  /\ dpc \in {"select", "handshake", "init", "key", "http"}
  /\ handshakes \in 0..MaxHandshakes /\ typed \in 0..MaxKeys
  /\ proxy_ready \in BOOLEAN /\ sent_offset \in 0..written /\ gap \in BOOLEAN
  /\ local_ws_tx \in {"none", "open", "broken"}
  /\ local_in \in Seq(1..MaxKeys) /\ pty \in Seq(1..MaxKeys)
  /\ local_out \in 0..SocketSlots /\ msg_tx \in 0..MsgSlots
  /\ hloop \in {"select", "ping", "done"}
  /\ http \in [HttpRequest -> {"none", "asked", "pending", "answered", "dropped"}]

\* What a browser shows starts with all the store kept, or with the first unit,
\* and every delta starts where the last one ended, through lags, browsers that
\* take over a session, and output written at any moment.
ProxiedScreenWhole ==
  \A i \in DOMAIN shown :
    \/ shown[i].kind \in {"init", "full"}
    \/ shown[i].from = (IF i = 1 THEN 0 ELSE shown[i - 1].to)

\* Output is handed to the channel, or the browser goes away.
ProxiedOutputSent ==
  \A n \in 1..MaxWritten :
    (proxy_ready /\ written >= n) ~> (~proxy_ready \/ sent_offset >= n)

\* ec2_proxy.rs:38 ("/ws-proxy connection used ONLY for input"): a keystroke the
\* local socket took is read, while its handler lives.
KeysAreRead ==
  \A n \in 1..MaxKeys :
    n \in ToSet(local_in) ~> n \notin ToSet(local_in)

=============================================================================
