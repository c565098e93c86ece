----------------------------- MODULE ResumeLink -----------------------------
(***************************************************************************)
(* The daemon's channel to one browser across WebSocket reconnects.  The   *)
(* daemon keeps the session, with its send buffer, while the browser is    *)
(* away (SessionManager::reconnect_or_create); the browser forgets its     *)
(* sequence numbers on every WebSocket open and again on the init message. *)
(* Each side sends a Resume, and the daemon's handler goes through the     *)
(* steps of handle_terminal_ws in order, while the event consumer of the   *)
(* previous connection keeps on sending.                                   *)
(*                                                                         *)
(* One WebSocket is a pair of FIFO queues that a disconnect empties.  The  *)
(* browser hands nothing to this channel (it talks to the daemon in text   *)
(* messages), so the acks the daemon sends find an empty buffer and are    *)
(* left out.  Two handlers of one session at a time: see DaemonSession.    *)
(***************************************************************************)
EXTENDS ReliableChannel

CONSTANTS
  Browser, Daemon,
  SendPriority,     \* the priorities of what the event consumer sends
  QuietReconnect,   \* BOOLEAN: no event occurs from a disconnect to the Resume
  MaxConnections    \* bound: WebSockets the browser opens

ASSUME EndsAssumption == Browser # Daemon /\ Peer = {Browser, Daemon}
ASSUME PriorityAssumption == SendPriority \subseteq Priority
ASSUME QuietAssumption == QuietReconnect \in BOOLEAN
ASSUME MaxConnectionsAssumption == MaxConnections \in Nat

VARIABLES
  handler,      \* the next step of the daemon's WebSocket handler
  gate_open,    \* resume_gate: a binary frame of this browser was processed
  consumer,     \* the event consumer: none yet, held at the gate, sending
  wire,         \* [Peer -> sequence of frames under way to that end]
  connections   \* WebSockets opened so far

linkVars == <<handler, gate_open, consumer, connections>>
vars == <<channelVars, linkVars, wire>>

InitFrame == [type |-> "init"]

\* The numbers S as the send buffer is walked, front to back: number i of the
\* walk is the one with i numbers of S up to it.
Ascending(S) ==
  [i \in 1 .. Cardinality(S) |->
     CHOOSE s \in S : Cardinality({t \in S : t <= s}) = i]

\* Frames of p's buffer with sequence numbers S, in order.
InOrder(buf, S) ==
  LET order == Ascending(S) IN
  [i \in DOMAIN order |-> DataFrame(order[i], buf[order[i]])]

\* The daemon's sink exists from add_transport to remove_transport; without
\* one a frame is dropped, and stays in the send buffer.
Attached == handler \in {"resume", "drain", "loop"}
Transmit(frames) == IF Attached THEN wire[Browser] \o frames ELSE wire[Browser]

----------------------------------------------------------------------------
(* Resume *)

\* handle_resume of channel.rs: the state it leaves and the frames it sends.
\* A Resume ahead of next_seq restarts the numbering after it.  A Resume the
\* buffer cannot serve from its next frame on restarts the numbering too, and
\* gives the Critical frames new numbers.  Either way the Critical frames the
\* buffer then holds beyond the Resume are replayed.
IsGap(buf, a) == \E s \in DOMAIN buf : \A t \in DOMAIN buf : s <= t /\ s > a + 1

\* Mutant: the restart clears the buffer, as for a Resume that is ahead.
KeepNothing(buf) == <<>>

\* Mutant: the frames kept are numbered from the newest.
CriticalEntriesReversed(buf) ==
  LET order == Ascending({s \in DOMAIN buf : buf[s].priority = "Critical"})
  IN  [i \in DOMAIN order |-> buf[order[Len(order) + 1 - i]]]

CriticalEntries(buf) ==
  LET order == Ascending({s \in DOMAIN buf : buf[s].priority = "Critical"})
  IN  [i \in DOMAIN order |-> buf[order[i]]]

DaemonHandleResume(a) ==
  LET buf     == send_buffer[Daemon]
      ahead   == a >= next_seq[Daemon]
      gap     == ~ahead /\ IsGap(buf, a)
      kept    == CriticalEntries(buf)
      renewed == CASE ahead -> <<>>
                   [] gap -> Push(<<>>, a + 1, kept, a)
                   [] OTHER -> buf
      resent  == IF gap
                 THEN [i \in DOMAIN kept |-> DataFrame(a + i, kept[i])]
                 ELSE <<>>
  IN  /\ last_ack_received' = [last_ack_received EXCEPT ![Daemon] = a]
      /\ next_seq' = [next_seq EXCEPT
           ![Daemon] = CASE ahead -> a + 1 [] gap -> a + 1 + Len(kept) [] OTHER -> @]
      /\ send_buffer' = [send_buffer EXCEPT ![Daemon] = DropAcked(renewed, a)]
      /\ last_contiguous' = [last_contiguous EXCEPT
           ![Daemon] = CASE ahead -> 0 [] gap -> a [] OTHER -> @]
      /\ reorder_buffer' = [reorder_buffer EXCEPT
           ![Daemon] = IF ahead \/ gap THEN <<>> ELSE @]
      /\ wire' = [wire EXCEPT
           ![Daemon] = Tail(@),
           ![Browser] = @ \o resent \o InOrder(renewed, Replayable(renewed, a))]
      /\ UNCHANGED <<duplicate_ack_count, ack_pending, chunk_assembly, histVars>>

\* _handleResume of reliable.js, for an end whose send buffer is empty: the
\* numbering restarts at the Resume, and so does the inbound side.
BrowserHandleResume(a) ==
  /\ last_ack_received' = [last_ack_received EXCEPT ![Browser] = a]
  /\ last_contiguous' = [last_contiguous EXCEPT
                           ![Browser] = IF a >= next_seq[Browser] THEN 0 ELSE a]
  /\ next_seq' = [next_seq EXCEPT ![Browser] = a + 1]
  /\ reorder_buffer' = [reorder_buffer EXCEPT ![Browser] = <<>>]
  /\ UNCHANGED <<send_buffer, duplicate_ack_count, ack_pending, chunk_assembly,
                 histVars>>

----------------------------------------------------------------------------
(* The browser *)

BrowserForget ==
  /\ next_seq' = [next_seq EXCEPT ![Browser] = 1]
  /\ send_buffer' = [send_buffer EXCEPT ![Browser] = <<>>]
  /\ last_ack_received' = [last_ack_received EXCEPT ![Browser] = 0]
  /\ last_contiguous' = [last_contiguous EXCEPT ![Browser] = 0]
  /\ reorder_buffer' = [reorder_buffer EXCEPT ![Browser] = <<>>]

\* _onTransportOpen("ws"): the numbering is forgotten, the chunk assembly and
\* a pending ack are not; a Resume goes out.
BrowserOpen ==
  /\ handler = "none"
  /\ connections < MaxConnections
  /\ connections' = connections + 1
  /\ handler' = "attach"
  /\ gate_open' = FALSE
  /\ BrowserForget
  /\ wire' = [wire EXCEPT ![Daemon] = <<ResumeFrame(0)>>]
  /\ UNCHANGED <<duplicate_ack_count, ack_pending, chunk_assembly, histVars,
                 consumer>>

\* The init message: reset().
BrowserReset ==
  /\ BrowserForget
  /\ ack_pending' = [ack_pending EXCEPT ![Browser] = FALSE]
  /\ chunk_assembly' = [chunk_assembly EXCEPT ![Browser] = <<>>]
  /\ UNCHANGED <<duplicate_ack_count, histVars>>

BrowserReceive ==
  /\ wire[Browser] # <<>>
  /\ LET f == Head(wire[Browser]) IN
       \/ f.type = "init" /\ BrowserReset
       \/ f.type = "resume" /\ BrowserHandleResume(f.ack_seq)
       \/ f.type = "data" /\ ReceiveData(Browser, f.seq, f.entry)
  /\ wire' = [wire EXCEPT ![Browser] = Tail(@)]
  /\ UNCHANGED linkVars

BrowserTick ==
  /\ Tick(Browser)
  /\ wire' = [wire EXCEPT
                ![Daemon] = IF handler = "none" THEN @
                            ELSE Append(@, AckFrame(last_contiguous[Browser]))]
  /\ UNCHANGED linkVars

----------------------------------------------------------------------------
(* The daemon *)

\* The event consumer hands a message to the bridge, which sends it.
EventSent ==
  /\ consumer = "running"
  /\ QuietReconnect => handler = "loop" /\ gate_open
  /\ \E n \in 1 .. MaxChunks, pri \in SendPriority :
       /\ Send(Daemon, n, pri)
       /\ LET es == MessageEntries(Daemon, n, pri) IN
          wire' = [wire EXCEPT ![Browser] =
                     Transmit([i \in 1 .. n |->
                                 DataFrame(next_seq[Daemon] + i - 1, es[i])])]
  /\ UNCHANGED linkVars

\* The init message, then add_transport and its flush of the send buffer.
Attach ==
  /\ handler = "attach"
  /\ handler' = "resume"
  /\ wire' = [wire EXCEPT ![Browser] =
                <<InitFrame>> \o InOrder(send_buffer[Daemon], FlushReplay(Daemon))]
  /\ UNCHANGED <<channelVars, gate_open, consumer, connections>>

SendResume ==
  /\ handler = "resume"
  /\ handler' = "drain"
  /\ wire' = [wire EXCEPT
                ![Browser] = Append(@, ResumeFrame(last_contiguous[Daemon]))]
  /\ UNCHANGED <<channelVars, gate_open, consumer, connections>>

\* The frames that arrived during authentication are processed before the new
\* event consumer replaces the old one, the others by the read loop after it.
\* The first one of them opens the gate.
DaemonReceive ==
  /\ handler \in {"drain", "loop"}
  /\ wire[Daemon] # <<>>
  /\ LET f == Head(wire[Daemon]) IN
       \/ /\ f.type = "resume"
          /\ DaemonHandleResume(f.ack_seq)
       \/ /\ f.type = "ack"
          /\ ReceiveAck(Daemon, f.ack_seq)
          /\ wire' = [wire EXCEPT
               ![Daemon] = Tail(@),
               ![Browser] = @ \o InOrder(send_buffer[Daemon],
                                         AckReplay(Daemon, f.ack_seq))]
  /\ gate_open' = TRUE
  /\ consumer' = IF handler = "loop" THEN "running" ELSE consumer
  /\ UNCHANGED <<handler, connections>>

\* set_event_task: the old consumer is aborted, the new one waits at the gate.
StartConsumer ==
  /\ handler = "drain"
  /\ handler' = "loop"
  /\ consumer' = IF gate_open THEN "running" ELSE "gated"
  /\ UNCHANGED <<channelVars, wire, gate_open, connections>>

\* Five seconds without a frame from the browser.
GateTimeout ==
  /\ consumer = "gated"
  /\ consumer' = "running"
  /\ UNCHANGED <<channelVars, wire, handler, gate_open, connections>>

----------------------------------------------------------------------------
(* The connection *)

\* The WebSocket closes: both queues are lost, the sink is removed, a consumer
\* still at the gate sees it dropped and goes on.
Disconnect ==
  /\ handler # "none"
  /\ handler' = "none"
  /\ consumer' = IF consumer = "gated" THEN "running" ELSE consumer
  /\ wire' = [p \in Peer |-> <<>>]
  /\ UNCHANGED <<channelVars, gate_open, connections>>

Init ==
  /\ ChannelInit
  /\ handler = "none"
  /\ gate_open = FALSE
  /\ consumer = "none"
  /\ wire = [p \in Peer |-> <<>>]
  /\ connections = 0

Next ==
  \/ BrowserOpen \/ BrowserReceive \/ BrowserTick
  \/ EventSent \/ Attach \/ SendResume \/ DaemonReceive \/ StartConsumer
  \/ GateTimeout \/ Disconnect

Spec == Init /\ [][Next]_vars

----------------------------------------------------------------------------
(* Properties *)

Frame == DataFrames \cup AckFrames \cup ResumeFrames \cup {InitFrame}

\* The type invariant.
TypeOK ==
  /\ SendTypeOK
  /\ ReceiveTypeOK
  /\ HistoryTypeOK
  /\ handler \in {"none", "attach", "resume", "drain", "loop"}
  /\ gate_open \in BOOLEAN
  /\ consumer \in {"none", "gated", "running"}
  /\ wire \in [Peer -> Seq(Frame)]
  /\ connections \in 0 .. MaxConnections

\* The data the browser's application has been given, over all connections.
Seen == {accepted[Browser][i].data : i \in DOMAIN accepted[Browser]}

Buffered == {send_buffer[Daemon][s].data : s \in DOMAIN send_buffer[Daemon]}

IsCritical(d) == log[Daemon][d].priority = "Critical"

\* A Critical frame is never lost to a reconnect: the browser has been given
\* it, or the daemon can still replay it.
CriticalKept ==
  \A d \in 1 .. Len(log[Daemon]) : IsCritical(d) => d \in Seen \cup Buffered

\* Whatever is renumbered or replayed, the browser is given nothing before
\* the Critical frames handed over earlier.
NoCriticalSkipped ==
  \A d \in Seen : \A c \in 1 .. d - 1 : IsCritical(c) => c \in Seen

\* An ack, under way or processed, is of a number the daemon has given out:
\* no frame it sends later is taken for acknowledged.
AckNotAhead ==
  /\ last_ack_received[Daemon] < next_seq[Daemon]
  /\ \A i \in DOMAIN wire[Daemon] : wire[Daemon][i].ack_seq < next_seq[Daemon]

=============================================================================
