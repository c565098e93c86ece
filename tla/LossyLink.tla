----------------------------- MODULE LossyLink -----------------------------
(***************************************************************************)
(* Two channel ends over the transports of one connection: a WebSocket     *)
(* and, when it is up, a WebRTC data channel.  A frame may be lost (a full *)
(* sink queue drops it, `try_send`; a closing transport takes its queue    *)
(* with it), may overtake another one (two transports; one tokio task per  *)
(* frame on the data channel) and may arrive more than once (a replay of a *)
(* frame that was not lost).  No Resume is exchanged: see ResumeLink.      *)
(*                                                                         *)
(* A Rust end is driven by the bridge of crates/b3-reliable/src/bridge.rs: *)
(* tick, and an unconditional ack on every transport each 5 s.  A browser  *)
(* end only ticks (its health interval calls tick, not a keepalive ack).   *)
(***************************************************************************)
EXTENDS ReliableChannel

CONSTANTS
  RustPeer,      \* the ends that run crates/b3-reliable (daemon, GPU relay)
  SendPriority   \* [Peer -> SUBSET Priority]: what each end's application sends

ASSUME RustPeerAssumption == RustPeer \subseteq Peer
ASSUME SendPriorityAssumption == SendPriority \in [Peer -> SUBSET Priority]

VARIABLE net   \* [Peer -> set of frames under way to that end]

vars == <<channelVars, net>>

\* What p puts on the wire: the frames S of its buffer.
Replay(p, S) == {DataFrame(s, send_buffer[p][s]) : s \in S}

\* A frame is taken off the wire, or stays there: a second copy was under way.
Arrival(q, f) == {net[q], net[q] \ {f}}

----------------------------------------------------------------------------

SendMessage(p) ==
  \E n \in 1 .. MaxChunks, pri \in SendPriority[p] :
    /\ Send(p, n, pri)
    /\ net' = [net EXCEPT ![Other(p)] = @ \cup
                 {DataFrame(next_seq[p] + i - 1, MessageEntries(p, n, pri)[i]) :
                    i \in 1 .. n}]

DeliverData(q, f) ==
  /\ f.type = "data"
  /\ ReceiveData(q, f.seq, f.entry)
  /\ \E rest \in Arrival(q, f) : net' = [net EXCEPT ![q] = rest]

DeliverAck(p, f) ==
  /\ f.type = "ack"
  /\ ReceiveAck(p, f.ack_seq)
  /\ \E rest \in Arrival(p, f) :
       net' = [net EXCEPT ![p] = rest,
                          ![Other(p)] = @ \cup Replay(p, AckReplay(p, f.ack_seq))]

\* Mutant: the ack names the newest frame seen, not the last one in order.
SendAckOfNewest(q) ==
  /\ Tick(q)
  /\ \E s \in DOMAIN reorder_buffer[q] \cup {last_contiguous[q]} :
       net' = [net EXCEPT ![Other(q)] = @ \cup {AckFrame(s)}]

SendAck(q) ==
  /\ Tick(q)
  /\ net' = [net EXCEPT ![Other(q)] = @ \cup {AckFrame(last_contiguous[q])}]

\* keepalive_all: an ack on every transport, data or no data.
Keepalive(q) ==
  /\ q \in RustPeer
  /\ net' = [net EXCEPT ![Other(q)] = @ \cup {AckFrame(last_contiguous[q])}]
  /\ UNCHANGED channelVars

\* add_transport and remove_transport: everything replayable is sent again,
\* through the sink that is now the best one.
ChangeTransport(p) ==
  /\ p \in RustPeer
  /\ net' = [net EXCEPT ![Other(p)] = @ \cup Replay(p, FlushReplay(p))]
  /\ UNCHANGED channelVars

Lose(q, f) ==
  /\ net' = [net EXCEPT ![q] = @ \ {f}]
  /\ UNCHANGED channelVars

Init ==
  /\ ChannelInit
  /\ net = [p \in Peer |-> {}]

Next ==
  \E p \in Peer :
    \/ SendMessage(p)
    \/ \E f \in net[p] : DeliverData(p, f) \/ DeliverAck(p, f) \/ Lose(p, f)
    \/ SendAck(p)
    \/ Keepalive(p)
    \/ ChangeTransport(p)

Spec == Init /\ [][Next]_vars

\* The tick and keepalive intervals fire forever; a transport may drop any
\* copy of a frame but not every copy of a frame that is sent again and again.
Fairness ==
  \A p \in Peer :
    /\ WF_vars(SendAck(p))
    /\ WF_vars(Keepalive(p))
    /\ \A s \in 1 .. MaxFrames :
         SF_vars(\E f \in net[p] : DeliverData(p, f) /\ f.seq = s)
    /\ \A a \in 0 .. MaxFrames :
         SF_vars(\E f \in net[p] : DeliverAck(p, f) /\ f.ack_seq = a)

FairSpec == Spec /\ Fairness

----------------------------------------------------------------------------
(* Properties *)

\* The type invariant of the two ends and of the wire.
TypeOK ==
  /\ SendTypeOK
  /\ ReceiveTypeOK
  /\ HistoryTypeOK
  /\ net \in [Peer -> SUBSET (DataFrames \cup AckFrames)]

\* Delivered in order, deduplicated: what an end has taken is exactly the
\* first last_contiguous frames the other end handed over, whatever was lost,
\* replayed, reordered or evicted on the way.
InOrderOnce ==
  \A p \in Peer :
    /\ Len(accepted[p]) = last_contiguous[p]
    /\ IsPrefix(accepted[p], log[Other(p)])

\* The application is given whole messages, each once and in order: chunk
\* reassembly never mixes the frames of two messages.
MessagesWhole ==
  \A p \in Peer : IsPrefix(delivered[p], sent[Other(p)])

\* An ack, under way or processed, never covers a frame that the other end
\* has not taken: popping acked frames from the send buffer loses nothing.
AckedIsAccepted ==
  \A p \in Peer :
    /\ last_ack_received[p] <= last_contiguous[Other(p)]
    /\ \A f \in net[p] : f.type = "ack" => f.ack_seq <= last_contiguous[Other(p)]

\* A Critical frame the other end has not taken is still in the send buffer,
\* whatever the buffer limit evicted, so that a replay can still send it.
CriticalRetained ==
  \A p \in Peer : \A s \in last_contiguous[Other(p)] + 1 .. Len(log[p]) :
    log[p][s].priority = "Critical" => s \in DOMAIN send_buffer[p]

\* Every Critical frame handed over is eventually taken by the other end,
\* whatever is lost on the way ("retransmit on loss").
CriticalArrives ==
  \A p \in Peer : \A s \in 1 .. MaxFrames :
    (Len(log[p]) >= s /\ log[p][s].priority = "Critical")
      ~> last_contiguous[Other(p)] >= s

\* The specification above the channel, of which this one is an implementation.
Delivery == INSTANCE OrderedDelivery
              WITH Frames <- Entry, input <- log, output <- accepted

\* The channel implements in-order delivery without loss or repetition.
ImplementsDelivery == Delivery!Spec

=============================================================================
