-------------------------- MODULE ReliableChannel --------------------------
(***************************************************************************)
(* The two ends of one b3-reliable channel, without the network between    *)
(* them: the state of `ReliableChannel` in crates/b3-reliable/src/         *)
(* channel.rs (browser/js/reliable.js keeps the same state under the same  *)
(* names) and one action per method.  A method that transmits is an action *)
(* on the state plus a state function naming the sequence numbers it puts  *)
(* on the wire; the modules that extend this one own the wire.             *)
(*                                                                         *)
(* Abstractions.  A payload is a chunk tag and a datum; the datum of a     *)
(* frame is its index in `log`, the history of everything the application  *)
(* handed over, so two frames carry the same datum only if they carry the  *)
(* same bytes.  Timestamps and CRCs are left out: a frame that fails to    *)
(* decode is dropped by `receive`, which is a lost frame.  The VecDeque    *)
(* send_buffer is always in ascending sequence order (it is only pushed    *)
(* with next_seq, and emptied whenever next_seq is set back), so it is a   *)
(* function on the buffered sequence numbers whose front is the least one. *)
(***************************************************************************)
EXTENDS Integers, FiniteSets, Sequences, SequencesExt

CONSTANTS
  Peer,           \* the two ends of the channel
  MaxSendBuffer,  \* Config.max_send_buffer: unacked frames retained
  MaxChunks,      \* bound: frames one message is cut into at most
  MaxFrames       \* bound: frames one end ever sends

ASSUME PeerAssumption == \E a, b \in Peer : a # b /\ Peer = {a, b}
ASSUME MaxSendBufferAssumption == MaxSendBuffer \in Nat \ {0}
ASSUME MaxChunksAssumption == MaxChunks \in Nat \ {0}
ASSUME MaxFramesAssumption == MaxFrames \in Nat

VARIABLES
  \* the sending half
  next_seq, send_buffer, last_ack_received, duplicate_ack_count,
  \* the receiving half
  last_contiguous, reorder_buffer, ack_pending, chunk_assembly,
  \* history: what the application of an end handed over, frame by frame and
  \* message by message, and what it was given
  log, sent, accepted, delivered

sendVars == <<next_seq, send_buffer, last_ack_received, duplicate_ack_count>>
recvVars == <<last_contiguous, reorder_buffer, ack_pending, chunk_assembly>>
histVars == <<log, sent, accepted, delivered>>
channelVars == <<sendVars, recvVars, histVars>>

Other(p) == CHOOSE q \in Peer : q # p

Priority == {"Critical", "BestEffort"}
Tag == {"standalone", "first", "middle", "last"}

\* What a data frame carries besides its sequence number: BufferedMessage
\* and the reorder buffer's ReceivedMessage hold the same three things.
Entry == [priority : Priority, tag : Tag, data : Nat]

\* The frames on the wire.
DataFrame(s, e) == [type |-> "data", seq |-> s, entry |-> e]
\* Mutant: the ack names the next frame expected.
AckOfNext(a) == [type |-> "ack", ack_seq |-> a + 1]
AckFrame(a) == [type |-> "ack", ack_seq |-> a]
ResumeFrame(a) == [type |-> "resume", ack_seq |-> a]

DataFrames == [type : {"data"}, seq : Nat \ {0}, entry : Entry]
AckFrames == [type : {"ack"}, ack_seq : Nat]
ResumeFrames == [type : {"resume"}, ack_seq : Nat]

DupAckThreshold == 3

----------------------------------------------------------------------------
(* Sending *)

\* The chunk tag of frame i of a message cut into n frames.
ChunkTag(i, n) ==
  CASE n = 1 -> "standalone"
    [] n > 1 /\ i = 1 -> "first"
    [] n > 1 /\ i = n -> "last"
    [] OTHER -> "middle"

\* Mutant: the oldest frame goes, whatever its priority.
EvictOldest(e, s, ack) == TRUE

\* The loop that enforces the buffer limit pops the front while the buffer is
\* too long, and gives up at the first front that is Critical and unacked: a
\* frame stays if it is among the newest MaxSendBuffer or if some frame at or
\* before it may not be evicted.
Evictable(e, s, ack) == e.priority = "BestEffort" \/ s <= ack

EnforceLimit(buf, ack) ==
  LET kept == {s \in DOMAIN buf :
                 \/ Cardinality({t \in DOMAIN buf : t >= s}) <= MaxSendBuffer
                 \/ \E t \in DOMAIN buf : t <= s /\ ~Evictable(buf[t], t, ack)}
  IN  [s \in kept |-> buf[s]]

\* The buffer after pushing the entries es, from sequence number `from` on.
Appended(buf, from, es) ==
  [s \in DOMAIN buf \cup (from .. from + Len(es) - 1) |->
     IF s \in DOMAIN buf THEN buf[s] ELSE es[s - from + 1]]

Push(buf, from, es, ack) == EnforceLimit(Appended(buf, from, es), ack)

\* The buffered frames a replay sends: Critical ones beyond `ack`.
Replayable(buf, ack) ==
  {s \in DOMAIN buf : s > ack /\ buf[s].priority = "Critical"}

\* The entries of a message of n frames handed over by p.
MessageEntries(p, n, pri) ==
  [i \in 1 .. n |-> [priority |-> pri, tag |-> ChunkTag(i, n),
                     data |-> Len(log[p]) + i]]

\* send: cut the message, give each frame the next sequence number, buffer it.
\* The frames next_seq .. next_seq + n - 1 go on the wire, evicted or not.
Send(p, n, pri) ==
  LET es == MessageEntries(p, n, pri) IN
  /\ Len(log[p]) + n <= MaxFrames
  /\ next_seq' = [next_seq EXCEPT ![p] = @ + n]
  /\ send_buffer' = [send_buffer EXCEPT
                       ![p] = Push(@, next_seq[p], es, last_ack_received[p])]
  /\ log' = [log EXCEPT ![p] = @ \o es]
  /\ sent' = [sent EXCEPT ![p] = Append(@, [i \in 1 .. n |-> es[i].data])]
  /\ UNCHANGED <<last_ack_received, duplicate_ack_count, recvVars,
                 accepted, delivered>>

\* receive_ack: a new ack drops what it covers; the third repetition of the
\* current one replays what is still unacked.
IsDuplicateAck(p, a) ==
  a = last_ack_received[p] /\ DOMAIN send_buffer[p] # {}

\* Mutant: the fourth repetition triggers the replay.
LateRetransmit(p, a) ==
  IsDuplicateAck(p, a) /\ duplicate_ack_count[p] >= DupAckThreshold

FastRetransmit(p, a) ==
  IsDuplicateAck(p, a) /\ duplicate_ack_count[p] + 1 >= DupAckThreshold

\* Mutant: the replay starts one frame too late.
AckReplaySkipsFirst(p, a) ==
  IF FastRetransmit(p, a) THEN Replayable(send_buffer[p], a + 1) ELSE {}

AckReplay(p, a) ==
  IF FastRetransmit(p, a) THEN Replayable(send_buffer[p], a) ELSE {}

DropAcked(buf, a) == [s \in {t \in DOMAIN buf : t > a} |-> buf[s]]

ReceiveAck(p, a) ==
  /\ IF a > last_ack_received[p]
     THEN /\ last_ack_received' = [last_ack_received EXCEPT ![p] = a]
          /\ send_buffer' = [send_buffer EXCEPT ![p] = DropAcked(@, a)]
          /\ duplicate_ack_count' = [duplicate_ack_count EXCEPT ![p] = 0]
     ELSE /\ duplicate_ack_count' =
               [duplicate_ack_count EXCEPT
                  ![p] = IF FastRetransmit(p, a) THEN 0
                         ELSE IF IsDuplicateAck(p, a) THEN @ + 1 ELSE @]
          /\ UNCHANGED <<last_ack_received, send_buffer>>
  /\ UNCHANGED <<next_seq, recvVars, histVars>>

\* flush_unacked changes nothing but the wire.
FlushReplay(p) == Replayable(send_buffer[p], last_ack_received[p])

----------------------------------------------------------------------------
(* Receiving *)

\* Mutant: the assembly is taken before the last chunk is added to it.
ProcessLastTooLate(st, e) ==
  CASE e.tag = "standalone" -> [st EXCEPT !.out = Append(@, <<e.data>>)]
    [] e.tag = "first"      -> [st EXCEPT !.assembly = <<e.data>>]
    [] e.tag = "middle"     -> [st EXCEPT !.assembly = Append(@, e.data)]
    [] e.tag = "last"       ->
         [assembly |-> <<e.data>>, out |-> Append(st.out, st.assembly)]

\* process_chunk on one entry: st.out collects what is handed up, st.assembly
\* is the reassembly buffer.
ProcessChunk(st, e) ==
  CASE e.tag = "standalone" -> [st EXCEPT !.out = Append(@, <<e.data>>)]
    [] e.tag = "first"      -> [st EXCEPT !.assembly = <<e.data>>]
    [] e.tag = "middle"     -> [st EXCEPT !.assembly = Append(@, e.data)]
    [] e.tag = "last"       ->
         [assembly |-> <<>>, out |-> Append(st.out, Append(st.assembly, e.data))]

\* The last sequence number of the gap-free run of S that starts at lc + 1.
EndOfRun(lc, S) ==
  CHOOSE m \in S : m > lc /\ (lc + 1) .. m \subseteq S /\ m + 1 \notin S

\* Mutant: a frame delivered before is delivered again.
DeliverDuplicate(q, s) ==
  /\ s <= last_contiguous[q]
  /\ accepted' = [accepted EXCEPT ![q] = Append(@, log[Other(q)][s])]
  /\ UNCHANGED <<last_contiguous, reorder_buffer, chunk_assembly, delivered>>

\* receive_data, the three cases: already delivered; the next expected one,
\* delivered together with everything the reorder buffer holds after it; out of
\* order, kept unless that sequence number is already held.
DropDuplicate(q, s) ==
  /\ s <= last_contiguous[q]
  /\ UNCHANGED <<last_contiguous, reorder_buffer, chunk_assembly,
                 accepted, delivered>>

AcceptRun(q, s, e) ==
  /\ s = last_contiguous[q] + 1
  /\ LET held == [t \in DOMAIN reorder_buffer[q] \cup {s} |->
                    IF t = s THEN e ELSE reorder_buffer[q][t]]
         top  == EndOfRun(last_contiguous[q], DOMAIN held)
         run  == [i \in 1 .. top - last_contiguous[q] |->
                    held[last_contiguous[q] + i]]
         done == FoldLeft(ProcessChunk,
                          [assembly |-> chunk_assembly[q], out |-> <<>>], run)
     IN  /\ last_contiguous' = [last_contiguous EXCEPT ![q] = top]
         /\ reorder_buffer' = [reorder_buffer EXCEPT
                                 ![q] = [t \in DOMAIN @ \ (s .. top) |-> @[t]]]
         /\ accepted' = [accepted EXCEPT ![q] = @ \o run]
         /\ chunk_assembly' = [chunk_assembly EXCEPT ![q] = done.assembly]
         /\ delivered' = [delivered EXCEPT ![q] = @ \o done.out]

HoldForLater(q, s, e) ==
  /\ s > last_contiguous[q] + 1
  /\ reorder_buffer' =
       [reorder_buffer EXCEPT
          ![q] = [t \in DOMAIN @ \cup {s} |-> IF t \in DOMAIN @ THEN @[t] ELSE e]]
  /\ UNCHANGED <<last_contiguous, chunk_assembly, accepted, delivered>>

\* Mutant: any frame newer than the last one is delivered at once.
ReceiveSkippingGaps(q, s, e) ==
  /\ ack_pending' = [ack_pending EXCEPT ![q] = TRUE]
  /\ s > last_contiguous[q]
  /\ last_contiguous' = [last_contiguous EXCEPT ![q] = s]
  /\ accepted' = [accepted EXCEPT ![q] = Append(@, e)]
  /\ UNCHANGED <<reorder_buffer, chunk_assembly, delivered, sendVars, log, sent>>

ReceiveData(q, s, e) ==
  /\ ack_pending' = [ack_pending EXCEPT ![q] = TRUE]
  /\ DropDuplicate(q, s) \/ AcceptRun(q, s, e) \/ HoldForLater(q, s, e)
  /\ UNCHANGED <<sendVars, log, sent>>

\* tick: an ack of last_contiguous goes out if data arrived since the last one.
Tick(q) ==
  /\ ack_pending[q]
  /\ ack_pending' = [ack_pending EXCEPT ![q] = FALSE]
  /\ UNCHANGED <<sendVars, last_contiguous, reorder_buffer, chunk_assembly,
                 histVars>>

----------------------------------------------------------------------------

ChannelInit ==
  /\ next_seq = [p \in Peer |-> 1]
  /\ send_buffer = [p \in Peer |-> <<>>]
  /\ last_ack_received = [p \in Peer |-> 0]
  /\ duplicate_ack_count = [p \in Peer |-> 0]
  /\ last_contiguous = [p \in Peer |-> 0]
  /\ reorder_buffer = [p \in Peer |-> <<>>]
  /\ ack_pending = [p \in Peer |-> FALSE]
  /\ chunk_assembly = [p \in Peer |-> <<>>]
  /\ log = [p \in Peer |-> <<>>]
  /\ sent = [p \in Peer |-> <<>>]
  /\ accepted = [p \in Peer |-> <<>>]
  /\ delivered = [p \in Peer |-> <<>>]

\* A buffer: a function from finitely many sequence numbers to entries.
IsBuffer(b) ==
  /\ DOMAIN b \in SUBSET Nat
  /\ b = [s \in DOMAIN b |-> b[s]]
  /\ \A s \in DOMAIN b : b[s] \in Entry

SendTypeOK ==
  /\ next_seq \in [Peer -> Nat]
  /\ DOMAIN send_buffer = Peer /\ \A p \in Peer : IsBuffer(send_buffer[p])
  /\ last_ack_received \in [Peer -> Nat]
  /\ duplicate_ack_count \in [Peer -> 0 .. DupAckThreshold - 1]

ReceiveTypeOK ==
  /\ last_contiguous \in [Peer -> Nat]
  /\ DOMAIN reorder_buffer = Peer /\ \A p \in Peer : IsBuffer(reorder_buffer[p])
  /\ ack_pending \in [Peer -> BOOLEAN]

HistoryTypeOK ==
  /\ log \in [Peer -> Seq(Entry)]
  /\ accepted \in [Peer -> Seq(Entry)]

=============================================================================
