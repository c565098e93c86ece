---------------------------- MODULE DataChannel ----------------------------
(***************************************************************************)
(* One WebRTC data channel of b3-webrtc, one way: ChannelMessage::encode   *)
(* and decode, ChannelSender and ChunkAssembler (channel.rs), the send     *)
(* loop and on_message (peer.rs).  A ChannelSender is shared by tasks: a   *)
(* task sends the frames of its message one by one through a bounded       *)
(* queue.  The channel itself is ordered and reliable (SCTP) until it      *)
(* fails.                                                                  *)
(*                                                                         *)
(* A payload is its length; the data of a frame is where it was cut from.  *)
(***************************************************************************)
EXTENDS Naturals, Sequences

CONSTANTS
  SendingTask,
  SingleRoom,    \* payload that fits in one frame (16 KB less 5 bytes)
  ChunkRoom,     \* payload of a chunk (16 KB less 14 bytes)
  MaxChunks,     \* MAX_CHUNKS (256)
  QueueSlots,    \* of the sender's queue (64)
  DecodedSlots,  \* of the receiver's (64)
  MaxPayload,    \* bound: length of a payload
  MaxMessages        \* bound: messages

ASSUME DataChannelAssumption ==
  /\ SingleRoom \in Nat \ {0} /\ ChunkRoom \in 1..SingleRoom
  /\ MaxChunks \in Nat \ {0} /\ QueueSlots \in Nat \ {0} /\ DecodedSlots \in Nat \ {0}
  /\ MaxPayload \in Nat /\ MaxMessages \in Nat

Type == {"json", "binary"}
NoAssembler == [total |-> 0]

VARIABLES
  messages,     \* every message sent: [type, length], in the order sends began
  sending,      \* of a task: frames of its message not yet queued
  send_queue, alive,
  assembler,    \* of the receiver: [total, original_type, chunks, received]
  decoded_tx,   \* messages decoded and not yet received
  received_all, \* messages the application received
  overflowed    \* messages dropped because decoded_tx was full

dataChannelVars == <<messages, sending, send_queue, alive, assembler, decoded_tx, received_all,
                 overflowed>>

----------------------------------------------------------------------------
(* encode *)

Chunks(length) == (length + ChunkRoom - 1) \div ChunkRoom

\* The bytes first..last of message m.
Piece(m, first, last) == [of |-> m, first |-> first, last |-> last]

WholeFrame(m, msg) ==
  [kind |-> "whole", type |-> msg.type, seq |-> 0, total |-> 1,
   data |-> Piece(m, 1, msg.length)]

ChunkFrame(m, msg, seq, total) ==
  [kind |-> "chunk", type |-> msg.type, seq |-> seq, total |-> total,
   data |-> Piece(m, seq * ChunkRoom + 1,
                  IF (seq + 1) * ChunkRoom < msg.length THEN (seq + 1) * ChunkRoom
                                                        ELSE msg.length)]

\* Mutant: the last, shorter chunk is not counted.
EncodeFullChunks(m, msg) ==
  IF msg.length <= SingleRoom THEN <<WholeFrame(m, msg)>>
  ELSE LET n == msg.length \div ChunkRoom IN
       [i \in 1..n |-> ChunkFrame(m, msg, i - 1, n)]

Encode(m, msg) ==
  IF msg.length <= SingleRoom THEN <<WholeFrame(m, msg)>>
  ELSE LET n == Chunks(msg.length) IN [i \in 1..n |-> ChunkFrame(m, msg, i - 1, n)]

----------------------------------------------------------------------------
(* ChannelSender::send and the send loop *)

SendStarts(t) ==
  /\ alive /\ sending[t] = <<>> /\ Len(messages) < MaxMessages
  /\ \E type \in Type, length \in 0..MaxPayload :
       LET msg == [type |-> type, length |-> length] IN
       /\ messages' = Append(messages, msg)
       /\ sending' = [sending EXCEPT ![t] = Encode(Len(messages) + 1, msg)]
  /\ UNCHANGED <<send_queue, alive, assembler, decoded_tx, received_all, overflowed>>

SendFrame(t) ==
  /\ alive /\ sending[t] # <<>> /\ Len(send_queue) < QueueSlots
  /\ send_queue' = Append(send_queue, Head(sending[t]))
  /\ sending' = [sending EXCEPT ![t] = Tail(@)]
  /\ UNCHANGED <<messages, alive, assembler, decoded_tx, received_all, overflowed>>

\* dc.send fails: the send loop ends, its queue is dropped, every send fails.
ChannelFails ==
  /\ alive /\ alive' = FALSE
  /\ send_queue' = <<>> /\ sending' = [t \in SendingTask |-> <<>>]
  /\ UNCHANGED <<messages, assembler, decoded_tx, received_all, overflowed>>

----------------------------------------------------------------------------
(* on_message: decode, ChunkAssembler *)

\* try_send: a full queue drops the message.
Decoded(msg) ==
  IF Len(decoded_tx) < DecodedSlots
  THEN decoded_tx' = Append(decoded_tx, msg) /\ UNCHANGED overflowed
  ELSE overflowed' = overflowed \cup {msg.pieces[1].of} /\ UNCHANGED decoded_tx

\* The first chunk of a message fixes the total and the type.
Assembler(f) ==
  IF assembler = NoAssembler
  THEN [total |-> f.total, original_type |-> f.type,
        chunks |-> [i \in 0..(f.total - 1) |-> {}], received |-> 0]
  ELSE assembler

\* feed: a chunk takes its place; one outside the message changes nothing.
Feed(a, f) ==
  IF f.seq >= a.total THEN a
  ELSE [a EXCEPT !.chunks = [@ EXCEPT ![f.seq] = {f.data}],
                 !.received = IF a.chunks[f.seq] = {} THEN @ + 1 ELSE @]

Assembled(a) ==
  [type |-> a.original_type,
   pieces |-> [i \in 1..a.total |-> CHOOSE p \in a.chunks[i - 1] : TRUE]]

AssemblerAfter(a) == NoAssembler

ReceiveWhole(f) ==
  /\ f.kind = "whole"
  /\ Decoded([type |-> f.type, pieces |-> <<f.data>>])
  /\ UNCHANGED assembler

TooMany(f) == f.total > MaxChunks

\* Chunks of a message of more than MAX_CHUNKS are refused one by one.
ReceiveChunk(f) ==
  /\ f.kind = "chunk"
  /\ LET a == Feed(Assembler(f), f) IN
     IF TooMany(f) THEN UNCHANGED <<assembler, decoded_tx, overflowed>>
     ELSE IF f.seq < a.total /\ a.received = a.total
          THEN assembler' = AssemblerAfter(a) /\ Decoded(Assembled(a))
          ELSE assembler' = a /\ UNCHANGED <<decoded_tx, overflowed>>

OnMessage ==
  /\ alive /\ send_queue # <<>>
  /\ send_queue' = Tail(send_queue)
  /\ LET f == Head(send_queue) IN ReceiveWhole(f) \/ ReceiveChunk(f)
  /\ UNCHANGED <<messages, sending, alive, received_all>>

Recv ==
  /\ decoded_tx # <<>>
  /\ received_all' = Append(received_all, Head(decoded_tx))
  /\ decoded_tx' = Tail(decoded_tx)
  /\ UNCHANGED <<messages, sending, send_queue, alive, assembler, overflowed>>

ChannelInit ==
  /\ messages = <<>> /\ sending = [t \in SendingTask |-> <<>>]
  /\ send_queue = <<>> /\ alive = TRUE
  /\ assembler = NoAssembler /\ decoded_tx = <<>> /\ received_all = <<>> /\ overflowed = {}

ChannelNext ==
  \/ \E t \in SendingTask : SendStarts(t) \/ SendFrame(t)
  \/ ChannelFails \/ OnMessage \/ Recv

ChannelSpec == ChannelInit /\ [][ChannelNext]_dataChannelVars

----------------------------------------------------------------------------
(* Properties *)

DecodedMessage ==
  [type : Type, pieces : Seq([of : 1..MaxMessages, first : Nat, last : Nat])]

\* The type invariant; an assembler is never complete between two frames.
ChannelTypeOK ==
  /\ messages \in Seq([type : Type, length : 0..MaxPayload])
  /\ \A t \in SendingTask : Len(sending[t]) <= Chunks(MaxPayload) + 1
  /\ Len(send_queue) <= QueueSlots /\ Len(decoded_tx) <= DecodedSlots
  /\ alive \in BOOLEAN
  /\ assembler # NoAssembler =>
       /\ assembler.total \in 1..MaxChunks /\ assembler.original_type \in Type
       /\ assembler.received \in 1..(assembler.total - 1)
  /\ decoded_tx \in Seq(DecodedMessage) /\ received_all \in Seq(DecodedMessage)
  /\ overflowed \subseteq 1..MaxMessages

Delivered == received_all \o decoded_tx

\* What was delivered is message m, of its type and every byte of it in order.
IsMessage(msg, m) ==
  LET n == Len(msg.pieces) IN
  /\ msg.type = messages[m].type
  /\ \A i \in 1..n : msg.pieces[i].of = m
  /\ msg.pieces[1].first = 1 /\ msg.pieces[n].last = messages[m].length
  /\ \A i \in 1..(n - 1) : msg.pieces[i + 1].first = msg.pieces[i].last + 1

\* README of b3-webrtc ("splits large messages ..., reassembles on receive"):
\* what the receiver gets are messages that were sent, whole, one by one in the
\* order they were sent.  It holds while one task sends at a time.
WholeMessages ==
  \A i \in DOMAIN Delivered :
    /\ IsMessage(Delivered[i], Delivered[i].pieces[1].of)
    /\ i > 1 => Delivered[i].pieces[1].of > Delivered[i - 1].pieces[1].of

=============================================================================
