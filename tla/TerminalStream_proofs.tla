------------------------ MODULE TerminalStream_proofs ------------------------
(***************************************************************************)
(* Safety of TerminalStream for every size of buffer, queue and output:    *)
(* type correctness, and that a browser's screen has no hole.              *)
(*                                                                         *)
(* A delta is shown only if it carries the number the browser expects, so  *)
(* it is enough that pieces with consecutive numbers fit together: on the  *)
(* wire, at its front with the screen, and at its back with what the       *)
(* handler or the consumer will send next.  Pieces on the two sides of a   *)
(* dropped frame or of a reset do not fit, but their numbers do not follow *)
(* each other either.                                                      *)
(***************************************************************************)
EXTENDS TerminalStream, SequenceTheorems, TLAPS

\* Where the screen ends.
ScreenEnd == IF screen = <<>> THEN 0 ELSE screen[Len(screen)].to

\* Where what is sent next begins, unless it is a snapshot.
NextFrom == CASE handler = "offset" -> snapshot
              [] consumer = "emit" -> pending.from
              [] OTHER -> sent_offset

\* Handler and consumer take turns; what the consumer is about to emit ends
\* where sent_offset points to.
Phases ==
  /\ consumer = "none" <=> handler # "loop"
  /\ handler # "loop" => next_seq = 1
  /\ handler = "init" => wire = <<>> /\ screen = <<>> /\ last_contiguous = 0
  /\ handler \in {"init", "offset"} => sent_offset = 0
  /\ consumer = "emit" => pending.type # "init" /\ pending.to = sent_offset
  /\ consumer # "killed" => lags < MaxLags

\* Numbers grow along the wire, from beyond what the browser has taken to
\* before what is given out next; only the first message has none.
Numbers ==
  /\ last_contiguous < next_seq
  /\ \A i \in 1 .. Len(wire) : /\ wire[i].seq < next_seq
                               /\ wire[i].type = "init" <=> wire[i].seq = 0
                               /\ wire[i].type # "init" => wire[i].seq > last_contiguous
  /\ \A i \in 1 .. Len(wire) - 1 : wire[i].seq < wire[i + 1].seq

\* Pieces with consecutive numbers fit: two on the wire, ...
WireFits ==
  \A i \in 1 .. Len(wire) - 1 :
    wire[i + 1].type = "delta" /\ wire[i + 1].seq = wire[i].seq + 1
      => wire[i + 1].from = wire[i].to

\* ... the first on the wire and the screen, ...
FrontFits ==
  wire # <<>> /\ wire[1].type = "delta" /\ wire[1].seq = last_contiguous + 1
    => wire[1].from = ScreenEnd

\* ... the last on the wire, or the screen, and what is sent next.
BackFits ==
  ~(consumer = "emit" /\ pending.type = "full") =>
    /\ wire = <<>> /\ next_seq = last_contiguous + 1 => ScreenEnd = NextFrom
    /\ wire # <<>> /\ next_seq = wire[Len(wire)].seq + 1
         => wire[Len(wire)].to = NextFrom

\* The inductive invariant.
IInv == TypeOK /\ Phases /\ Numbers /\ WireFits /\ FrontFits /\ BackFits
          /\ ScreenContiguous

----------------------------------------------------------------------------
(* Lemmas *)

\* What delta_msg returns for an offset behind the store's: a delta begins at
\* that offset, since all that the store holds is within the cap.
LEMMA DeltaMsgProperties ==
  ASSUME store \in Nat, NEW prev \in Nat, prev < store
  PROVE  /\ DeltaMsg(prev) \in Message
         /\ DeltaMsg(prev).to = store
         /\ DeltaMsg(prev).type # "init"
         /\ DeltaMsg(prev).type = "delta" => DeltaMsg(prev).from = prev
<1>1. store - prev \in Nat
  OBVIOUS
<1>2. BufLen(store) \in Nat /\ BufLen(store) <= store /\ BufLen(store) <= MaxBuffer
  BY SizeAssumption DEF BufLen, Least
<1> DEFINE full == store - prev > BufLen(store)
           n == IF full THEN BufLen(store) ELSE store - prev
<1>3. n \in Nat /\ n <= store /\ n <= MaxDeltaCap
  BY <1>1, <1>2, SizeAssumption, CapAssumption
<1>4. Least(n, MaxDeltaCap) = n
  BY <1>3, SizeAssumption DEF Least
<1>5. DeltaMsg(prev) = [type |-> IF full THEN "full" ELSE "delta",
                        from |-> store - n, to |-> store, seq |-> 0]
  BY <1>4 DEF DeltaMsg, Start
<1> HIDE DEF n
<1>6. store - n \in Nat
  BY <1>3
<1>7. ~full => store - n = prev
  BY <1>1 DEF n
<1> QED
  BY <1>5, <1>6, <1>7 DEF Message

\* The init message is a message.
LEMMA InitMessage ==
  ASSUME store \in Nat
  PROVE  Start(store, Least(BufLen(store), MaxInit)) \in Nat
<1>1. BufLen(store) \in Nat /\ BufLen(store) <= store
  BY SizeAssumption DEF BufLen, Least
<1>2. Least(BufLen(store), MaxInit) \in Nat /\ Least(BufLen(store), MaxInit) <= store
  BY <1>1, SizeAssumption DEF Least
<1> QED
  BY <1>2 DEF Start

\* What is left of a sequence without its head.
LEMMA TailProperties ==
  ASSUME NEW S, NEW q \in Seq(S), q # <<>>
  PROVE  /\ Tail(q) \in Seq(S)
         /\ Len(q) \in Nat \ {0}
         /\ Len(Tail(q)) = Len(q) - 1
         /\ Tail(q) = <<>> <=> Len(q) = 1
         /\ Head(q) = q[1] /\ q[1] \in S
         /\ \A i \in 1 .. Len(q) - 1 : Tail(q)[i] = q[i + 1]
<1>1. Len(q) \in Nat \ {0}
  BY EmptySeq
<1>2. Tail(q) \in Seq(S) /\ Len(Tail(q)) = Len(q) - 1
  BY HeadTailProperties
<1>3. \A i \in 1 .. Len(q) - 1 : Tail(q)[i] = q[i + 1]
  BY <1>2, HeadTailProperties
<1>4. Tail(q) = <<>> <=> Len(q) = 1
  <2>1. Tail(q) # <<>> => Len(Tail(q)) \in Nat \ {0}
    BY <1>2, EmptySeq
  <2>2. Tail(q) = <<>> => Len(Tail(q)) = 0
    BY EmptySeq
  <2> QED
    BY <1>1, <1>2, <2>1, <2>2
<1>5. Head(q) = q[1] /\ q[1] \in S
  BY <1>1, ElementOfSeq
<1> QED
  BY <1>1, <1>2, <1>3, <1>4, <1>5

\* A sequence with one more element.
LEMMA AppendOne ==
  ASSUME NEW S, NEW q \in Seq(S), NEW e \in S
  PROVE  /\ Append(q, e) \in Seq(S)
         /\ Len(q) \in Nat
         /\ Len(Append(q, e)) = Len(q) + 1
         /\ Append(q, e) # <<>>
         /\ Append(q, e)[Len(q) + 1] = e
         /\ \A i \in 1 .. Len(q) : Append(q, e)[i] = q[i]
         /\ q = <<>> <=> Len(q) = 0
<1>1. Len(q) \in Nat /\ (q = <<>> <=> Len(q) = 0)
  BY EmptySeq
<1> QED
  BY <1>1, AppendProperties

\* What Numbers and TypeOK say of one message.
LEMMA MessageOnWire ==
  ASSUME TypeOK, Numbers, NEW i \in 1 .. Len(wire)
  PROVE  /\ wire[i] \in Message /\ wire[i].seq \in Nat /\ wire[i].seq < next_seq
         /\ wire[i].type = "init" <=> wire[i].seq = 0
         /\ wire[i].type # "init" => wire[i].seq > last_contiguous
<1>1. wire \in Seq(Message)
  BY DEF TypeOK
<1>2. wire[i] \in Message
  BY <1>1, ElementOfSeq
<1>3. wire[i].seq \in Nat
  BY <1>2 DEF Message
<1> QED
  BY <1>2, <1>3 DEF Numbers

----------------------------------------------------------------------------
(* The steps *)

\* Steps that leave the stream alone: neither what was sent, nor what is about
\* to be, nor what was shown changes.
StreamUnchanged ==
  /\ UNCHANGED <<handler, snapshot, sent_offset, pending, next_seq, wire,
                 last_contiguous, screen>>
  /\ (consumer = "emit") <=> (consumer = "emit")'

\* They keep what the invariant says of the stream.
LEMMA QuietStep ==
  ASSUME IInv, StreamUnchanged
  PROVE  Numbers' /\ WireFits' /\ FrontFits' /\ BackFits' /\ ScreenContiguous'
<1>1. Numbers' /\ WireFits'
  BY DEF IInv, StreamUnchanged, Numbers, WireFits
<1>2. ScreenEnd' = ScreenEnd
  BY DEF StreamUnchanged, ScreenEnd
<1>3. NextFrom' = NextFrom
  BY DEF StreamUnchanged, NextFrom
<1>4. FrontFits'
  BY <1>2 DEF IInv, StreamUnchanged, FrontFits
<1>5. BackFits'
  BY <1>2, <1>3 DEF IInv, StreamUnchanged, BackFits
<1>6. ScreenContiguous'
  BY DEF IInv, StreamUnchanged, ScreenContiguous
<1> QED
  BY <1>1, <1>4, <1>5, <1>6

\* An event reaches the receiver or not; its queue stays one.
LEMMA BroadcastType ==
  ASSUME TypeOK, NEW e \in {"updated", "other"}, Broadcast(e)
  PROVE  events' \in Seq({"updated", "other"}) /\ lagged' \in BOOLEAN
<1> DEFINE E == {"updated", "other"}
<1>1. events \in Seq(E) /\ lagged \in BOOLEAN
  BY DEF TypeOK
<1>2. CASE UNCHANGED <<events, lagged>>
  BY <1>1, <1>2
<1>3. CASE events' = Append(events, e) /\ UNCHANGED lagged
  BY <1>1, <1>3, AppendOne
<1>4. CASE ~(Len(events) < Capacity) /\ events' = Append(Tail(events), e) /\ lagged' = TRUE
  <2>1. events # <<>>
    BY <1>4, EmptySeq, SizeAssumption
  <2>2. Tail(events) \in Seq(E)
    BY <1>1, <2>1, TailProperties
  <2> QED
    BY <1>4, <2>2, AppendOne
<1> QED
  BY <1>2, <1>3, <1>4 DEF Broadcast

\* Steps of the pusher, and other events: the store only grows.
LEMMA PusherStep ==
  ASSUME IInv, Output \/ Update \/ Announce \/ OtherEvent
  PROVE  IInv'
<1>1. TypeOK /\ Phases
  BY DEF IInv
<1>2. StreamUnchanged
  BY DEF StreamUnchanged, Output, Update, Announce, OtherEvent, consumerVars,
         browserVars
<1>3. UNCHANGED <<consumer, lags>>
  BY DEF Output, Update, Announce, OtherEvent, consumerVars
<1>4. Phases'
  BY <1>1, <1>2, <1>3 DEF Phases, StreamUnchanged
<1>5. TypeOK'
  <2>1. CASE Output
    <3>1. PICK n \in 1 .. MaxOutput - write_offset : write_offset' = write_offset + n
      BY <2>1 DEF Output
    <3>2. write_offset' \in Nat /\ store <= write_offset'
      BY <1>1, <3>1, SizeAssumption DEF TypeOK
    <3> QED
      BY <1>1, <2>1, <3>2 DEF Output, TypeOK, consumerVars, browserVars
  <2>2. CASE Update
    BY <1>1, <2>2 DEF Update, TypeOK, consumerVars, browserVars
  <2>3. CASE Announce
    <3>1. events' \in Seq({"updated", "other"}) /\ lagged' \in BOOLEAN
      BY <1>1, <2>3, BroadcastType DEF Announce
    <3> QED
      BY <1>1, <2>3, <3>1 DEF Announce, TypeOK, browserVars
  <2>4. CASE OtherEvent
    <3>1. events' \in Seq({"updated", "other"}) /\ lagged' \in BOOLEAN
      BY <1>1, <2>4, BroadcastType DEF OtherEvent
    <3>2. other' \in 0 .. MaxOther
      BY <1>1, <2>4, SizeAssumption DEF OtherEvent, TypeOK
    <3> QED
      BY <1>1, <2>4, <3>1, <3>2 DEF OtherEvent, TypeOK, browserVars
  <2> QED
    BY <2>1, <2>2, <2>3, <2>4
<1> QED
  BY <1>2, <1>4, <1>5, QuietStep DEF IInv

\* Steps of the consumer that only receive: lags stays below the limit.
LEMMA ConsumerStep ==
  ASSUME IInv, GateOpens \/ Receive \/ ReceiveLagged
  PROVE  IInv'
<1>1. TypeOK /\ Phases
  BY DEF IInv
<1>2. StreamUnchanged
  BY DEF StreamUnchanged, GateOpens, Receive, ReceiveLagged, browserVars
<1>3. /\ UNCHANGED pusherVars
      /\ consumer \in {"gated", "recv"}
      /\ consumer' \in {"recv", "compute", "killed"}
      /\ lagged' \in BOOLEAN
  BY <1>1 DEF GateOpens, Receive, ReceiveLagged, TypeOK
<1>4. lags' \in 0 .. MaxLags /\ (consumer' # "killed" => lags' < MaxLags)
  BY <1>1, SizeAssumption DEF GateOpens, Receive, ReceiveLagged, TypeOK, Phases
<1>5. events' \in Seq({"updated", "other"})
  <2>1. events \in Seq({"updated", "other"})
    BY <1>1 DEF TypeOK
  <2>2. events # <<>> => Tail(events) \in Seq({"updated", "other"})
    BY <2>1, TailProperties
  <2>3. UNCHANGED events \/ (events # <<>> /\ events' = Tail(events))
    BY DEF GateOpens, Receive, ReceiveLagged
  <2> QED
    BY <2>1, <2>2, <2>3
<1>6. Phases'
  BY <1>1, <1>2, <1>3, <1>4 DEF Phases, StreamUnchanged
<1>7. TypeOK'
  BY <1>1, <1>2, <1>3, <1>4, <1>5 DEF TypeOK, StreamUnchanged, pusherVars
<1> QED
  BY <1>2, <1>6, <1>7, QuietStep DEF IInv

\* The offset the consumer starts from is the snapshot's.
LEMMA SetOffsetStep ==
  ASSUME IInv, SetOffset
  PROVE  IInv'
<1>1. TypeOK /\ Phases
  BY DEF IInv
<1>2. UNCHANGED <<pusherVars, snapshot, consumer, events, lagged, lags, pending,
                  next_seq, wire, last_contiguous, screen>>
  BY DEF SetOffset, consumerVars, browserVars
<1>3. handler = "offset" /\ handler' = "consume" /\ sent_offset' = snapshot
  BY <1>1 DEF SetOffset, Phases
<1>4. consumer = "none"
  BY <1>1, <1>3 DEF Phases
<1>5. TypeOK'
  BY <1>1, <1>2, <1>3 DEF TypeOK, pusherVars
<1>6. Phases'
  BY <1>1, <1>2, <1>3, <1>4 DEF Phases
<1>7. ScreenEnd' = ScreenEnd
  BY <1>2 DEF ScreenEnd
<1>8. NextFrom' = NextFrom
  BY <1>2, <1>3, <1>4 DEF NextFrom
<1>9. Numbers' /\ WireFits' /\ ScreenContiguous'
  BY <1>2 DEF IInv, Numbers, WireFits, ScreenContiguous
<1>10. FrontFits' /\ BackFits'
  BY <1>2, <1>7, <1>8 DEF IInv, FrontFits, BackFits
<1> QED
  BY <1>5, <1>6, <1>9, <1>10 DEF IInv

\* The consumer begins where the handler left sent_offset.
LEMMA StartConsumerStep ==
  ASSUME IInv, StartConsumer
  PROVE  IInv'
<1>1. TypeOK /\ Phases
  BY DEF IInv
<1>2. UNCHANGED <<pusherVars, snapshot, sent_offset, events, lagged, lags, pending,
                  next_seq, wire, last_contiguous, screen>>
  BY DEF StartConsumer, browserVars
<1>3. handler = "consume" /\ handler' = "loop" /\ consumer' = "gated"
  BY DEF StartConsumer
<1>4. consumer = "none"
  BY <1>1, <1>3 DEF Phases
<1>5. TypeOK'
  BY <1>1, <1>2, <1>3 DEF TypeOK, pusherVars
<1>6. Phases'
  BY <1>1, <1>2, <1>3, <1>4 DEF Phases
<1>7. ScreenEnd' = ScreenEnd
  BY <1>2 DEF ScreenEnd
<1>8. NextFrom' = NextFrom
  BY <1>2, <1>3, <1>4 DEF NextFrom
<1>9. Numbers' /\ WireFits' /\ ScreenContiguous'
  BY <1>2 DEF IInv, Numbers, WireFits, ScreenContiguous
<1>10. FrontFits' /\ BackFits'
  BY <1>2, <1>3, <1>4, <1>7, <1>8 DEF IInv, FrontFits, BackFits
<1> QED
  BY <1>5, <1>6, <1>9, <1>10 DEF IInv

\* The snapshot is the first message, if there is anything to show.
LEMMA SendInitStep ==
  ASSUME IInv, SendInit
  PROVE  IInv'
<1>1. TypeOK /\ Phases /\ Numbers
  BY DEF IInv
<1>2. /\ UNCHANGED <<pusherVars, sent_offset, consumer, events, lagged, lags, pending,
                     next_seq, last_contiguous, screen>>
      /\ handler = "init" /\ handler' = "offset" /\ snapshot' = store
  BY DEF SendInit, consumerVars, browserVars
<1>3. /\ wire = <<>> /\ screen = <<>> /\ last_contiguous = 0 /\ sent_offset = 0
      /\ next_seq = 1 /\ consumer = "none"
  BY <1>1, <1>2 DEF Phases
<1>4. Phases'
  BY <1>1, <1>2, <1>3 DEF Phases
<1>5. ScreenEnd' = 0 /\ NextFrom' = store
  BY <1>2, <1>3 DEF ScreenEnd, NextFrom
<1>6. ScreenContiguous'
  BY <1>2 DEF IInv, ScreenContiguous
<1>7. CASE store = 0
  <2>1. wire' = <<>>
    BY <1>3, <1>7 DEF SendInit
  <2>2. TypeOK'
    BY <1>1, <1>2, <1>3, <2>1 DEF TypeOK, pusherVars
  <2>3. Len(wire') = 0
    BY <2>1
  <2>4. Numbers' /\ WireFits'
    BY <1>2, <1>3, <2>3 DEF Numbers, WireFits
  <2>5. FrontFits' /\ BackFits'
    BY <1>5, <1>7, <2>1 DEF FrontFits, BackFits
  <2> QED
    BY <1>4, <1>6, <2>2, <2>4, <2>5 DEF IInv
<1>8. CASE store # 0
  <2> DEFINE m == [type |-> "init", to |-> store, seq |-> 0,
                   from |-> Start(store, Least(BufLen(store), MaxInit))]
  <2>1. store \in Nat
    BY <1>1 DEF TypeOK
  <2>2. m \in Message /\ m.type = "init" /\ m.seq = 0 /\ m.to = store
    BY <2>1, InitMessage DEF Message
  <2>3. wire' = Append(wire, m)
    BY <1>8 DEF SendInit
  <2> HIDE DEF m
  <2>4. wire' = <<m>> /\ wire' # <<>> /\ Len(wire') = 1 /\ wire'[1] = m
    BY <1>3, <2>3
  <2>5. TypeOK'
    <3>1. wire' \in Seq(Message)
      BY <2>2, <2>4
    <3> QED
      BY <1>1, <1>2, <1>3, <3>1 DEF TypeOK, pusherVars
  <2>6. Numbers' /\ WireFits'
    BY <1>2, <1>3, <2>2, <2>4 DEF Numbers, WireFits
  <2>7. FrontFits' /\ BackFits'
    BY <1>5, <2>2, <2>4 DEF FrontFits, BackFits
  <2> QED
    BY <1>4, <1>6, <2>5, <2>6, <2>7 DEF IInv
<1> QED
  BY <1>7, <1>8

\* A delta is computed from where the last message ended.
LEMMA ComputeStep ==
  ASSUME IInv, Compute
  PROVE  IInv'
<1>1. TypeOK /\ Phases
  BY DEF IInv
<1>2. /\ UNCHANGED <<pusherVars, handler, snapshot, events, lagged, lags,
                     next_seq, wire, last_contiguous, screen>>
      /\ consumer = "compute"
  BY DEF Compute, browserVars
<1>3. handler = "loop"
  BY <1>1, <1>2 DEF Phases, TypeOK
<1>4. CASE store > sent_offset
  <2>1. pending' = DeltaMsg(sent_offset) /\ sent_offset' = store /\ consumer' = "emit"
    BY <1>4 DEF Compute
  <2>2. store \in Nat /\ sent_offset \in Nat /\ sent_offset < store
    BY <1>1, <1>4 DEF TypeOK
  <2>3. /\ pending' \in Message /\ pending'.to = store /\ pending'.type # "init"
        /\ pending'.type = "delta" => pending'.from = sent_offset
    BY <2>1, <2>2, DeltaMsgProperties
  <2>4. TypeOK'
    BY <1>1, <1>2, <2>1, <2>2, <2>3 DEF TypeOK, pusherVars
  <2>5. Phases'
    BY <1>1, <1>2, <1>3, <2>1, <2>3 DEF Phases
  <2>6. Numbers' /\ WireFits' /\ ScreenContiguous'
    BY <1>2 DEF IInv, Numbers, WireFits, ScreenContiguous
  <2>7. ScreenEnd' = ScreenEnd
    BY <1>2 DEF ScreenEnd
  <2>8. FrontFits'
    BY <1>2, <2>7 DEF IInv, FrontFits
  <2>9. NextFrom = sent_offset
    BY <1>2, <1>3 DEF NextFrom
  <2>10. pending'.type # "full" => NextFrom' = sent_offset
    <3>1. pending'.type \in {"init", "delta", "full"}
      BY <2>3 DEF Message
    <3> QED
      BY <1>2, <1>3, <2>1, <2>3, <3>1 DEF NextFrom
  <2>11. BackFits'
    BY <1>2, <2>1, <2>7, <2>9, <2>10 DEF IInv, BackFits
  <2> QED
    BY <2>4, <2>5, <2>6, <2>8, <2>11 DEF IInv
<1>5. CASE ~(store > sent_offset)
  <2>1. UNCHANGED <<pending, sent_offset>> /\ consumer' = "recv"
    BY <1>5 DEF Compute
  <2>2. StreamUnchanged
    BY <1>2, <2>1 DEF StreamUnchanged
  <2>3. TypeOK'
    BY <1>1, <1>2, <2>1 DEF TypeOK, pusherVars
  <2>4. Phases'
    BY <1>1, <1>2, <1>3, <2>1 DEF Phases
  <2> QED
    BY <2>2, <2>3, <2>4, QuietStep DEF IInv
<1> QED
  BY <1>4, <1>5

\* The message gets its number, and fits what has the number before.
LEMMA EmitStep ==
  ASSUME IInv, Emit
  PROVE  IInv'
<1>1. TypeOK /\ Phases /\ Numbers /\ WireFits /\ FrontFits /\ BackFits
  BY DEF IInv
<1>2. /\ UNCHANGED <<pusherVars, handler, snapshot, sent_offset, events, lagged, lags,
                     pending, last_contiguous, screen>>
      /\ consumer = "emit" /\ consumer' = "recv" /\ next_seq' = next_seq + 1
  BY DEF Emit, browserVars
<1>3. handler = "loop"
  BY <1>1, <1>2 DEF Phases, TypeOK
<1>4. pending.type \in {"delta", "full"} /\ pending.to = sent_offset
  BY <1>1, <1>2 DEF Phases, TypeOK, Message
<1>5. next_seq \in Nat \ {0} /\ last_contiguous \in Nat /\ wire \in Seq(Message)
  BY <1>1 DEF TypeOK
<1>6. Phases'
  BY <1>1, <1>2, <1>3 DEF Phases
<1>7. ScreenContiguous' /\ ScreenEnd' = ScreenEnd
  BY <1>2 DEF IInv, ScreenContiguous, ScreenEnd
<1>8. NextFrom' = sent_offset
  BY <1>2, <1>3 DEF NextFrom
<1>9. pending.type = "delta" => NextFrom = pending.from
  BY <1>2, <1>3 DEF NextFrom
<1>10. CASE UNCHANGED wire
  <2>1. TypeOK'
    BY <1>1, <1>2, <1>5, <1>10 DEF TypeOK, pusherVars
  <2>2. Numbers'
    <3>1. \A i \in 1 .. Len(wire) : wire[i].seq < next_seq'
      <4>1. TAKE i \in 1 .. Len(wire)
      <4>2. wire[i].seq < next_seq /\ wire[i].seq \in Nat
        BY <1>1, MessageOnWire
      <4> QED
        BY <1>2, <1>5, <4>2
    <3> QED
      BY <1>1, <1>2, <1>5, <1>10, <3>1 DEF Numbers
  <2>3. WireFits' /\ FrontFits'
    BY <1>1, <1>2, <1>7, <1>10 DEF WireFits, FrontFits
  <2>4. BackFits'
    <3>1. next_seq' # last_contiguous + 1
      BY <1>1, <1>2, <1>5 DEF Numbers
    <3>2. ASSUME wire # <<>> PROVE next_seq' # wire[Len(wire)].seq + 1
      <4>1. Len(wire) \in 1 .. Len(wire)
        BY <1>5, <3>2, EmptySeq
      <4>2. wire[Len(wire)].seq < next_seq /\ wire[Len(wire)].seq \in Nat
        BY <1>1, <4>1, MessageOnWire
      <4> QED
        BY <1>2, <1>5, <4>2
    <3> QED
      BY <1>2, <1>10, <3>1, <3>2 DEF BackFits
  <2> QED
    BY <1>6, <1>7, <2>1, <2>2, <2>3, <2>4 DEF IInv
<1>11. CASE wire' = Append(wire, [pending EXCEPT !.seq = next_seq])
  <2> DEFINE m == [pending EXCEPT !.seq = next_seq]
             n == Len(wire)
  <2>1. /\ m \in Message /\ m.seq = next_seq /\ m.type = pending.type
        /\ m.from = pending.from /\ m.to = pending.to
    BY <1>1, <1>5 DEF TypeOK, Message
  <2>2. wire' = Append(wire, m)
    BY <1>11
  <2> HIDE DEF m
  <2>3. /\ wire' \in Seq(Message) /\ n \in Nat /\ Len(wire') = n + 1 /\ wire' # <<>>
        /\ wire'[n + 1] = m /\ \A i \in 1 .. n : wire'[i] = wire[i]
        /\ wire = <<>> <=> n = 0
    BY <1>5, <2>1, <2>2, AppendOne
  <2> HIDE DEF n
  <2>4. TypeOK'
    BY <1>1, <1>2, <1>5, <2>3 DEF TypeOK, pusherVars
  <2>5. \A i \in 1 .. n : /\ wire[i].seq \in Nat /\ wire[i].seq < next_seq
                          /\ wire[i].type = "init" <=> wire[i].seq = 0
                          /\ wire[i].type # "init" => wire[i].seq > last_contiguous
    BY <1>1, MessageOnWire DEF n
  <2>6. Numbers'
    <3>1. \A i \in 1 .. n + 1 : /\ wire'[i].seq < next_seq'
                                /\ wire'[i].type = "init" <=> wire'[i].seq = 0
                                /\ wire'[i].type # "init" => wire'[i].seq > last_contiguous
      <4>1. TAKE i \in 1 .. n + 1
      <4>2. CASE i = n + 1
        BY <1>1, <1>2, <1>4, <1>5, <2>1, <2>3, <4>2 DEF Numbers
      <4>3. CASE i # n + 1
        <5>1. i \in 1 .. n
          BY <2>3, <4>3
        <5> QED
          BY <1>2, <1>5, <2>3, <2>5, <5>1
      <4> QED
        BY <4>2, <4>3
    <3>2. \A i \in 1 .. n : wire'[i].seq < wire'[i + 1].seq
      <4>1. TAKE i \in 1 .. n
      <4>2. CASE i = n
        BY <2>1, <2>3, <2>5, <4>2
      <4>3. CASE i # n
        <5>1. i \in 1 .. n - 1 /\ i + 1 \in 1 .. n
          BY <2>3, <4>3
        <5>2. wire[i].seq < wire[i + 1].seq
          BY <1>1, <5>1 DEF Numbers, n
        <5> QED
          BY <2>3, <5>1, <5>2
      <4> QED
        BY <4>2, <4>3
    <3>3. (n + 1) - 1 = n
      BY <2>3
    <3> QED
      BY <1>1, <1>2, <1>5, <2>3, <3>1, <3>2, <3>3 DEF Numbers
  <2>7. WireFits'
    <3>1. SUFFICES ASSUME NEW i \in 1 .. n, wire'[i + 1].type = "delta",
                          wire'[i + 1].seq = wire'[i].seq + 1
                   PROVE  wire'[i + 1].from = wire'[i].to
      <4>1. (n + 1) - 1 = n
        BY <2>3
      <4> QED
        BY <2>3, <4>1 DEF WireFits
    <3>2. CASE i = n
      <4>1. wire # <<>> /\ wire'[i] = wire[n] /\ wire'[i + 1] = m
        BY <2>3, <3>2
      <4>2. wire[n].to = NextFrom
        BY <1>1, <1>4, <2>1, <3>1, <4>1 DEF BackFits, n
      <4> QED
        BY <1>9, <2>1, <3>1, <4>1, <4>2
    <3>3. CASE i # n
      <4>1. i \in 1 .. n - 1 /\ i + 1 \in 1 .. n
        BY <2>3, <3>3
      <4>2. wire'[i] = wire[i] /\ wire'[i + 1] = wire[i + 1]
        BY <2>3, <4>1
      <4> QED
        BY <1>1, <3>1, <4>1, <4>2 DEF WireFits, n
    <3> QED
      BY <3>2, <3>3
  <2>8. FrontFits'
    <3>1. CASE n = 0
      <4>1. wire = <<>> /\ wire'[1] = m
        BY <2>3, <3>1
      <4>2. next_seq = last_contiguous + 1 /\ pending.type = "delta"
              => pending.from = ScreenEnd
        BY <1>1, <1>9, <4>1 DEF BackFits
      <4> QED
        BY <1>2, <1>7, <2>1, <4>1, <4>2 DEF FrontFits
    <3>2. CASE n # 0
      <4>1. wire # <<>> /\ wire'[1] = wire[1]
        BY <2>3, <3>2
      <4> QED
        BY <1>1, <1>2, <1>7, <4>1 DEF FrontFits
    <3> QED
      BY <3>1, <3>2
  <2>9. BackFits'
    BY <1>4, <1>8, <2>1, <2>3 DEF BackFits
  <2> QED
    BY <1>6, <1>7, <2>4, <2>6, <2>7, <2>8, <2>9 DEF IInv
<1> QED
  BY <1>10, <1>11 DEF Emit

\* What the browser takes off the wire fits its screen, and what comes next
\* fits what it took.
LEMMA BrowserStep ==
  ASSUME IInv, BrowserReceive
  PROVE  IInv'
<1>1. /\ TypeOK /\ Phases /\ Numbers /\ WireFits /\ FrontFits /\ BackFits
      /\ ScreenContiguous
  BY DEF IInv
<1> DEFINE m == wire[1]
           n == Len(wire)
<1>2. /\ UNCHANGED <<pusherVars, handler, snapshot, sent_offset, consumer, events,
                     lagged, lags, pending, next_seq>>
      /\ wire # <<>> /\ wire' = Tail(wire)
  BY DEF BrowserReceive, consumerVars
<1>3. /\ wire' \in Seq(Message) /\ n \in Nat \ {0} /\ Len(wire') = n - 1
      /\ wire' = <<>> <=> n = 1
      /\ Head(wire) = m /\ m \in Message
      /\ \A i \in 1 .. n - 1 : wire'[i] = wire[i + 1]
  <2>1. wire \in Seq(Message)
    BY <1>1 DEF TypeOK
  <2> QED
    BY <1>2, <2>1, TailProperties
<1>4. /\ m.seq \in Nat /\ m.to \in Nat /\ m.type \in {"init", "delta", "full"}
      /\ m.seq < next_seq
      /\ m.type = "init" <=> m.seq = 0
      /\ m.type # "init" => m.seq > last_contiguous
  <2>1. 1 \in 1 .. Len(wire)
    BY <1>3
  <2> QED
    BY <1>1, <1>3, <2>1, MessageOnWire DEF Message
<1>5. next_seq \in Nat \ {0} /\ last_contiguous \in Nat /\ screen \in Seq(Message)
  BY <1>1 DEF TypeOK
<1>6. Phases'
  <2>1. handler # "init"
    BY <1>1, <1>2 DEF Phases
  <2> QED
    BY <1>1, <1>2, <2>1 DEF Phases
<1>7. NextFrom' = NextFrom
  BY <1>2 DEF NextFrom
\* The three things that can happen to the message.
<1>8. \/ /\ m.type = "init" \/ m.type = "full"
         /\ screen' = <<m>> /\ last_contiguous' = 0
      \/ /\ m.type = "delta" /\ m.seq = last_contiguous + 1
         /\ screen' = Append(screen, m) /\ last_contiguous' = m.seq
      \/ /\ m.type # "init" /\ m.seq # last_contiguous + 1
         /\ UNCHANGED <<screen, last_contiguous>>
  <2>1. CASE m.type = "init"
    BY <1>3, <2>1 DEF BrowserReceive, ShowSnapshot
  <2>2. CASE m.type # "init" /\ m.seq # last_contiguous + 1
    BY <1>3, <2>2 DEF BrowserReceive, Hold, browserVars
  <2>3. CASE m.type = "full" /\ m.seq = last_contiguous + 1
    BY <1>3, <2>3 DEF BrowserReceive, ShowSnapshot
  <2>4. CASE m.type = "delta" /\ m.seq = last_contiguous + 1
    BY <1>3, <2>4 DEF BrowserReceive, ShowDelta
  <2> QED
    BY <1>4, <2>1, <2>2, <2>3, <2>4
<1>9. /\ screen' \in Seq(Message) /\ last_contiguous' \in Nat
      /\ last_contiguous' <= m.seq \/ last_contiguous' = last_contiguous
      /\ m.type # "init" => last_contiguous' <= m.seq
      /\ last_contiguous' < next_seq
  <2>1. screen' \in Seq(Message)
    <3>1. <<m>> \in Seq(Message) /\ Append(screen, m) \in Seq(Message)
      BY <1>3, <1>5, AppendOne
    <3> QED
      BY <1>5, <1>8, <3>1
  <2>2. last_contiguous < next_seq
    BY <1>1 DEF Numbers
  <2> QED
    BY <1>4, <1>5, <1>8, <2>1, <2>2
<1>10. screen' # screen => ScreenEnd' = m.to
  <2>1. CASE screen' = <<m>>
    BY <2>1 DEF ScreenEnd
  <2>2. CASE screen' = Append(screen, m)
    <3>1. screen' # <<>> /\ screen'[Len(screen')] = m
      BY <1>3, <1>5, <2>2, AppendOne
    <3> QED
      BY <3>1 DEF ScreenEnd
  <2> QED
    BY <1>8, <2>1, <2>2
<1>11. last_contiguous' = m.seq \/ m.type = "init" => ScreenEnd' = m.to
  <2>1. CASE m.type = "init"
    <3>1. screen' = <<m>>
      BY <1>8, <2>1
    <3> QED
      BY <3>1 DEF ScreenEnd
  <2>2. CASE m.type # "init" /\ last_contiguous' = m.seq
    <3>1. screen' = Append(screen, m)
      BY <1>4, <1>5, <1>8, <2>2
    <3>2. screen' # <<>> /\ screen'[Len(screen')] = m
      BY <1>3, <1>5, <3>1, AppendOne
    <3> QED
      BY <3>2 DEF ScreenEnd
  <2> QED
    BY <2>1, <2>2
<1>12. TypeOK'
  BY <1>1, <1>2, <1>3, <1>9 DEF TypeOK, pusherVars
\* Whatever has the number now expected comes right after what was taken.
<1>13. ASSUME NEW k \in Nat, k > m.seq, k = last_contiguous' + 1
       PROVE  k = m.seq + 1 /\ ScreenEnd' = m.to
  <2>1. CASE m.type = "init"
    BY <1>4, <1>8, <1>11, <1>13, <2>1
  <2>2. CASE m.type # "init"
    <3>1. last_contiguous' = m.seq
      BY <1>4, <1>9, <1>13, <2>2
    <3> QED
      BY <1>11, <1>13, <3>1
  <2> QED
    BY <2>1, <2>2
<1> HIDE DEF m, n
<1>14. Numbers'
  <2>1. \A i \in 1 .. n - 1 :
          /\ wire'[i].seq < next_seq
          /\ wire'[i].type = "init" <=> wire'[i].seq = 0
          /\ wire'[i].type # "init" => wire'[i].seq > last_contiguous'
    <3>1. TAKE i \in 1 .. n - 1
    <3>2. i + 1 \in 1 .. Len(wire)
      BY <1>3 DEF n
    <3>3. /\ wire[i + 1].seq \in Nat /\ wire[i + 1].seq < next_seq
          /\ wire[i + 1].type = "init" <=> wire[i + 1].seq = 0
          /\ wire[i + 1].type # "init" => wire[i + 1].seq > last_contiguous
      BY <1>1, <3>2, MessageOnWire
    <3>4. wire[i + 1].seq > last_contiguous' \/ wire[i + 1].type = "init"
      <4>1. CASE last_contiguous' = last_contiguous \/ last_contiguous' = 0
        BY <1>5, <3>3, <4>1
      <4>2. CASE last_contiguous' = m.seq /\ m.type = "delta" /\ m.seq = last_contiguous + 1
        <5>1. i = 1 => wire[i + 1].seq > m.seq
          BY <1>1, <1>3, <1>4, <3>2, <3>3 DEF Numbers, m, n
        <5>2. CASE i = 1
          BY <4>2, <5>1, <5>2
        <5>3. CASE i # 1
          <6>1. wire[i].seq < wire[i + 1].seq /\ i \in 1 .. Len(wire)
            BY <1>1, <1>3 DEF Numbers, n
          <6>2. wire[i].seq \in Nat /\ (wire[i].type # "init" => wire[i].seq > last_contiguous)
            BY <1>1, <6>1, MessageOnWire
          <6>3. wire[i].type # "init"
            <7>1. wire[i - 1].seq < wire[(i - 1) + 1].seq /\ i - 1 \in 1 .. Len(wire)
              BY <1>1, <1>3, <5>3 DEF Numbers, n
            <7>2. wire[i - 1].seq \in Nat /\ (i - 1) + 1 = i
              BY <1>1, <7>1, MessageOnWire
            <7> QED
              BY <1>1, <6>1, <6>2, <7>1, <7>2, MessageOnWire
          <6> QED
            BY <1>5, <3>3, <4>2, <6>1, <6>2, <6>3
        <5> QED
          BY <5>2, <5>3
      <4> QED
        BY <1>8, <4>1, <4>2
    <3> QED
      BY <1>3, <3>3, <3>4
  <2>2. \A i \in 1 .. (n - 1) - 1 : wire'[i].seq < wire'[i + 1].seq
    <3>1. TAKE i \in 1 .. (n - 1) - 1
    <3>2. i \in 1 .. n - 1 /\ i + 1 \in 1 .. n - 1
      BY <1>3
    <3>3. wire[i + 1].seq < wire[(i + 1) + 1].seq
      BY <1>1, <3>2 DEF Numbers, n
    <3> QED
      BY <1>3, <3>2, <3>3
  <2> QED
    BY <1>2, <1>3, <1>9, <2>1, <2>2 DEF Numbers
<1>15. WireFits'
  <2>1. SUFFICES ASSUME NEW i \in 1 .. (n - 1) - 1, wire'[i + 1].type = "delta",
                        wire'[i + 1].seq = wire'[i].seq + 1
                 PROVE  wire'[i + 1].from = wire'[i].to
    BY <1>3 DEF WireFits
  <2>2. i \in 1 .. n - 1 /\ i + 1 \in 1 .. n - 1
    BY <1>3
  <2>3. wire'[i] = wire[i + 1] /\ wire'[i + 1] = wire[(i + 1) + 1]
    BY <1>3, <2>2
  <2> QED
    BY <1>1, <2>1, <2>2, <2>3 DEF WireFits, n
<1>16. FrontFits'
  <2>1. SUFFICES ASSUME wire' # <<>>, wire'[1].type = "delta",
                        wire'[1].seq = last_contiguous' + 1
                 PROVE  wire'[1].from = ScreenEnd'
    BY DEF FrontFits
  <2>2. 1 \in 1 .. n - 1 /\ 1 + 1 = 2 /\ 2 \in 1 .. Len(wire)
    BY <1>3, <2>1 DEF n
  <2>3. wire'[1] = wire[2] /\ wire[2].seq > m.seq /\ wire[2].seq \in Nat
    BY <1>1, <1>3, <1>4, <2>2, MessageOnWire DEF Numbers, m, n
  <2>4. wire[2].seq = m.seq + 1 /\ ScreenEnd' = m.to
    BY <1>13, <2>1, <2>3
  <2> QED
    BY <1>1, <2>1, <2>2, <2>3, <2>4 DEF WireFits, m, n
<1>17. BackFits'
  <2>1. SUFFICES ASSUME ~(consumer = "emit" /\ pending.type = "full")
                 PROVE  /\ wire' = <<>> /\ next_seq = last_contiguous' + 1
                             => ScreenEnd' = NextFrom
                        /\ wire' # <<>> /\ next_seq = wire'[Len(wire')].seq + 1
                             => wire'[Len(wire')].to = NextFrom
    BY <1>2, <1>7 DEF BackFits
  <2>2. next_seq = wire[n].seq + 1 => wire[n].to = NextFrom
    BY <1>1, <1>2, <2>1 DEF BackFits, n
  <2>3. ASSUME wire' = <<>>, next_seq = last_contiguous' + 1
        PROVE  ScreenEnd' = NextFrom
    <3>1. n = 1
      BY <1>3, <2>3
    <3>2. next_seq = m.seq + 1 /\ ScreenEnd' = m.to
      BY <1>4, <1>5, <1>13, <2>3
    <3> QED
      BY <2>2, <3>1, <3>2 DEF m
  <2>4. ASSUME wire' # <<>>
        PROVE  wire'[Len(wire')] = wire[n]
    <3>1. n - 1 \in 1 .. n - 1 /\ (n - 1) + 1 = n
      BY <1>3, <2>4
    <3> QED
      BY <1>3, <3>1
  <2> QED
    BY <2>2, <2>3, <2>4
<1>18. ScreenContiguous'
  <2>1. CASE screen' = <<m>>
    <3>1. 1 .. Len(screen') - 1 = {}
      BY <2>1
    <3> QED
      BY <3>1 DEF ScreenContiguous
  <2>2. CASE UNCHANGED screen
    BY <1>1, <2>2 DEF ScreenContiguous
  <2>3. CASE /\ m.type = "delta" /\ m.seq = last_contiguous + 1
             /\ screen' = Append(screen, m)
    <3> DEFINE l == Len(screen)
    <3>1. /\ l \in Nat /\ Len(screen') = l + 1 /\ screen'[l + 1] = m
          /\ \A i \in 1 .. l : screen'[i] = screen[i]
          /\ screen = <<>> <=> l = 0
      BY <1>3, <1>5, <2>3, AppendOne
    <3>2. m.from = ScreenEnd
      BY <1>1, <1>2, <2>3 DEF FrontFits, m
    <3> HIDE DEF l
    <3>3. SUFFICES ASSUME NEW i \in 1 .. l
                   PROVE  screen'[i + 1].from = screen'[i].to
      <4>1. (l + 1) - 1 = l
        BY <3>1
      <4> QED
        BY <3>1, <4>1 DEF ScreenContiguous
    <3>4. CASE i = l
      <4>1. screen # <<>>
        BY <3>1, <3>4
      <4> QED
        BY <3>1, <3>2, <3>4, <4>1 DEF ScreenEnd, l
    <3>5. CASE i # l
      <4>1. i \in 1 .. l - 1 /\ i + 1 \in 1 .. l
        BY <3>1, <3>5
      <4>2. screen[i + 1].from = screen[i].to
        BY <1>1, <4>1 DEF ScreenContiguous, l
      <4> QED
        BY <3>1, <4>1, <4>2
    <3> QED
      BY <3>4, <3>5
  <2> QED
    BY <1>8, <2>1, <2>2, <2>3
<1> QED
  BY <1>6, <1>12, <1>14, <1>15, <1>16, <1>17, <1>18 DEF IInv

----------------------------------------------------------------------------
(* The theorems *)

\* The inductive invariant holds at the start, ...
LEMMA InitIInv == Init => IInv
<1> SUFFICES ASSUME Init PROVE IInv
  OBVIOUS
<1>1. Len(wire) = 0 /\ Len(screen) = 0
  BY DEF Init
<1>2. TypeOK
  <2>1. pending \in Message
    BY DEF Init, Message
  <2>2. events \in Seq({"updated", "other"}) /\ wire \in Seq(Message) /\ screen \in Seq(Message)
    <3>1. \A S : <<>> \in Seq(S)
      BY EmptySeq
    <3>2. events = <<>> /\ wire = <<>> /\ screen = <<>>
      BY DEF Init
    <3> QED
      BY <3>1, <3>2
  <2>3. /\ write_offset \in Nat /\ store \in Nat /\ snapshot \in Nat /\ sent_offset \in Nat
        /\ snapshot <= store /\ sent_offset <= store /\ store <= write_offset
        /\ next_seq \in Nat \ {0} /\ last_contiguous \in Nat
    BY DEF Init
  <2>4. other \in 0 .. MaxOther /\ lags \in 0 .. MaxLags
    BY SizeAssumption DEF Init
  <2>5. /\ pusher \in {"collect", "announce"}
        /\ handler \in {"init", "offset", "consume", "loop"}
        /\ consumer \in {"none", "gated", "recv", "compute", "emit", "killed"}
        /\ lagged \in BOOLEAN
    BY DEF Init
  <2> QED
    BY <2>1, <2>2, <2>3, <2>4, <2>5 DEF TypeOK
<1>3. Phases
  BY SizeAssumption DEF Init, Phases
<1>4. Numbers /\ WireFits /\ ScreenContiguous
  BY <1>1 DEF Init, Numbers, WireFits, ScreenContiguous
<1>5. FrontFits /\ BackFits
  BY DEF Init, FrontFits, BackFits, ScreenEnd, NextFrom
<1> QED
  BY <1>2, <1>3, <1>4, <1>5 DEF IInv

\* ... and every step keeps it.
LEMMA NextIInv == IInv /\ [Next]_vars => IInv'
<1> SUFFICES ASSUME IInv, [Next]_vars PROVE IInv'
  OBVIOUS
<1>1. CASE UNCHANGED vars
  <2>1. StreamUnchanged /\ UNCHANGED <<pusherVars, consumer, events, lagged, lags>>
    BY <1>1 DEF vars, StreamUnchanged, consumerVars, browserVars
  <2>2. TypeOK' /\ Phases'
    BY <2>1 DEF IInv, TypeOK, Phases, StreamUnchanged, pusherVars
  <2> QED
    BY <2>1, <2>2, QuietStep DEF IInv
<1>2. CASE Output \/ Update \/ Announce \/ OtherEvent
  BY <1>2, PusherStep
<1>3. CASE GateOpens \/ Receive \/ ReceiveLagged
  BY <1>3, ConsumerStep
<1>4. CASE SendInit
  BY <1>4, SendInitStep
<1>5. CASE SetOffset
  BY <1>5, SetOffsetStep
<1>6. CASE StartConsumer
  BY <1>6, StartConsumerStep
<1>7. CASE Compute
  BY <1>7, ComputeStep
<1>8. CASE Emit
  BY <1>8, EmitStep
<1>9. CASE BrowserReceive
  BY <1>9, BrowserStep
<1> QED
  BY <1>1, <1>2, <1>3, <1>4, <1>5, <1>6, <1>7, <1>8, <1>9 DEF Next

\* For every size of buffer, snapshot and queue: the types are kept, sent_offset
\* never passes the store, and a consumer is ended at the lag it should be.
THEOREM TerminalTypes == Spec => []TypeOK
<1>1. IInv => TypeOK
  BY DEF IInv
<1> QED
  BY <1>1, InitIInv, NextIInv, PTL DEF Spec

\* For every size of buffer, snapshot and queue: what the browser shows of the
\* agent's output has no hole and no repetition (delta_msg, handle_terminal_ws,
\* the event consumer, ws.js).
THEOREM TerminalContiguous == Spec => []ScreenContiguous
<1>1. IInv => ScreenContiguous
  BY DEF IInv
<1> QED
  BY <1>1, InitIInv, NextIInv, PTL DEF Spec

=============================================================================
