-------------------------- MODULE LossyLink_proofs --------------------------
(***************************************************************************)
(* The safety of a channel over lossy, reordering transports, proved for   *)
(* every window, message length and number of frames.                      *)
(*                                                                         *)
(* The argument.  `log`, what an end was handed, is the reference: every   *)
(* copy of a frame there is (in the send buffer, on the wire, in the other *)
(* end's reorder buffer, among the accepted frames) is the entry of `log`  *)
(* under its sequence number.  So whatever order the copies arrive in, the *)
(* run of consecutive numbers taken by AcceptRun continues a prefix of     *)
(* `log`.  Acks only ever name what the other end had accepted when it     *)
(* sent them, and last_contiguous only grows, so what they drop from the   *)
(* send buffer is no longer needed.                                        *)
(*                                                                         *)
(* Reassembly is a second invariant on top of it: the messages handed over *)
(* cut the log into consecutive pieces tagged by place, so the number of   *)
(* the next frame alone says which message it belongs to and where, and    *)
(* process_chunk, folded over a run, is followed frame by frame.           *)
(***************************************************************************)
EXTENDS LossyLink, ReliableChannel_proofs

(* The inductive invariant. *)

\* Sequence numbers are given out one by one, none skipped.
NumbersFollowLog ==
  \A p \in Peer : next_seq[p] = Len(log[p]) + 1

\* Buffered frames are entries of the log under their own numbers.
BufferMatchesLog ==
  \A p \in Peer : \A s \in DOMAIN send_buffer[p] :
    s \in 1 .. Len(log[p]) /\ send_buffer[p][s] = log[p][s]

\* So are the frames held for later by the other end ...
HeldMatchesLog ==
  \A p \in Peer : \A s \in DOMAIN reorder_buffer[p] :
    s \in 1 .. Len(log[Other(p)]) /\ reorder_buffer[p][s] = log[Other(p)][s]

\* ... the frames under way ...
WireMatchesLog ==
  \A p \in Peer : \A f \in net[p] : f.type = "data" =>
    f.seq \in 1 .. Len(log[Other(p)]) /\ f.entry = log[Other(p)][f.seq]

\* ... and the frames taken.
AcceptedMatchesLog ==
  \A p \in Peer :
    /\ Len(accepted[p]) = last_contiguous[p]
    /\ last_contiguous[p] <= Len(log[Other(p)])
    /\ \A i \in 1 .. last_contiguous[p] : accepted[p][i] = log[Other(p)][i]

\* An ack that was processed covers only frames taken.
AcksCovered ==
  \A p \in Peer : last_ack_received[p] <= last_contiguous[Other(p)]

\* A frame under way to p: a data frame is an entry of the other end's log, an
\* ack covers only what the other end has taken.
Sound(p, f) ==
  /\ f \in DataFrames \cup AckFrames
  /\ f.type = "data" => /\ f.seq \in 1 .. Len(log[Other(p)])
                        /\ f.entry = log[Other(p)][f.seq]
  /\ f.type = "ack" => f.ack_seq <= last_contiguous[Other(p)]

ChannelTypeOK == SendTypeOK /\ ReceiveTypeOK /\ HistoryTypeOK

ChannelInv ==
  /\ ChannelTypeOK
  /\ NumbersFollowLog
  /\ BufferMatchesLog
  /\ HeldMatchesLog
  /\ AcceptedMatchesLog
  /\ AcksCovered
  /\ CriticalRetained

WireInv ==
  /\ DOMAIN net = Peer
  /\ net = [p \in Peer |-> net[p]]
  /\ \A p \in Peer : \A f \in net[p] : Sound(p, f)

IInv == ChannelInv /\ WireInv

\* What no step takes back: logs are appended to, and more is accepted.
Grows ==
  \A p \in Peer :
    /\ last_contiguous[p] <= last_contiguous'[p]
    /\ Len(log[p]) <= Len(log'[p])
    /\ \A i \in 1 .. Len(log[p]) : log'[p][i] = log[p][i]

----------------------------------------------------------------------------
(* The methods of a channel end *)

\* What send adds to the log: n entries under the next n sequence numbers.
LEMMA SendAppends ==
  ASSUME ChannelInv, NEW p \in Peer, NEW n \in 1 .. MaxChunks,
         NEW pri \in Priority, Send(p, n, pri)
  PROVE  LET es == MessageEntries(p, n, pri) IN
         /\ es \in Seq(Entry) /\ Len(es) = n
         /\ Len(log[p]) \in Nat /\ next_seq[p] = Len(log[p]) + 1
         /\ log'[p] \in Seq(Entry)
         /\ Len(log'[p]) = Len(log[p]) + n
         /\ \A i \in 1 .. Len(log[p]) : log'[p][i] = log[p][i]
         /\ \A i \in 1 .. n : log'[p][Len(log[p]) + i] = es[i]
<1> DEFINE es == MessageEntries(p, n, pri)
<1> USE DEF ChannelInv
<1>0. n \in Nat
  BY MaxChunksAssumption
<1>1. es \in Seq(Entry) /\ Len(es) = n
  BY <1>0, MessageEntriesType DEF ChannelTypeOK, HistoryTypeOK
<1>2. log[p] \in Seq(Entry) /\ next_seq[p] = Len(log[p]) + 1
  BY DEF ChannelTypeOK, HistoryTypeOK, NumbersFollowLog
<1>3. log'[p] = log[p] \o es
  BY DEF Send, ChannelTypeOK, HistoryTypeOK
<1> HIDE DEF es
<1>4. /\ log[p] \o es \in Seq(Entry)
      /\ Len(log[p]) \in Nat
      /\ Len(log[p] \o es) = Len(log[p]) + Len(es)
      /\ \A i \in 1 .. Len(log[p]) : (log[p] \o es)[i] = log[p][i]
      /\ \A i \in 1 .. Len(es) : (log[p] \o es)[Len(log[p]) + i] = es[i]
  <2>1. log[p] \in Seq(Entry) /\ es \in Seq(Entry)
    BY <1>1, <1>2
  <2> QED
    BY ONLY <2>1, ConcatPointwise
<1> QED
  BY <1>1, <1>2, <1>3, <1>4 DEF es

\* send: the new frames get the numbers after the log, in the buffer and in
\* the log alike, and eviction spares the Critical ones.
LEMMA SendKeepsChannel ==
  ASSUME ChannelInv, NEW p \in Peer, NEW n \in 1 .. MaxChunks,
         NEW pri \in Priority, Send(p, n, pri)
  PROVE  ChannelInv' /\ Grows
<1> DEFINE es == MessageEntries(p, n, pri)
           old == Len(log[p])
<1> USE DEF ChannelInv
<1>0. n \in Nat \ {0}
  BY MaxChunksAssumption
<1>1. es \in Seq(Entry) /\ Len(es) = n
  BY SendAppends
<1>2. old = Len(log[p]) /\ old \in Nat /\ next_seq[p] = old + 1
  BY SendAppends
<1>3. /\ next_seq'[p] = next_seq[p] + n
      /\ send_buffer'[p]
           = Push(send_buffer[p], next_seq[p], es, last_ack_received[p])
  BY DEF Send, ChannelTypeOK, SendTypeOK
<1>4. \A r \in Peer : r # p => /\ log'[r] = log[r]
                               /\ next_seq'[r] = next_seq[r]
                               /\ send_buffer'[r] = send_buffer[r]
  BY DEF Send, ChannelTypeOK, HistoryTypeOK, SendTypeOK
<1>5. UNCHANGED <<last_ack_received, duplicate_ack_count, last_contiguous,
                  reorder_buffer, ack_pending, accepted>>
  BY DEF Send, recvVars
<1>6. /\ log'[p] \in Seq(Entry)
      /\ Len(log'[p]) = old + n
      /\ \A i \in 1 .. old : log'[p][i] = log[p][i]
      /\ \A i \in 1 .. n : log'[p][old + i] = es[i]
  BY SendAppends
<1> HIDE DEF es, old
<1>7. Grows
  <2>1. SUFFICES ASSUME NEW r \in Peer
                 PROVE  /\ last_contiguous[r] <= last_contiguous'[r]
                        /\ Len(log[r]) <= Len(log'[r])
                        /\ \A i \in 1 .. Len(log[r]) : log'[r][i] = log[r][i]
    BY DEF Grows
  <2>2. last_contiguous[r] \in Nat /\ Len(log[r]) \in Nat
    BY DEF ChannelTypeOK, HistoryTypeOK, ReceiveTypeOK
  <2>3. CASE r = p
    BY <1>0, <1>2, <1>5, <1>6, <2>2, <2>3
  <2>4. CASE r # p
    BY <1>4, <1>5, <2>2, <2>4
  <2> QED
    BY <2>3, <2>4
<1> DEFINE whole == Appended(send_buffer[p], next_seq[p], es)
<1>8. /\ IsBuffer(send_buffer'[p])
      /\ DOMAIN send_buffer'[p] \subseteq DOMAIN whole
      /\ \A s \in DOMAIN send_buffer'[p] : send_buffer'[p][s] = whole[s]
      /\ \A s \in DOMAIN whole :
           whole[s].priority = "Critical" /\ s > last_ack_received[p]
             => s \in DOMAIN send_buffer'[p]
      /\ DOMAIN whole = DOMAIN send_buffer[p] \cup (old + 1 .. old + n)
      /\ \A s \in DOMAIN whole : s \in 1 .. old + n /\ whole[s] = log'[p][s]
  <2>1. IsBuffer(send_buffer[p]) /\ last_ack_received[p] \in Nat
    BY DEF ChannelTypeOK, SendTypeOK
  <2>2. next_seq[p] \in Nat \ {0} /\ next_seq[p] + Len(es) - 1 = old + n
    BY <1>0, <1>1, <1>2
  <2>3. /\ IsBuffer(whole)
        /\ DOMAIN whole = DOMAIN send_buffer[p] \cup (old + 1 .. old + n)
        /\ \A s \in DOMAIN send_buffer[p] : whole[s] = send_buffer[p][s]
        /\ \A s \in (old + 1 .. old + n) \ DOMAIN send_buffer[p] :
             whole[s] = es[s - next_seq[p] + 1]
    <3>1. next_seq[p] .. next_seq[p] + Len(es) - 1 = old + 1 .. old + n
      BY <1>2, <2>2
    <3>2. /\ es \in Seq(Entry)
          /\ IsBuffer(send_buffer[p])
          /\ next_seq[p] \in Nat \ {0}
      BY <1>1, <2>1, <2>2
    <3>3. IsBuffer(whole)
      BY ONLY <3>2, AppendedIsBuffer
    <3>4. /\ DOMAIN whole = DOMAIN send_buffer[p]
                              \cup (next_seq[p] .. next_seq[p] + Len(es) - 1)
          /\ \A s \in DOMAIN send_buffer[p] : whole[s] = send_buffer[p][s]
          /\ \A s \in (next_seq[p] .. next_seq[p] + Len(es) - 1)
                        \ DOMAIN send_buffer[p] :
               whole[s] = es[s - next_seq[p] + 1]
      BY DEF Appended
    <3> HIDE DEF whole
    <3> QED
      BY <3>1, <3>3, <3>4
  <2> HIDE DEF whole
  <2>4. ASSUME NEW s \in DOMAIN send_buffer[p]
        PROVE  s \in 1 .. old + n /\ whole[s] = log'[p][s]
    <3>1. s \in 1 .. old /\ send_buffer[p][s] = log[p][s]
      BY <1>2 DEF BufferMatchesLog
    <3> QED
      BY <3>1, <1>0, <1>2, <1>6, <2>3
  <2>5. ASSUME NEW s \in (old + 1 .. old + n) \ DOMAIN send_buffer[p]
        PROVE  s \in 1 .. old + n /\ whole[s] = log'[p][s]
    <3> DEFINE i == s - old
    <3>1. i \in 1 .. n /\ old + i = s /\ s - next_seq[p] + 1 = i
      BY <1>0, <1>2
    <3> QED
      <4>1. whole[s] = es[i]
        BY <2>3, <3>1
      <4>2. log'[p][s] = es[i]
        BY <1>6, <3>1
      <4>3. s \in 1 .. old + n
        BY <1>0, <1>2
      <4> QED
        BY <4>1, <4>2, <4>3
  <2>6. send_buffer'[p] = EnforceLimit(whole, last_ack_received[p])
    BY <1>3 DEF Push, whole
  <2>7. /\ IsBuffer(send_buffer'[p])
        /\ DOMAIN send_buffer'[p] \subseteq DOMAIN whole
        /\ \A s \in DOMAIN send_buffer'[p] : send_buffer'[p][s] = whole[s]
        /\ \A s \in DOMAIN whole :
             whole[s].priority = "Critical" /\ s > last_ack_received[p]
               => s \in DOMAIN send_buffer'[p]
    <3>1. IsBuffer(whole) /\ last_ack_received[p] \in Nat
      BY ONLY <2>1, <2>3
    <3> QED
      BY ONLY <3>1, <2>6, EnforceLimitProperties
  <2>8. \A s \in DOMAIN whole : s \in 1 .. old + n /\ whole[s] = log'[p][s]
    BY ONLY <2>3, <2>4, <2>5
  <2> QED
    BY ONLY <2>3, <2>7, <2>8
<1> HIDE DEF whole
<1>10. ChannelTypeOK'
  <2>1. SendTypeOK'
    <3>1. next_seq' \in [Peer -> Nat]
      BY <1>0 DEF Send, ChannelTypeOK, SendTypeOK
    <3>2. DOMAIN send_buffer' = Peer
      BY DEF Send, ChannelTypeOK, SendTypeOK
    <3>3. \A r \in Peer : IsBuffer(send_buffer[r])'
      BY <1>4, <1>8 DEF ChannelTypeOK, SendTypeOK
    <3> QED
      BY <3>1, <3>2, <3>3, <1>5 DEF ChannelTypeOK, SendTypeOK
  <2>2. ReceiveTypeOK'
    BY <1>5 DEF ChannelTypeOK, ReceiveTypeOK, IsBuffer
  <2>3. HistoryTypeOK'
    BY <1>5, <1>6, <1>1 DEF Send, es, ChannelTypeOK, HistoryTypeOK
  <2> QED
    BY <2>1, <2>2, <2>3 DEF ChannelTypeOK
<1>11. NumbersFollowLog'
  <2>1. next_seq'[p] = Len(log'[p]) + 1
    BY <1>0, <1>2, <1>3, <1>6
  <2> QED
    BY <2>1, <1>4 DEF NumbersFollowLog
<1>12. BufferMatchesLog'
  <2>1. ASSUME NEW s \in DOMAIN send_buffer'[p]
        PROVE  s \in 1 .. Len(log'[p]) /\ send_buffer'[p][s] = log'[p][s]
    BY <1>6, <1>8
  <2> QED
    BY <2>1, <1>4 DEF BufferMatchesLog
<1>13. HeldMatchesLog'
  <2>1. ASSUME NEW r \in Peer, NEW s \in DOMAIN reorder_buffer[r]
        PROVE  /\ s \in 1 .. Len(log'[Other(r)])
               /\ reorder_buffer[r][s] = log'[Other(r)][s]
    BY <1>7, OtherPeer DEF Grows, HeldMatchesLog, ChannelTypeOK, HistoryTypeOK
  <2> QED
    BY <2>1, <1>5 DEF HeldMatchesLog
<1>14. AcceptedMatchesLog'
  <2>1. ASSUME NEW r \in Peer
        PROVE  /\ last_contiguous[r] <= Len(log'[Other(r)])
               /\ \A i \in 1 .. last_contiguous[r] :
                    accepted[r][i] = log'[Other(r)][i]
    <3>1. /\ Other(r) \in Peer
          /\ last_contiguous[r] \in Nat
          /\ Len(log[Other(r)]) \in Nat /\ Len(log'[Other(r)]) \in Nat
      BY <1>10, OtherPeer DEF ChannelTypeOK, HistoryTypeOK, ReceiveTypeOK
    <3> QED
      BY <1>7, <3>1 DEF Grows, AcceptedMatchesLog
  <2> QED
    BY <2>1, <1>5 DEF AcceptedMatchesLog
<1>15. AcksCovered'
  BY <1>5 DEF AcksCovered
<1>16. CriticalRetained'
  <2>1. SUFFICES ASSUME NEW r \in Peer,
                        NEW s \in last_contiguous[Other(r)] + 1 .. Len(log'[r]),
                        log'[r][s].priority = "Critical"
                 PROVE  s \in DOMAIN send_buffer'[r]
    BY <1>5 DEF CriticalRetained
  <2>2. CASE r # p
    BY <2>1, <2>2, <1>4 DEF CriticalRetained
  <2>3. CASE r = p
    <3>1. /\ last_contiguous[Other(p)] \in Nat /\ last_ack_received[p] \in Nat
          /\ last_ack_received[p] <= last_contiguous[Other(p)]
      BY OtherPeer DEF ChannelTypeOK, ReceiveTypeOK, SendTypeOK, AcksCovered
    <3>2. s > last_ack_received[p] /\ s \in Nat
      BY <2>3, <3>1, <1>2, <1>0, <1>6
    <3>3. s \in DOMAIN whole
      <4>1. CASE s <= old
        <5>1. s \in last_contiguous[Other(p)] + 1 .. Len(log[p])
          BY <2>3, <3>1, <4>1, <1>2, <1>6
        <5>2. log[p][s].priority = "Critical"
          BY <5>1, <3>1, <2>1, <2>3, <1>6, <1>2
        <5> QED
          BY <5>1, <5>2, <1>8 DEF CriticalRetained
      <4>2. CASE s > old
        <5>1. s \in Nat /\ s <= old + n
          BY <2>3, <3>1, <1>6, <1>2, <1>0
        <5> QED
          BY <4>2, <5>1, <1>0, <1>1, <1>2, <1>8
      <4> QED
        BY <3>2, <4>1, <4>2, <1>2
    <3> QED
      BY <2>1, <2>3, <3>2, <3>3, <1>8
  <2> QED
    BY <2>2, <2>3
<1> QED
  BY <1>7, <1>10, <1>11, <1>12, <1>13, <1>14, <1>15, <1>16

\* receive_ack: what a new ack drops from the buffer had been taken.
LEMMA AckKeepsChannel ==
  ASSUME ChannelInv, NEW p \in Peer, NEW a \in Nat,
         a <= last_contiguous[Other(p)], ReceiveAck(p, a)
  PROVE  ChannelInv' /\ Grows
<1> USE DEF ChannelInv
<1>1. UNCHANGED <<next_seq, last_contiguous, reorder_buffer, ack_pending,
                  log, accepted>>
  BY DEF ReceiveAck, recvVars, histVars
<1>2. Grows
  BY <1>1 DEF Grows, ChannelTypeOK, HistoryTypeOK, ReceiveTypeOK
<1>3. NumbersFollowLog' /\ HeldMatchesLog' /\ AcceptedMatchesLog'
  BY <1>1 DEF NumbersFollowLog, HeldMatchesLog, AcceptedMatchesLog
<1>4. duplicate_ack_count' \in [Peer -> 0 .. DupAckThreshold - 1]
  <2>1. \A c \in 0 .. DupAckThreshold - 1 :
          ~(c + 1 >= DupAckThreshold) => c + 1 \in 0 .. DupAckThreshold - 1
    BY DEF DupAckThreshold
  <2>2. 0 \in 0 .. DupAckThreshold - 1
    BY DEF DupAckThreshold
  <2>3. duplicate_ack_count[p] \in 0 .. DupAckThreshold - 1
    BY DEF ChannelTypeOK, SendTypeOK
  <2>4. (IF FastRetransmit(p, a) THEN 0
         ELSE IF IsDuplicateAck(p, a) THEN duplicate_ack_count[p] + 1
         ELSE duplicate_ack_count[p]) \in 0 .. DupAckThreshold - 1
    BY <2>1, <2>2, <2>3 DEF FastRetransmit
  <2> QED
    BY <2>2, <2>4 DEF ReceiveAck, ChannelTypeOK, SendTypeOK
<1>5. CASE a > last_ack_received[p]
  <2>1. /\ last_ack_received' = [last_ack_received EXCEPT ![p] = a]
        /\ send_buffer' = [send_buffer EXCEPT ![p] = DropAcked(@, a)]
    BY <1>5 DEF ReceiveAck
  <2>2. /\ DOMAIN send_buffer' = Peer
        /\ send_buffer'[p] = DropAcked(send_buffer[p], a)
        /\ \A r \in Peer : r # p => send_buffer'[r] = send_buffer[r]
    BY <2>1 DEF ChannelTypeOK, SendTypeOK
  <2>3. /\ IsBuffer(send_buffer'[p])
        /\ DOMAIN send_buffer'[p] = {s \in DOMAIN send_buffer[p] : s > a}
        /\ \A s \in DOMAIN send_buffer'[p] :
             send_buffer'[p][s] = send_buffer[p][s]
    <3>1. IsBuffer(send_buffer[p])
      BY DEF ChannelTypeOK, SendTypeOK
    <3> QED
      BY <2>2, <3>1, DropAckedProperties
  <2>4. ChannelTypeOK'
    <3>1. SendTypeOK'
      <4>1. \A r \in Peer : IsBuffer(send_buffer[r])'
        BY <2>2, <2>3 DEF ChannelTypeOK, SendTypeOK
      <4>2. last_ack_received' \in [Peer -> Nat]
        BY <2>1 DEF ChannelTypeOK, SendTypeOK
      <4> QED
        BY <1>1, <1>4, <2>2, <4>1, <4>2 DEF ChannelTypeOK, SendTypeOK
    <3>2. ReceiveTypeOK' /\ HistoryTypeOK'
      BY <1>1 DEF ChannelTypeOK, ReceiveTypeOK, HistoryTypeOK, IsBuffer
    <3> QED
      BY <3>1, <3>2 DEF ChannelTypeOK
  <2>5. BufferMatchesLog'
    BY <1>1, <2>2, <2>3 DEF BufferMatchesLog
  <2>6. AcksCovered'
    BY <1>1, <2>1 DEF AcksCovered, ChannelTypeOK, SendTypeOK
  <2>7. CriticalRetained'
    <3>1. SUFFICES ASSUME NEW r \in Peer,
                          NEW s \in last_contiguous[Other(r)] + 1 .. Len(log[r]),
                          log[r][s].priority = "Critical"
                   PROVE  s \in DOMAIN send_buffer'[r]
      BY <1>1 DEF CriticalRetained
    <3>2. s \in DOMAIN send_buffer[r]
      BY <3>1 DEF CriticalRetained
    <3>3. CASE r = p
      <4>1. last_contiguous[Other(p)] \in Nat /\ Len(log[p]) \in Nat
        BY OtherPeer DEF ChannelTypeOK, ReceiveTypeOK, HistoryTypeOK
      <4>2. s > a
        BY <3>3, <4>1
      <4> QED
        BY <2>3, <3>2, <3>3, <4>2
    <3> QED
      BY <2>2, <3>2, <3>3
  <2> QED
    BY <1>2, <1>3, <2>4, <2>5, <2>6, <2>7
<1>6. CASE ~(a > last_ack_received[p])
  <2>1. UNCHANGED <<last_ack_received, send_buffer>>
    BY <1>6 DEF ReceiveAck
  <2>2. ChannelTypeOK'
    BY <1>1, <1>4, <2>1
    DEF ChannelTypeOK, SendTypeOK, ReceiveTypeOK, HistoryTypeOK, IsBuffer
  <2>3. BufferMatchesLog' /\ AcksCovered' /\ CriticalRetained'
    BY <1>1, <2>1 DEF BufferMatchesLog, AcksCovered, CriticalRetained
  <2> QED
    BY <1>2, <1>3, <2>2, <2>3
<1> QED
  BY <1>5, <1>6

\* What a step must do for the receiving half to stay correct when nothing is
\* handed over and no ack is processed: the last part is all that differs
\* between the three cases of receive_data.
LEMMA ReceivingKeepsChannel ==
  ASSUME ChannelInv, UNCHANGED <<sendVars, log>>, ReceiveTypeOK',
         accepted' \in [Peer -> Seq(Entry)], HeldMatchesLog', AcceptedMatchesLog',
         \A r \in Peer : last_contiguous[r] <= last_contiguous'[r]
  PROVE  ChannelInv' /\ Grows
<1> USE DEF ChannelInv
<1>1. Grows
  BY DEF Grows, ChannelTypeOK, HistoryTypeOK
<1>2. ChannelTypeOK'
  BY DEF ChannelTypeOK, SendTypeOK, HistoryTypeOK, IsBuffer, sendVars
<1>3. NumbersFollowLog' /\ BufferMatchesLog'
  BY DEF NumbersFollowLog, BufferMatchesLog, sendVars
<1>4. ASSUME NEW r \in Peer
      PROVE  /\ last_contiguous[Other(r)] \in Nat
             /\ last_contiguous'[Other(r)] \in Nat
             /\ last_contiguous[Other(r)] <= last_contiguous'[Other(r)]
  BY OtherPeer DEF ChannelTypeOK, ReceiveTypeOK
<1>5. AcksCovered'
  BY <1>4 DEF AcksCovered, ChannelTypeOK, SendTypeOK, sendVars
<1>6. CriticalRetained'
  <2>1. SUFFICES ASSUME NEW r \in Peer,
                        NEW s \in last_contiguous'[Other(r)] + 1 .. Len(log[r]),
                        log[r][s].priority = "Critical"
                 PROVE  s \in DOMAIN send_buffer[r]
    BY DEF CriticalRetained, sendVars
  <2>2. Len(log[r]) \in Nat
    BY DEF ChannelTypeOK, HistoryTypeOK
  <2>3. s \in last_contiguous[Other(r)] + 1 .. Len(log[r])
    BY <1>4, <2>2
  <2> QED
    BY <2>1, <2>3 DEF CriticalRetained
<1> QED
  BY <1>1, <1>2, <1>3, <1>5, <1>6

\* receive_data: whatever the order of arrival, the run taken continues the
\* prefix already taken, because every frame held is the log's.
LEMMA DataKeepsChannel ==
  ASSUME ChannelInv, NEW q \in Peer, NEW s \in 1 .. Len(log[Other(q)]), NEW e,
         e = log[Other(q)][s], ReceiveData(q, s, e)
  PROVE  ChannelInv' /\ Grows
<1> USE DEF ChannelInv
<1>1. UNCHANGED <<sendVars, log>>
  BY DEF ReceiveData
<1>2. /\ Other(q) \in Peer /\ log[Other(q)] \in Seq(Entry)
      /\ Len(log[Other(q)]) \in Nat /\ s \in Nat /\ e \in Entry
      /\ last_contiguous[q] \in Nat
      /\ IsBuffer(reorder_buffer[q])
  BY OtherPeer DEF ChannelTypeOK, HistoryTypeOK, ReceiveTypeOK
<1>3. ack_pending' \in [Peer -> BOOLEAN]
  BY DEF ReceiveData, ChannelTypeOK, ReceiveTypeOK
<1>4. CASE DropDuplicate(q, s)
  <2>1. UNCHANGED <<last_contiguous, reorder_buffer, accepted>>
    BY <1>4 DEF DropDuplicate
  <2>2. ReceiveTypeOK' /\ accepted' \in [Peer -> Seq(Entry)]
    BY <1>3, <2>1 DEF ChannelTypeOK, ReceiveTypeOK, HistoryTypeOK, IsBuffer
  <2>3. HeldMatchesLog' /\ AcceptedMatchesLog'
    BY <1>1, <2>1 DEF HeldMatchesLog, AcceptedMatchesLog
  <2>4. \A r \in Peer : last_contiguous[r] <= last_contiguous'[r]
    BY <2>1 DEF ChannelTypeOK, ReceiveTypeOK
  <2> QED
    BY <1>1, <2>2, <2>3, <2>4, ReceivingKeepsChannel
<1>5. CASE HoldForLater(q, s, e)
  <2> DEFINE held == [t \in DOMAIN reorder_buffer[q] \cup {s} |->
                        IF t \in DOMAIN reorder_buffer[q]
                        THEN reorder_buffer[q][t] ELSE e]
  <2>1. /\ UNCHANGED <<last_contiguous, accepted>>
        /\ reorder_buffer'[q] = held
        /\ DOMAIN reorder_buffer' = Peer
        /\ \A r \in Peer : r # q => reorder_buffer'[r] = reorder_buffer[r]
    BY <1>5 DEF HoldForLater, ChannelTypeOK, ReceiveTypeOK
  <2>2. IsBuffer(held)
    <3>1. DOMAIN held \subseteq Nat /\ \A t \in DOMAIN held : held[t] \in Entry
      BY <1>2 DEF IsBuffer
    <3>2. held = [t \in DOMAIN held |-> held[t]]
      OBVIOUS
    <3> QED
      BY <3>1, <3>2 DEF IsBuffer
  <2>3. \A t \in DOMAIN held :
          t \in 1 .. Len(log[Other(q)]) /\ held[t] = log[Other(q)][t]
    BY DEF HeldMatchesLog
  <2> HIDE DEF held
  <2>4. ReceiveTypeOK' /\ accepted' \in [Peer -> Seq(Entry)]
    <3>1. \A r \in Peer : IsBuffer(reorder_buffer[r])'
      BY <2>1, <2>2 DEF ChannelTypeOK, ReceiveTypeOK
    <3> QED
      BY <1>3, <2>1, <3>1 DEF ChannelTypeOK, ReceiveTypeOK, HistoryTypeOK
  <2>5. HeldMatchesLog'
    BY <1>1, <2>1, <2>3 DEF HeldMatchesLog
  <2>6. AcceptedMatchesLog'
    BY <1>1, <2>1 DEF AcceptedMatchesLog
  <2>7. \A r \in Peer : last_contiguous[r] <= last_contiguous'[r]
    BY <2>1 DEF ChannelTypeOK, ReceiveTypeOK
  <2> QED
    BY <1>1, <2>4, <2>5, <2>6, <2>7, ReceivingKeepsChannel
<1>6. CASE AcceptRun(q, s, e)
  <2> DEFINE lc   == last_contiguous[q]
             held == [t \in DOMAIN reorder_buffer[q] \cup {s} |->
                        IF t = s THEN e ELSE reorder_buffer[q][t]]
             top  == EndOfRun(lc, DOMAIN held)
             run  == [i \in 1 .. top - lc |-> held[lc + i]]
             rest == [t \in DOMAIN reorder_buffer[q] \ (s .. top) |->
                        reorder_buffer[q][t]]
  <2>1. /\ s = lc + 1
        /\ last_contiguous' = [last_contiguous EXCEPT ![q] = top]
        /\ reorder_buffer' = [reorder_buffer EXCEPT ![q] = rest]
        /\ accepted' = [accepted EXCEPT ![q] = @ \o run]
    BY <1>6 DEF AcceptRun, ChannelTypeOK, ReceiveTypeOK, HistoryTypeOK
  <2>2. /\ DOMAIN held \subseteq 1 .. Len(log[Other(q)])
        /\ s \in DOMAIN held
        /\ \A t \in DOMAIN held : held[t] = log[Other(q)][t]
    BY DEF HeldMatchesLog
  <2>3. IsBuffer(rest) /\ \A t \in DOMAIN rest :
          t \in 1 .. Len(log[Other(q)]) /\ rest[t] = log[Other(q)][t]
    BY <1>2 DEF IsBuffer, HeldMatchesLog
  <2> HIDE DEF held
  <2>4. /\ top \in DOMAIN held /\ top \in Nat /\ top > lc
        /\ (lc + 1) .. top \subseteq DOMAIN held
    BY <1>2, <2>1, <2>2, EndOfRunProperties
  <2> HIDE DEF top, rest
  <2>5. top <= Len(log[Other(q)])
    BY <1>2, <2>2, <2>4
  <2>6. \A t \in (lc + 1) .. top : held[t] \in Entry
    BY <1>2, <2>2, <2>4, ElementOfSeq
  <2>7. run \in Seq(Entry) /\ Len(run) = top - lc
    BY <1>2, <2>4, <2>6, RunProperties
  <2>8. \A i \in 1 .. top - lc : run[i] = log[Other(q)][lc + i]
    <3>1. \A i \in 1 .. top - lc : lc + i \in (lc + 1) .. top
      BY <1>2, <2>4
    <3> QED
      BY <2>2, <2>4, <3>1
  <2> HIDE DEF run
  <2>9. accepted[q] \in Seq(Entry) /\ Len(accepted[q]) = lc
        /\ \A i \in 1 .. lc : accepted[q][i] = log[Other(q)][i]
    BY DEF ChannelTypeOK, HistoryTypeOK, AcceptedMatchesLog
  <2>10. /\ accepted[q] \o run \in Seq(Entry)
         /\ Len(accepted[q] \o run) = top
         /\ \A i \in 1 .. lc : (accepted[q] \o run)[i] = accepted[q][i]
         /\ \A i \in 1 .. top - lc : (accepted[q] \o run)[lc + i] = run[i]
    <3>1. /\ accepted[q] \o run \in Seq(Entry)
          /\ Len(accepted[q] \o run) = Len(accepted[q]) + Len(run)
          /\ \A i \in 1 .. Len(accepted[q]) :
               (accepted[q] \o run)[i] = accepted[q][i]
          /\ \A i \in 1 .. Len(run) :
               (accepted[q] \o run)[Len(accepted[q]) + i] = run[i]
      <4>1. accepted[q] \in Seq(Entry) /\ run \in Seq(Entry)
        BY <2>7, <2>9
      <4> QED
        BY ONLY <4>1, ConcatPointwise
    <3>2. /\ Len(accepted[q]) = lc /\ Len(run) = top - lc
          /\ lc + (top - lc) = top
      BY <1>2, <2>4, <2>7, <2>9
    <3> HIDE DEF lc
    <3> QED
      BY <3>1, <3>2
  <2>11. \A i \in 1 .. top : (accepted[q] \o run)[i] = log[Other(q)][i]
    <3>1. SUFFICES ASSUME NEW i \in 1 .. top
                   PROVE  (accepted[q] \o run)[i] = log[Other(q)][i]
      OBVIOUS
    <3>2. CASE i \in 1 .. lc
      BY <2>9, <2>10, <3>2
    <3>3. CASE i \notin 1 .. lc
      <4>1. i - lc \in 1 .. top - lc /\ lc + (i - lc) = i
        BY <1>2, <2>4, <3>3
      <4>2. (accepted[q] \o run)[i] = run[i - lc]
        BY <2>10, <4>1
      <4> QED
        BY <2>8, <4>1, <4>2
    <3> QED
      BY <3>2, <3>3
  <2>12. /\ DOMAIN reorder_buffer' = Peer
         /\ reorder_buffer'[q] = rest
         /\ last_contiguous'[q] = top
         /\ accepted'[q] = accepted[q] \o run
         /\ \A r \in Peer : r # q => /\ reorder_buffer'[r] = reorder_buffer[r]
                                     /\ last_contiguous'[r] = last_contiguous[r]
                                     /\ accepted'[r] = accepted[r]
    BY <2>1 DEF ChannelTypeOK, ReceiveTypeOK, HistoryTypeOK
  <2>13. ReceiveTypeOK' /\ accepted' \in [Peer -> Seq(Entry)]
    <3>1. \A r \in Peer : IsBuffer(reorder_buffer[r])'
      BY <2>3, <2>12 DEF ChannelTypeOK, ReceiveTypeOK
    <3>2. last_contiguous' \in [Peer -> Nat]
      BY <2>1, <2>4 DEF ChannelTypeOK, ReceiveTypeOK
    <3>3. accepted' \in [Peer -> Seq(Entry)]
      BY <2>1, <2>10 DEF ChannelTypeOK, HistoryTypeOK
    <3> QED
      BY <1>3, <2>12, <3>1, <3>2, <3>3 DEF ReceiveTypeOK
  <2>14. HeldMatchesLog'
    BY <1>1, <2>3, <2>12 DEF HeldMatchesLog
  <2>15. AcceptedMatchesLog'
    <3>1. ASSUME NEW r \in Peer
          PROVE  /\ Len(accepted'[r]) = last_contiguous'[r]
                 /\ last_contiguous'[r] <= Len(log[Other(r)])
                 /\ \A i \in 1 .. last_contiguous'[r] :
                      accepted'[r][i] = log[Other(r)][i]
      <4>1. CASE r = q
        BY <2>5, <2>10, <2>11, <2>12, <4>1
      <4>2. CASE r # q
        BY <2>12, <4>2 DEF AcceptedMatchesLog
      <4> QED
        BY <4>1, <4>2
    <3> QED
      BY <1>1, <3>1 DEF AcceptedMatchesLog
  <2>16. \A r \in Peer : last_contiguous[r] <= last_contiguous'[r]
    BY <1>2, <2>4, <2>12 DEF ChannelTypeOK, ReceiveTypeOK
  <2> QED
    BY <1>1, <2>13, <2>14, <2>15, <2>16, ReceivingKeepsChannel
<1> QED
  BY <1>4, <1>5, <1>6 DEF ReceiveData

\* tick only clears ack_pending.
LEMMA TickKeepsChannel ==
  ASSUME ChannelInv, NEW q \in Peer, Tick(q)
  PROVE  ChannelInv' /\ Grows
<1> USE DEF ChannelInv
<1>1. UNCHANGED <<sendVars, log, last_contiguous, reorder_buffer, accepted>>
  BY DEF Tick, histVars
<1>2. ReceiveTypeOK' /\ accepted' \in [Peer -> Seq(Entry)]
  BY <1>1 DEF Tick, ChannelTypeOK, ReceiveTypeOK, HistoryTypeOK, IsBuffer
<1>3. HeldMatchesLog' /\ AcceptedMatchesLog'
  BY <1>1 DEF HeldMatchesLog, AcceptedMatchesLog
<1>4. \A r \in Peer : last_contiguous[r] <= last_contiguous'[r]
  BY <1>1 DEF ChannelTypeOK, ReceiveTypeOK
<1> QED
  BY <1>1, <1>2, <1>3, <1>4, ReceivingKeepsChannel

\* A step of the wire alone leaves both ends as they are.
LEMMA NothingKeepsChannel ==
  ASSUME ChannelInv, UNCHANGED channelVars
  PROVE  ChannelInv' /\ Grows
<1> USE DEF ChannelInv
<1>1. UNCHANGED <<sendVars, log, last_contiguous, reorder_buffer, ack_pending,
                  accepted>>
  BY DEF channelVars, recvVars, histVars
<1>2. ReceiveTypeOK' /\ accepted' \in [Peer -> Seq(Entry)]
  BY <1>1 DEF ChannelTypeOK, ReceiveTypeOK, HistoryTypeOK, IsBuffer
<1>3. HeldMatchesLog' /\ AcceptedMatchesLog'
  BY <1>1 DEF HeldMatchesLog, AcceptedMatchesLog
<1>4. \A r \in Peer : last_contiguous[r] <= last_contiguous'[r]
  BY <1>1 DEF ChannelTypeOK, ReceiveTypeOK
<1> QED
  BY <1>1, <1>2, <1>3, <1>4, ReceivingKeepsChannel

----------------------------------------------------------------------------
(* The wire *)

\* A frame that was sound stays sound: logs and acceptance only grow.
LEMMA SoundStays ==
  ASSUME ChannelInv, ChannelInv', Grows, NEW p \in Peer, NEW f, Sound(p, f)
  PROVE  Sound(p, f)'
<1>1. /\ Other(p) \in Peer
      /\ Len(log[Other(p)]) \in Nat /\ Len(log'[Other(p)]) \in Nat
      /\ last_contiguous[Other(p)] \in Nat
      /\ last_contiguous'[Other(p)] \in Nat
  BY OtherPeer DEF ChannelInv, ChannelTypeOK, HistoryTypeOK, ReceiveTypeOK
<1>2. /\ last_contiguous[Other(p)] <= last_contiguous'[Other(p)]
      /\ Len(log[Other(p)]) <= Len(log'[Other(p)])
      /\ \A i \in 1 .. Len(log[Other(p)]) :
           log'[Other(p)][i] = log[Other(p)][i]
  BY <1>1 DEF Grows
<1>3. f.type = "ack" => f.ack_seq \in Nat
  BY DEF Sound, DataFrames, AckFrames
<1> QED
  BY <1>1, <1>2, <1>3 DEF Sound

\* The wire part of the invariant, for a step that keeps the channel part: all
\* there is on the wire was there before or is sound.
LEMMA WireKept ==
  ASSUME IInv, ChannelInv', Grows,
         DOMAIN net' = Peer, net' = [p \in Peer |-> net'[p]],
         \A p \in Peer : \A f \in net'[p] :
           f \in net[p] \/ Sound(p, f) \/ Sound(p, f)'
  PROVE  IInv'
<1>1. ASSUME NEW p \in Peer, NEW f \in net'[p] PROVE Sound(p, f)'
  <2>1. CASE f \in net[p] \/ Sound(p, f)
    <3>1. Sound(p, f)
      BY <2>1 DEF IInv, WireInv
    <3> QED
      BY <3>1, SoundStays DEF IInv
  <2> QED
    BY <2>1
<1>2. WireInv'
  BY <1>1 DEF WireInv
<1> QED
  BY <1>2 DEF IInv

\* A replayed frame is the log's, because the buffered one is.
LEMMA ReplaySound ==
  ASSUME ChannelInv, NEW p \in Peer, NEW S \in SUBSET DOMAIN send_buffer[p],
         NEW f \in Replay(p, S)
  PROVE  Sound(Other(p), f)
<1>1. PICK s \in S : f = DataFrame(s, send_buffer[p][s])
  BY DEF Replay
<1>2. /\ s \in 1 .. Len(log[p])
      /\ send_buffer[p][s] = log[p][s]
      /\ Len(log[p]) \in Nat
      /\ send_buffer[p][s] \in Entry
  BY DEF ChannelInv, ChannelTypeOK, HistoryTypeOK, SendTypeOK, IsBuffer,
         BufferMatchesLog
<1>3. f \in DataFrames /\ f.type = "data" /\ f.seq = s
      /\ f.entry = send_buffer[p][s]
  BY <1>1, <1>2 DEF DataFrame, DataFrames
<1> QED
  BY <1>2, <1>3, OtherPeer DEF Sound

\* An ack of last_contiguous is sound when it is sent.
LEMMA AckSound ==
  ASSUME ChannelInv, NEW q \in Peer
  PROVE  Sound(Other(q), AckFrame(last_contiguous[q]))
<1>1. last_contiguous[q] \in Nat
  BY DEF ChannelInv, ChannelTypeOK, ReceiveTypeOK
<1> QED
  BY <1>1, OtherPeer DEF Sound, AckFrame, AckFrames

----------------------------------------------------------------------------
(* The steps *)

\* send puts the new frames on the wire under the numbers the log gives them.
LEMMA SendMessageKeepsIInv ==
  ASSUME IInv, NEW p \in Peer, SendMessage(p)
  PROVE  IInv'
<1>1. PICK n \in 1 .. MaxChunks, pri \in SendPriority[p] :
        /\ Send(p, n, pri)
        /\ net' = [net EXCEPT ![Other(p)] = @ \cup
             {DataFrame(next_seq[p] + i - 1, MessageEntries(p, n, pri)[i]) :
                i \in 1 .. n}]
  BY DEF SendMessage
<1>2. pri \in Priority
  BY SendPriorityAssumption
<1>3. ChannelInv' /\ Grows
  BY <1>1, <1>2, SendKeepsChannel DEF IInv
<1> DEFINE es == MessageEntries(p, n, pri)
<1>4. /\ es \in Seq(Entry) /\ Len(es) = n
      /\ Len(log[p]) \in Nat /\ next_seq[p] = Len(log[p]) + 1
      /\ Len(log'[p]) = Len(log[p]) + n
      /\ \A i \in 1 .. n : log'[p][Len(log[p]) + i] = es[i]
  BY <1>1, <1>2, SendAppends DEF IInv
<1> HIDE DEF es
<1>5. ASSUME NEW i \in 1 .. n, NEW f, f = DataFrame(next_seq[p] + i - 1, es[i])
      PROVE  Sound(Other(p), f)'
  <2>1. PICK s : s = next_seq[p] + i - 1
    OBVIOUS
  <2>2. s = Len(log[p]) + i /\ s \in Nat \ {0} /\ s \in 1 .. Len(log'[p])
    BY <1>4, <2>1, MaxChunksAssumption
  <2>3. es[i] \in Entry /\ log'[p][s] = es[i]
    BY <1>4, <2>2, ElementOfSeq
  <2>4. f \in DataFrames /\ f.type = "data" /\ f.seq = s /\ f.entry = es[i]
    BY <1>5, <2>1, <2>2, <2>3 DEF DataFrame, DataFrames
  <2>5. Other(Other(p)) = p
    BY OtherPeer
  <2> QED
    BY <2>2, <2>3, <2>4, <2>5 DEF Sound
<1>6. ASSUME NEW r \in Peer, NEW f \in net'[r]
      PROVE  f \in net[r] \/ Sound(r, f)'
  <2>1. CASE f \in net[r]
    BY <2>1
  <2>2. CASE f \notin net[r]
    <3>1. /\ r = Other(p)
          /\ \E i \in 1 .. n : f = DataFrame(next_seq[p] + i - 1, es[i])
      BY <1>1, <2>2 DEF IInv, WireInv, es
    <3> QED
      BY <1>5, <3>1
  <2> QED
    BY <2>1, <2>2
<1>7. DOMAIN net' = Peer /\ net' = [r \in Peer |-> net'[r]]
  BY <1>1 DEF IInv, WireInv
<1> QED
  BY <1>3, <1>6, <1>7, WireKept

\* receive_data takes, holds or drops a sound frame and sends nothing.
LEMMA DeliverDataKeepsIInv ==
  ASSUME IInv, NEW q \in Peer, NEW f \in net[q], DeliverData(q, f)
  PROVE  IInv'
<1>1. /\ f.seq \in 1 .. Len(log[Other(q)])
      /\ f.entry = log[Other(q)][f.seq]
  BY DEF DeliverData, IInv, WireInv, Sound
<1>2. ChannelInv' /\ Grows
  BY <1>1, DataKeepsChannel DEF DeliverData, IInv
<1>3. /\ DOMAIN net' = Peer /\ net' = [r \in Peer |-> net'[r]]
      /\ \A r \in Peer : net'[r] \subseteq net[r]
  BY DEF DeliverData, Arrival, IInv, WireInv
<1> QED
  BY <1>2, <1>3, WireKept

\* receive_ack drops what was taken; what it replays comes from the buffer.
LEMMA DeliverAckKeepsIInv ==
  ASSUME IInv, NEW p \in Peer, NEW f \in net[p], DeliverAck(p, f)
  PROVE  IInv'
<1>1. f.ack_seq \in Nat /\ f.ack_seq <= last_contiguous[Other(p)]
  BY DEF DeliverAck, IInv, WireInv, Sound, DataFrames, AckFrames
<1>2. ChannelInv' /\ Grows
  BY <1>1, AckKeepsChannel DEF DeliverAck, IInv
<1> DEFINE S == AckReplay(p, f.ack_seq)
<1>3. S \in SUBSET DOMAIN send_buffer[p]
  BY DEF AckReplay, Replayable
<1> HIDE DEF S
<1>4. \A g \in Replay(p, S) : Sound(Other(p), g)
  BY <1>3, ReplaySound DEF IInv
<1>5. /\ DOMAIN net' = Peer /\ net' = [r \in Peer |-> net'[r]]
      /\ \A r \in Peer : \A g \in net'[r] :
           g \in net[r] \/ (r = Other(p) /\ g \in Replay(p, S))
  <2>1. PICK rest \in SUBSET net[p] :
          net' = [net EXCEPT ![p] = rest, ![Other(p)] = @ \cup Replay(p, S)]
    BY DEF DeliverAck, Arrival, S
  <2>2. Other(p) \in Peer /\ Other(p) # p /\ DOMAIN net = Peer
    BY OtherPeer DEF IInv, WireInv
  <2> QED
    BY <2>1, <2>2
<1> QED
  BY <1>2, <1>4, <1>5, WireKept

\* tick sends an ack of last_contiguous.
LEMMA SendAckKeepsIInv ==
  ASSUME IInv, NEW q \in Peer, SendAck(q)
  PROVE  IInv'
<1>1. ChannelInv' /\ Grows
  BY TickKeepsChannel DEF SendAck, IInv
<1>2. Sound(Other(q), AckFrame(last_contiguous[q]))
  BY AckSound DEF IInv
<1>3. /\ DOMAIN net' = Peer /\ net' = [r \in Peer |-> net'[r]]
      /\ \A r \in Peer : \A g \in net'[r] :
           \/ g \in net[r]
           \/ r = Other(q) /\ g = AckFrame(last_contiguous[q])
  BY DEF SendAck, IInv, WireInv
<1> QED
  BY <1>1, <1>2, <1>3, WireKept

\* keepalive_all sends the same ack and changes no end.
LEMMA KeepaliveKeepsIInv ==
  ASSUME IInv, NEW q \in Peer, Keepalive(q)
  PROVE  IInv'
<1>1. ChannelInv' /\ Grows
  BY NothingKeepsChannel DEF Keepalive, IInv
<1>2. Sound(Other(q), AckFrame(last_contiguous[q]))
  BY AckSound DEF IInv
<1>3. /\ DOMAIN net' = Peer /\ net' = [r \in Peer |-> net'[r]]
      /\ \A r \in Peer : \A g \in net'[r] :
           \/ g \in net[r]
           \/ r = Other(q) /\ g = AckFrame(last_contiguous[q])
  BY DEF Keepalive, IInv, WireInv
<1> QED
  BY <1>1, <1>2, <1>3, WireKept

\* add_transport and remove_transport resend what the buffer holds.
LEMMA ChangeTransportKeepsIInv ==
  ASSUME IInv, NEW p \in Peer, ChangeTransport(p)
  PROVE  IInv'
<1>1. ChannelInv' /\ Grows
  BY NothingKeepsChannel DEF ChangeTransport, IInv
<1> DEFINE S == FlushReplay(p)
<1>2. S \in SUBSET DOMAIN send_buffer[p]
  BY DEF FlushReplay, Replayable
<1> HIDE DEF S
<1>3. \A g \in Replay(p, S) : Sound(Other(p), g)
  BY <1>2, ReplaySound DEF IInv
<1>4. /\ DOMAIN net' = Peer /\ net' = [r \in Peer |-> net'[r]]
      /\ \A r \in Peer : \A g \in net'[r] :
           g \in net[r] \/ (r = Other(p) /\ g \in Replay(p, S))
  BY DEF ChangeTransport, IInv, WireInv, S
<1> QED
  BY <1>1, <1>3, <1>4, WireKept

\* A frame lost takes nothing but itself away.
LEMMA LoseKeepsIInv ==
  ASSUME IInv, NEW q \in Peer, NEW f \in net[q], Lose(q, f)
  PROVE  IInv'
<1>1. ChannelInv' /\ Grows
  BY NothingKeepsChannel DEF Lose, IInv
<1>2. /\ DOMAIN net' = Peer /\ net' = [r \in Peer |-> net'[r]]
      /\ \A r \in Peer : net'[r] \subseteq net[r]
  BY DEF Lose, IInv, WireInv
<1> QED
  BY <1>1, <1>2, WireKept

\* The invariant holds at the start: nothing is buffered or under way.
LEMMA InitEstablishesIInv ==
  ASSUME Init
  PROVE  IInv
<1> USE DEF Init, ChannelInit
<1>1. IsBuffer(<<>>)
  BY DEF IsBuffer
<1>2. ChannelTypeOK
  BY <1>1 DEF ChannelTypeOK, SendTypeOK, ReceiveTypeOK, HistoryTypeOK,
              DupAckThreshold
<1>3. ChannelInv
  BY <1>2, OtherPeer DEF ChannelInv, NumbersFollowLog, BufferMatchesLog,
         HeldMatchesLog, AcceptedMatchesLog, AcksCovered, CriticalRetained
<1>4. WireInv
  BY DEF WireInv
<1> QED
  BY <1>3, <1>4 DEF IInv

\* No step breaks the invariant.
LEMMA NextKeepsIInv ==
  ASSUME IInv, [Next]_vars
  PROVE  IInv'
<1>1. ASSUME NEW p \in Peer, SendMessage(p) PROVE IInv'
  BY <1>1, SendMessageKeepsIInv
<1>2. ASSUME NEW p \in Peer, NEW f \in net[p], DeliverData(p, f) PROVE IInv'
  BY <1>2, DeliverDataKeepsIInv
<1>3. ASSUME NEW p \in Peer, NEW f \in net[p], DeliverAck(p, f) PROVE IInv'
  BY <1>3, DeliverAckKeepsIInv
<1>4. ASSUME NEW p \in Peer, NEW f \in net[p], Lose(p, f) PROVE IInv'
  BY <1>4, LoseKeepsIInv
<1>5. ASSUME NEW p \in Peer, SendAck(p) PROVE IInv'
  BY <1>5, SendAckKeepsIInv
<1>6. ASSUME NEW p \in Peer, Keepalive(p) PROVE IInv'
  BY <1>6, KeepaliveKeepsIInv
<1>7. ASSUME NEW p \in Peer, ChangeTransport(p) PROVE IInv'
  BY <1>7, ChangeTransportKeepsIInv
<1>8. CASE UNCHANGED vars
  <2>1. ChannelInv' /\ Grows
    BY <1>8, NothingKeepsChannel DEF vars, IInv
  <2>2. net' = net
    BY <1>8 DEF vars
  <2> QED
    BY <2>1, <2>2, WireKept DEF IInv, WireInv
<1> QED
  BY <1>1, <1>2, <1>3, <1>4, <1>5, <1>6, <1>7, <1>8 DEF Next

----------------------------------------------------------------------------
(* The theorems *)

\* The inductive invariant holds of every behaviour: every copy of a frame,
\* in channel.rs's buffers or on a transport, is what the sender was handed
\* under that sequence number.
THEOREM Invariance == Spec => []IInv
<1>1. Init => IInv
  BY InitEstablishesIInv
<1>2. IInv /\ [Next]_vars => IInv'
  BY NextKeepsIInv
<1> QED
  BY <1>1, <1>2, PTL DEF Spec

\* Type correctness of both ends and of the wire, for any buffer limit.
THEOREM TypeCorrect == Spec => []TypeOK
<1>1. IInv => TypeOK
  <2>1. SUFFICES ASSUME IInv PROVE TypeOK
    OBVIOUS
  <2>2. net \in [Peer -> SUBSET (DataFrames \cup AckFrames)]
    BY <2>1 DEF IInv, WireInv, Sound
  <2> QED
    BY <2>1, <2>2 DEF TypeOK, IInv, ChannelInv, ChannelTypeOK
<1> QED
  BY <1>1, Invariance, PTL

\* receive_data gives the frames in order and each once, whatever is lost,
\* replayed, reordered or evicted.
THEOREM OrderedOnce == Spec => []InOrderOnce
<1>1. IInv => InOrderOnce
  <2>1. SUFFICES ASSUME IInv, NEW p \in Peer
                 PROVE  /\ Len(accepted[p]) = last_contiguous[p]
                        /\ IsPrefix(accepted[p], log[Other(p)])
    BY DEF InOrderOnce
  <2>2. /\ accepted[p] \in Seq(Entry) /\ log[Other(p)] \in Seq(Entry)
        /\ Len(accepted[p]) = last_contiguous[p]
        /\ Len(accepted[p]) <= Len(log[Other(p)])
        /\ \A i \in 1 .. Len(accepted[p]) : accepted[p][i] = log[Other(p)][i]
    BY <2>1, OtherPeer DEF IInv, ChannelInv, ChannelTypeOK, HistoryTypeOK,
                           AcceptedMatchesLog
  <2> QED
    BY <2>2, PrefixPointwise
<1> QED
  BY <1>1, Invariance, PTL

\* receive_ack never drops a frame the other end has not taken.
THEOREM AcksAreHonest == Spec => []AckedIsAccepted
<1>1. IInv => AckedIsAccepted
  BY DEF IInv, ChannelInv, WireInv, Sound, AcksCovered, AckedIsAccepted
<1> QED
  BY <1>1, Invariance, PTL

\* Eviction from a full send_buffer never takes a Critical frame that may
\* still have to be replayed.
THEOREM CriticalStays == Spec => []CriticalRetained
<1>1. IInv => CriticalRetained
  BY DEF IInv, ChannelInv
<1> QED
  BY <1>1, Invariance, PTL

----------------------------------------------------------------------------
(* Reassembly: the messages handed up are the messages handed over *)

\* The number of the last frame of message m, 0 before the first message.
EndOfMessage(M, m) == IF m = 0 THEN 0 ELSE M[m][Len(M[m])]

\* The messages M cut the log L into consecutive, tagged pieces: message m
\* holds the numbers that follow message m - 1.
CutIntoMessages(M, L) ==
  /\ M \in Seq(Seq(Nat))
  /\ EndOfMessage(M, Len(M)) = Len(L)
  /\ \A m \in 1 .. Len(M) :
       /\ EndOfMessage(M, m - 1) \in Nat
       /\ Len(M[m]) >= 1
       /\ EndOfMessage(M, m - 1) + Len(M[m]) <= Len(L)
       /\ \A j \in 1 .. Len(M[m]) :
            /\ M[m][j] = EndOfMessage(M, m - 1) + j
            /\ L[EndOfMessage(M, m - 1) + j].data = EndOfMessage(M, m - 1) + j
            /\ L[EndOfMessage(M, m - 1) + j].tag = ChunkTag(j, Len(M[m]))

\* Frame k is inside the message after the first d, of which `assembly` holds
\* what came.
InMessage(M, k, d, assembly) ==
  /\ d < Len(M)
  /\ EndOfMessage(M, d) < k
  /\ k < EndOfMessage(M, d) + Len(M[d + 1])
  /\ assembly \in Seq(Nat)
  /\ Len(assembly) = k - EndOfMessage(M, d)
  /\ \A j \in 1 .. Len(assembly) : assembly[j] = EndOfMessage(M, d) + j

\* After k frames of M, `out` holds the messages that ended, and `assembly`
\* the beginning of the next one, if it has begun.
Parsed(M, k, out, assembly) ==
  /\ out \in Seq(Seq(Nat))
  /\ Len(out) <= Len(M)
  /\ \A m \in 1 .. Len(out) : out[m] = M[m]
  /\ \/ k = EndOfMessage(M, Len(out))
     \/ InMessage(M, k, Len(out), assembly)

\* What the reassembly of an end knows of the messages of the other one.
MessageInv ==
  /\ DOMAIN sent = Peer /\ DOMAIN delivered = Peer /\ DOMAIN chunk_assembly = Peer
  /\ \A p \in Peer :
       /\ CutIntoMessages(sent[p], log[p])
       /\ Parsed(sent[Other(p)], last_contiguous[p], delivered[p],
                 chunk_assembly[p])

\* Frame k + 1 is frame j of a message of n, after d messages of b frames.
FramePlace(M, L, k, out, assembly, d, b, n, j) ==
  /\ d = Len(out) /\ d \in Nat /\ d < Len(M)
  /\ b = EndOfMessage(M, d) /\ b \in Nat
  /\ n = Len(M[d + 1]) /\ n \in Nat
  /\ j \in 1 .. n /\ b + j = k + 1
  /\ M[d + 1] \in Seq(Nat)
  /\ \A i \in 1 .. n : M[d + 1][i] = b + i
  /\ EndOfMessage(M, d + 1) = b + n
  /\ L[k + 1].data = k + 1
  /\ L[k + 1].tag = ChunkTag(j, n)
  /\ j > 1 => /\ assembly \in Seq(Nat)
              /\ Len(assembly) = j - 1
              /\ \A i \in 1 .. j - 1 : assembly[i] = b + i

\* The next frame belongs to the first message that has not ended.
LEMMA NextFramePlace ==
  ASSUME NEW M, NEW L \in Seq(Entry), CutIntoMessages(M, L),
         NEW k \in Nat, k < Len(L),
         NEW out, NEW assembly, Parsed(M, k, out, assembly)
  PROVE  \E d, b, n, j : FramePlace(M, L, k, out, assembly, d, b, n, j)
<1> DEFINE d == Len(out)
           b == EndOfMessage(M, d)
           n == Len(M[d + 1])
           j == (k + 1) - b
<1>1. d \in Nat /\ Len(L) \in Nat /\ Len(M) \in Nat
  BY DEF Parsed, CutIntoMessages
<1>2. d < Len(M)
  <2>1. CASE k = b
    BY <2>1, <1>1 DEF Parsed, CutIntoMessages
  <2>2. CASE k # b
    BY <2>2 DEF Parsed, InMessage
  <2> QED
    BY <2>1, <2>2
<1>3. d + 1 \in 1 .. Len(M) /\ (d + 1) - 1 = d
  BY <1>1, <1>2
<1>4. /\ b \in Nat /\ n >= 1
      /\ \A i \in 1 .. n : /\ M[d + 1][i] = b + i
                           /\ L[b + i].data = b + i
                           /\ L[b + i].tag = ChunkTag(i, n)
  BY <1>3 DEF CutIntoMessages
<1>5. M[d + 1] \in Seq(Nat) /\ n \in Nat
  <2>1. M[d + 1] \in Seq(Nat)
    BY <1>3, ElementOfSeq DEF CutIntoMessages
  <2> QED
    BY <2>1
<1>6. EndOfMessage(M, d + 1) = b + n
  <2>1. n \in 1 .. n /\ d + 1 # 0
    BY <1>1, <1>4, <1>5
  <2> QED
    BY <1>4, <2>1 DEF EndOfMessage
<1>7. /\ j \in 1 .. n
      /\ b + j = k + 1
      /\ j > 1 => /\ assembly \in Seq(Nat) /\ Len(assembly) = j - 1
                  /\ \A i \in 1 .. j - 1 : assembly[i] = b + i
  <2>1. CASE k = b
    BY <2>1, <1>4, <1>5
  <2>2. CASE k # b
    <3>1. /\ b < k /\ k < b + n
          /\ assembly \in Seq(Nat) /\ Len(assembly) = k - b
          /\ \A i \in 1 .. Len(assembly) : assembly[i] = b + i
      BY <2>2 DEF Parsed, InMessage
    <3> HIDE DEF b, n, d
    <3> QED
      BY <1>4, <1>5, <3>1
  <2> QED
    BY <2>1, <2>2
<1>8. d = Len(out) /\ b = EndOfMessage(M, d) /\ n = Len(M[d + 1])
  OBVIOUS
<1>9. FramePlace(M, L, k, out, assembly, d, b, n, j)
  <2> HIDE DEF d, b, n, j
  <2>1. L[k + 1].data = k + 1 /\ L[k + 1].tag = ChunkTag(j, n)
    <3>1. L[b + j].data = b + j /\ L[b + j].tag = ChunkTag(j, n)
      BY <1>4, <1>7
    <3> QED
      BY <1>7, <3>1
  <2>2. \A i \in 1 .. n : M[d + 1][i] = b + i
    BY <1>4
  <2> QED
    BY <1>1, <1>2, <1>4, <1>5, <1>6, <1>7, <1>8, <2>1, <2>2, Zenon DEF FramePlace
<1> HIDE DEF d, b, n, j
<1> QED
  BY <1>9

\* process_chunk on frame k + 1: it ends a message, which is then handed up
\* whole, or the assembly grows by one.
LEMMA ChunkParsed ==
  ASSUME NEW M, NEW L \in Seq(Entry), CutIntoMessages(M, L), NEW k \in Nat, k < Len(L),
         NEW given \in Seq(Seq(Nat)), NEW out \in Seq(Seq(Nat)), NEW assembly,
         NEW st, st = [assembly |-> assembly, out |-> out],
         Parsed(M, k, given \o out, assembly)
  PROVE  LET r == ProcessChunk(st, L[k + 1]) IN
         /\ r = [assembly |-> r.assembly, out |-> r.out]
         /\ r.out \in Seq(Seq(Nat))
         /\ Parsed(M, k + 1, given \o r.out, r.assembly)
<1> DEFINE all == given \o out
           e == L[k + 1]
           r == ProcessChunk(st, e)
           Goal == /\ r = [assembly |-> r.assembly, out |-> r.out]
                   /\ r.out \in Seq(Seq(Nat))
                   /\ Parsed(M, k + 1, given \o r.out, r.assembly)
<1>0. SUFFICES Goal
  OBVIOUS
<1>1. PICK d, b, n, j : FramePlace(M, L, k, all, assembly, d, b, n, j)
  BY NextFramePlace
<1>2. all \in Seq(Seq(Nat)) /\ M \in Seq(Seq(Nat))
  BY DEF CutIntoMessages
<1>3. st.assembly = assembly /\ st.out = out
  OBVIOUS
<1>4. e.data = k + 1 /\ e.tag = ChunkTag(j, n)
  BY <1>1 DEF FramePlace
<1>5. Parsed(M, k, all, assembly)
  OBVIOUS
<1> HIDE DEF Goal, all, e, r
<1>6. d = Len(all) /\ d \in Nat /\ d < Len(M)
  BY <1>1 DEF FramePlace
<1>7. b \in Nat /\ n \in Nat /\ j \in 1 .. n /\ b + j = k + 1
  BY <1>1 DEF FramePlace
<1>8. /\ M[d + 1] \in Seq(Nat) /\ n = Len(M[d + 1])
      /\ \A i \in 1 .. n : M[d + 1][i] = b + i
  BY <1>1 DEF FramePlace
<1>9. b = EndOfMessage(M, d) /\ EndOfMessage(M, d + 1) = b + n
  BY <1>1 DEF FramePlace
<1>10. j > 1 => /\ assembly \in Seq(Nat) /\ Len(assembly) = j - 1
                /\ \A i \in 1 .. j - 1 : assembly[i] = b + i
  BY <1>1 DEF FramePlace
<1>11. \A m \in 1 .. d : all[m] = M[m]
  BY <1>5, <1>6 DEF Parsed
\* The message that ends, x, is the next one of M.
<1>12. ASSUME NEW x \in Seq(Nat), Len(x) = n, \A i \in 1 .. n : x[i] = b + i,
              j = n, r = [assembly |-> r.assembly, out |-> Append(out, x)]
       PROVE  Goal
  <2>1. x = M[d + 1]
    BY <1>8, <1>12, SeqEqual
  <2>2. r.out = Append(out, x) /\ Append(out, x) \in Seq(Seq(Nat))
    BY <1>12
  <2>3. given \o Append(out, x) = Append(all, x)
    BY <1>12 DEF all
  <2>4. /\ Append(all, x) \in Seq(Seq(Nat))
        /\ Len(Append(all, x)) = d + 1
        /\ \A m \in 1 .. d : Append(all, x)[m] = all[m]
        /\ Append(all, x)[d + 1] = x
    BY <1>2, <1>6, <1>12, AppendProperties
  <2>5. k + 1 = EndOfMessage(M, d + 1)
    BY <1>7, <1>9, <1>12
  <2>6. \A m \in 1 .. d + 1 : Append(all, x)[m] = M[m]
    BY <1>6, <1>11, <2>1, <2>4
  <2>7. d + 1 <= Len(M)
    BY <1>2, <1>6
  <2>8. Parsed(M, k + 1, Append(all, x), r.assembly)
    BY <2>4, <2>5, <2>6, <2>7 DEF Parsed
  <2>9. r = [assembly |-> r.assembly, out |-> r.out]
    BY <1>12, <2>2
  <2> QED
    BY <2>2, <2>3, <2>8, <2>9 DEF Goal
\* The message goes on: the assembly holds its first j frames.
<1>13. ASSUME NEW x \in Seq(Nat), Len(x) = j, \A i \in 1 .. j : x[i] = b + i,
              j < n, r = [assembly |-> x, out |-> out]
       PROVE  Goal
  <2>1. r.out = out /\ r.assembly = x
    BY <1>13
  <2>2. b < k + 1 /\ k + 1 < b + n /\ j = (k + 1) - b
    BY <1>7, <1>13
  <2>3. /\ b < k + 1 /\ k + 1 < b + n /\ Len(x) = (k + 1) - b
        /\ \A i \in 1 .. Len(x) : x[i] = b + i
    BY <1>13, <2>2
  <2>4. Parsed(M, k + 1, all, x)
    <3>1. InMessage(M, k + 1, d, x)
      <4>1. /\ d < Len(M) /\ x \in Seq(Nat)
            /\ n = Len(M[d + 1]) /\ b = EndOfMessage(M, d)
        BY <1>6, <1>8, <1>9
      <4> QED
        BY <2>3, <4>1, Zenon DEF InMessage
    <3>2. Len(all) <= Len(M)
      BY <1>2, <1>6
    <3> QED
      BY <1>2, <1>6, <1>11, <3>1, <3>2 DEF Parsed
  <2> QED
    BY <1>13, <2>1, <2>4 DEF Goal, all
<1>14. CASE n = 1
  <2>1. e.tag = "standalone" /\ j = 1
    BY <1>4, <1>7, <1>14 DEF ChunkTag
  <2>2. r = [assembly |-> assembly, out |-> Append(out, <<k + 1>>)]
    BY <1>3, <1>4, <2>1 DEF ProcessChunk, r
  <2>3. <<k + 1>> \in Seq(Nat) /\ Len(<<k + 1>>) = n
        /\ \A i \in 1 .. n : <<k + 1>>[i] = b + i
    BY <1>7, <1>14, <2>1
  <2>4. r = [assembly |-> r.assembly, out |-> Append(out, <<k + 1>>)]
    BY <2>2
  <2> QED
    BY <1>12, <1>14, <2>1, <2>3, <2>4
<1>15. CASE n > 1 /\ j = 1
  <2>1. e.tag = "first"
    BY <1>4, <1>7, <1>15 DEF ChunkTag
  <2>2. r = [assembly |-> <<k + 1>>, out |-> out]
    BY <1>3, <1>4, <2>1 DEF ProcessChunk, r
  <2>3. <<k + 1>> \in Seq(Nat) /\ Len(<<k + 1>>) = j
        /\ \A i \in 1 .. j : <<k + 1>>[i] = b + i
    BY <1>7, <1>15
  <2> QED
    BY <1>13, <1>15, <2>2, <2>3
<1>16. CASE n > 1 /\ j > 1
  <2> DEFINE x == Append(assembly, k + 1)
  <2>1. x \in Seq(Nat) /\ Len(x) = j /\ \A i \in 1 .. j : x[i] = b + i
    <3>1. /\ assembly \in Seq(Nat) /\ Len(assembly) = j - 1
          /\ \A i \in 1 .. j - 1 : assembly[i] = b + i
      BY <1>10, <1>16
    <3>2. /\ x \in Seq(Nat) /\ Len(x) = (j - 1) + 1
          /\ \A i \in 1 .. j - 1 : x[i] = assembly[i]
          /\ x[(j - 1) + 1] = k + 1
      BY <3>1
    <3>3. b + j = k + 1 /\ j \in Nat /\ (j - 1) + 1 = j
      BY <1>7
    <3> HIDE DEF x
    <3> QED
      BY <3>1, <3>2, <3>3
  <2>2. CASE j = n
    <3>1. e.tag = "last"
      BY <1>4, <1>7, <1>16, <2>2 DEF ChunkTag
    <3>2. r = [assembly |-> <<>>, out |-> Append(out, x)]
      BY <1>3, <1>4, <3>1 DEF ProcessChunk, r
    <3>3. r = [assembly |-> r.assembly, out |-> Append(out, x)]
      BY <3>2
    <3> HIDE DEF x
    <3> QED
      BY <1>12, <2>1, <2>2, <3>3
  <2>3. CASE j < n
    <3>1. e.tag = "middle"
      BY <1>4, <1>7, <1>16, <2>3 DEF ChunkTag
    <3>2. r = [assembly |-> x, out |-> out]
      BY <1>3, <1>4, <3>1 DEF ProcessChunk, r
    <3> HIDE DEF x
    <3> QED
      BY <1>13, <2>1, <2>3, <3>2
  <2> QED
    BY <1>7, <2>2, <2>3
<1> QED
  BY <1>7, <1>14, <1>15, <1>16

\* A run of consecutive frames of the log, folded frame by frame.
LEMMA RunParsed ==
  ASSUME NEW M, NEW L \in Seq(Entry), CutIntoMessages(M, L),
         NEW lc \in Nat, NEW n \in Nat, lc + n <= Len(L),
         NEW given \in Seq(Seq(Nat)), NEW assembly, Parsed(M, lc, given, assembly),
         NEW run, DOMAIN run = 1 .. n, \A i \in 1 .. n : run[i] = L[lc + i]
  PROVE  LET done == ChunkFold([assembly |-> assembly, out |-> <<>>], run) IN
         Parsed(M, lc + n, given \o done.out, done.assembly)
<1> DEFINE base == [assembly |-> assembly, out |-> <<>>]
<1> HIDE DEF base
<1>0. PICK st : ChunkSteps(st, base, run, n)
  BY FoldChunks
<1>1. /\ st[0] = base
      /\ \A k \in 1 .. n : st[k] = ProcessChunk(st[k - 1], run[k])
      /\ ChunkFold(base, run) = st[n]
  BY <1>0 DEF ChunkSteps
<1> DEFINE Good(k) == /\ st[k] = [assembly |-> st[k].assembly, out |-> st[k].out]
                      /\ st[k].out \in Seq(Seq(Nat))
                      /\ Parsed(M, lc + k, given \o st[k].out, st[k].assembly)
           T == {k \in Nat : k <= n => Good(k)}
<1>2. 0 \in T
  <2>1. /\ st[0] = [assembly |-> st[0].assembly, out |-> st[0].out]
        /\ st[0].assembly = assembly /\ st[0].out = <<>>
    BY <1>1 DEF base
  <2>2. given \o <<>> = given /\ <<>> \in Seq(Seq(Nat)) /\ lc + 0 = lc
    OBVIOUS
  <2>3. Good(0)
    BY <2>1, <2>2
  <2> QED
    BY <2>3
<1>3. ASSUME NEW k \in T PROVE k + 1 \in T
  <2>1. SUFFICES ASSUME k + 1 <= n PROVE Good(k + 1)
    OBVIOUS
  <2>2. k \in Nat /\ k <= n /\ k + 1 \in 1 .. n /\ (k + 1) - 1 = k
        /\ lc + k \in Nat /\ lc + k < Len(L) /\ (lc + k) + 1 = lc + (k + 1)
    BY <2>1
  <2>3. Good(k)
    BY <2>2
  <2>4. st[k + 1] = ProcessChunk(st[k], L[(lc + k) + 1])
    BY <1>1, <2>2
  <2> DEFINE r == ProcessChunk(st[k], L[(lc + k) + 1])
  <2>5. /\ r = [assembly |-> r.assembly, out |-> r.out]
        /\ r.out \in Seq(Seq(Nat))
        /\ Parsed(M, (lc + k) + 1, given \o r.out, r.assembly)
    <3> HIDE DEF r
    <3>1. /\ st[k] = [assembly |-> st[k].assembly, out |-> st[k].out]
          /\ st[k].out \in Seq(Seq(Nat))
          /\ Parsed(M, lc + k, given \o st[k].out, st[k].assembly)
      BY <2>3
    <3> HIDE DEF T, Good
    <3> QED
      BY <2>2, <3>1, ChunkParsed DEF r
  <2> HIDE DEF r
  <2>6. st[k + 1] = r
    BY <2>4 DEF r
  <2> QED
    BY <2>2, <2>5, <2>6
<1>4. n \in T
  <2>1. T \subseteq Nat
    OBVIOUS
  <2> HIDE DEF T
  <2> QED
    BY <1>2, <1>3, <2>1, NumberInduction
<1>5. Good(n)
  BY <1>4
<1> QED
  BY <1>1, <1>5 DEF base

\* receive_data hands up whole messages: a run continues the reassembly where
\* the last one left it, the other two cases leave it alone.
LEMMA DataKeepsMessages ==
  ASSUME ChannelInv, MessageInv, NEW q \in Peer,
         NEW s \in 1 .. Len(log[Other(q)]), NEW e,
         e = log[Other(q)][s], ReceiveData(q, s, e)
  PROVE  MessageInv'
<1>1. UNCHANGED <<log, sent>>
  BY DEF ReceiveData
<1>2. CASE DropDuplicate(q, s) \/ HoldForLater(q, s, e)
  BY <1>1, <1>2 DEF DropDuplicate, HoldForLater, MessageInv
<1>3. CASE AcceptRun(q, s, e)
  <2> DEFINE lc   == last_contiguous[q]
             held == [t \in DOMAIN reorder_buffer[q] \cup {s} |->
                        IF t = s THEN e ELSE reorder_buffer[q][t]]
             top  == EndOfRun(lc, DOMAIN held)
             run  == [i \in 1 .. top - lc |-> held[lc + i]]
             base == [assembly |-> chunk_assembly[q], out |-> <<>>]
             done == ChunkFold(base, run)
             M    == sent[Other(q)]
             L    == log[Other(q)]
  <2>1. /\ s = lc + 1
        /\ last_contiguous' = [last_contiguous EXCEPT ![q] = top]
        /\ chunk_assembly' = [chunk_assembly EXCEPT ![q] = done.assembly]
        /\ delivered' = [delivered EXCEPT ![q] = @ \o done.out]
    BY <1>3 DEF AcceptRun, ChunkFold
  <2>2. /\ DOMAIN held \subseteq 1 .. Len(L)
        /\ lc + 1 \in DOMAIN held
        /\ \A t \in DOMAIN held : held[t] = L[t]
    BY <2>1 DEF ChannelInv, HeldMatchesLog
  <2>3. lc \in Nat /\ L \in Seq(Entry) /\ Len(L) \in Nat /\ Other(q) \in Peer
    BY OtherPeer DEF ChannelInv, ChannelTypeOK, ReceiveTypeOK, HistoryTypeOK
  <2> HIDE DEF held
  <2>4. /\ top \in DOMAIN held /\ top \in Nat /\ top > lc
         /\ (lc + 1) .. top \subseteq DOMAIN held
    BY <2>2, <2>3, EndOfRunProperties
  <2> HIDE DEF top
  <2>5. lc < top /\ top <= Len(L)
    BY <2>2, <2>3, <2>4
  <2>6. \A i \in 1 .. top - lc : run[i] = L[lc + i]
    <3>1. \A i \in 1 .. top - lc : lc + i \in (lc + 1) .. top
      BY <2>3, <2>4
    <3> QED
      BY <2>2, <2>4, <3>1
  <2>7. DOMAIN run = 1 .. top - lc
    OBVIOUS
  <2> HIDE DEF run, done
  <2>8. CutIntoMessages(M, L) /\ Parsed(M, lc, delivered[q], chunk_assembly[q])
    BY <2>3 DEF MessageInv
  <2>9. delivered[q] \in Seq(Seq(Nat))
    BY <2>8 DEF Parsed
  <2>10. Parsed(M, top, delivered[q] \o done.out, done.assembly)
    <3>1. /\ top - lc \in Nat /\ lc + (top - lc) <= Len(L)
          /\ lc + (top - lc) = top
      BY <2>3, <2>4, <2>5
    <3> HIDE DEF lc, L, M
    <3>2. Parsed(M, lc + (top - lc), delivered[q] \o done.out, done.assembly)
      BY <2>3, <2>8, <2>9, <2>6, <2>7, <3>1, RunParsed DEF done
    <3> QED
      BY <3>1, <3>2
  <2>11. /\ last_contiguous'[q] = top
        /\ chunk_assembly'[q] = done.assembly
        /\ delivered'[q] = delivered[q] \o done.out
        /\ DOMAIN delivered' = Peer /\ DOMAIN chunk_assembly' = Peer
        /\ \A r \in Peer : r # q => /\ last_contiguous'[r] = last_contiguous[r]
                                    /\ chunk_assembly'[r] = chunk_assembly[r]
                                    /\ delivered'[r] = delivered[r]
    BY <2>1 DEF MessageInv, ChannelInv, ChannelTypeOK, ReceiveTypeOK
  <2>12. ASSUME NEW r \in Peer
        PROVE  Parsed(sent[Other(r)], last_contiguous'[r], delivered'[r],
                      chunk_assembly'[r])
    <3>1. CASE r = q
      BY <2>10, <2>11, <3>1
    <3>2. CASE r # q
      BY <2>11, <3>2 DEF MessageInv
    <3> QED
      BY <3>1, <3>2
  <2> QED
    BY <1>1, <2>11, <2>12 DEF MessageInv
<1> QED
  BY <1>2, <1>3 DEF ReceiveData

\* A message handed over is a new piece after the others.
LEMMA CutExtends ==
  ASSUME NEW M, NEW L \in Seq(Entry), CutIntoMessages(M, L),
         NEW n \in Nat \ {0}, NEW es \in Seq(Entry), Len(es) = n,
         \A i \in 1 .. n : /\ es[i].data = Len(L) + i
                           /\ es[i].tag = ChunkTag(i, n)
  PROVE  CutIntoMessages(Append(M, [i \in 1 .. n |-> es[i].data]), L \o es)
<1> DEFINE x == [i \in 1 .. n |-> es[i].data]
           M2 == Append(M, x)
           L2 == L \o es
           d == Len(M)
<1>1. M \in Seq(Seq(Nat)) /\ d \in Nat /\ Len(L) \in Nat
  BY DEF CutIntoMessages
<1>2. x \in Seq(Nat) /\ Len(x) = n /\ \A i \in 1 .. n : x[i] = Len(L) + i
  <2>1. \A i \in 1 .. n : x[i] = Len(L) + i /\ x[i] \in Nat
    BY <1>1
  <2>2. x \in [1 .. n -> Nat]
    BY <2>1
  <2> QED
    BY <2>1, <2>2
<1> HIDE DEF x
<1>3. /\ M2 \in Seq(Seq(Nat)) /\ Len(M2) = d + 1
      /\ \A m \in 1 .. d : M2[m] = M[m]
      /\ M2[d + 1] = x
  BY <1>1, <1>2, AppendProperties
<1>4. /\ L2 \in Seq(Entry) /\ Len(L2) = Len(L) + n
      /\ \A i \in 1 .. Len(L) : L2[i] = L[i]
      /\ \A i \in 1 .. n : L2[Len(L) + i] = es[i]
  <2>1. /\ L \o es \in Seq(Entry)
        /\ Len(L \o es) = Len(L) + Len(es)
        /\ \A i \in 1 .. Len(L) : (L \o es)[i] = L[i]
        /\ \A i \in 1 .. Len(es) : (L \o es)[Len(L) + i] = es[i]
    BY ONLY L \in Seq(Entry), es \in Seq(Entry), ConcatPointwise
  <2> QED
    BY <2>1
<1> HIDE DEF M2, L2
<1>5. EndOfMessage(M, d) = Len(L)
  BY DEF CutIntoMessages
<1>6. \A m \in 0 .. d : EndOfMessage(M2, m) = EndOfMessage(M, m)
  BY <1>1, <1>3 DEF EndOfMessage
<1>7. EndOfMessage(M2, d + 1) = Len(L2)
  <2>1. d + 1 # 0 /\ n \in 1 .. n /\ M2[d + 1][n] = Len(L) + n
    BY <1>1, <1>2, <1>3
  <2> QED
    BY <1>2, <1>3, <1>4, <2>1 DEF EndOfMessage
<1>8. ASSUME NEW m \in 1 .. d + 1
      PROVE  /\ EndOfMessage(M2, m - 1) \in Nat
             /\ Len(M2[m]) >= 1
             /\ EndOfMessage(M2, m - 1) + Len(M2[m]) <= Len(L2)
             /\ \A j \in 1 .. Len(M2[m]) :
                  /\ M2[m][j] = EndOfMessage(M2, m - 1) + j
                  /\ L2[EndOfMessage(M2, m - 1) + j].data
                       = EndOfMessage(M2, m - 1) + j
                  /\ L2[EndOfMessage(M2, m - 1) + j].tag
                       = ChunkTag(j, Len(M2[m]))
  <2>1. CASE m \in 1 .. d
    <3>1. PICK b \in Nat : b = EndOfMessage(M, m - 1)
      BY <2>1 DEF CutIntoMessages
    <3>2. EndOfMessage(M2, m - 1) = b /\ M2[m] = M[m]
      BY <1>1, <1>3, <1>6, <2>1, <3>1
    <3>3. M[m] \in Seq(Nat) /\ Len(M[m]) \in Nat
      BY <1>1, <2>1, ElementOfSeq
    <3>4. /\ Len(M[m]) >= 1 /\ b + Len(M[m]) <= Len(L)
          /\ \A j \in 1 .. Len(M[m]) : /\ M[m][j] = b + j
                                       /\ L[b + j].data = b + j
                                       /\ L[b + j].tag = ChunkTag(j, Len(M[m]))
      BY <2>1, <3>1 DEF CutIntoMessages
    <3>5. \A j \in 1 .. Len(M[m]) : L2[b + j] = L[b + j]
      <4>1. /\ b \in Nat /\ Len(M[m]) \in Nat /\ Len(L) \in Nat
            /\ b + Len(M[m]) <= Len(L)
        BY <1>1, <3>3, <3>4
      <4>2. \A j \in 1 .. Len(M[m]) : b + j \in 1 .. Len(L)
        BY ONLY <4>1
      <4> QED
        BY <1>4, <4>2
    <3>6. b + Len(M[m]) <= Len(L2)
      BY <1>1, <1>4, <3>3, <3>4
    <3> QED
      BY <3>1, <3>2, <3>4, <3>5, <3>6
  <2>2. CASE m = d + 1
    <3>1. /\ EndOfMessage(M2, m - 1) = Len(L) /\ M2[m] = x
      <4>1. m - 1 = d /\ d \in 0 .. d
        BY <1>1, <2>2
      <4> QED
        BY <1>3, <1>5, <1>6, <2>2, <4>1
    <3>2. /\ Len(L) + n <= Len(L2) /\ n >= 1
          /\ \A j \in 1 .. n : /\ x[j] = Len(L) + j
                               /\ L2[Len(L) + j].data = Len(L) + j
                               /\ L2[Len(L) + j].tag = ChunkTag(j, n)
      BY <1>1, <1>2, <1>4
    <3>3. Len(M2[m]) = n /\ EndOfMessage(M2, m - 1) \in Nat
      BY <1>1, <1>2, <3>1
    <3> QED
      BY <3>1, <3>2, <3>3, Zenon
  <2>3. m \in 1 .. d \/ m = d + 1
    BY <1>1
  <2> QED
    BY <2>1, <2>2, <2>3
<1>9. EndOfMessage(M2, Len(M2)) = Len(L2) /\ Len(M2) = d + 1
  BY <1>3, <1>7
<1>10. CutIntoMessages(M2, L2)
  BY <1>3, <1>8, <1>9 DEF CutIntoMessages
<1> QED
  BY <1>10 DEF M2, L2, x

\* What was parsed of M stays parsed when M is extended.
LEMMA ParsedExtends ==
  ASSUME NEW M \in Seq(Seq(Nat)), NEW x \in Seq(Nat), NEW k, NEW out, NEW assembly,
         Parsed(M, k, out, assembly)
  PROVE  Parsed(Append(M, x), k, out, assembly)
<1> DEFINE d == Len(out)
           M2 == Append(M, x)
<1>1. d \in Nat /\ d <= Len(M) /\ Len(M) \in Nat
  BY DEF Parsed
<1>2. Len(M2) = Len(M) + 1 /\ \A m \in 1 .. Len(M) : M2[m] = M[m]
  BY AppendProperties
<1> HIDE DEF M2
<1>3. EndOfMessage(M2, d) = EndOfMessage(M, d)
  BY <1>1, <1>2 DEF EndOfMessage
<1>4. d < Len(M) => M2[d + 1] = M[d + 1] /\ d < Len(M2)
  <2>1. d < Len(M) => d + 1 \in 1 .. Len(M) /\ d < Len(M) + 1
    BY <1>1
  <2> QED
    BY <1>2, <2>1
<1>5. d <= Len(M2) /\ \A m \in 1 .. d : M2[m] = out[m]
  <2>1. d <= Len(M2) /\ \A m \in 1 .. d : m \in 1 .. Len(M)
    BY <1>1, <1>2
  <2>2. \A m \in 1 .. d : out[m] = M[m]
    BY DEF Parsed
  <2> QED
    BY <1>2, <2>1, <2>2
<1>6. InMessage(M, k, d, assembly) => InMessage(M2, k, d, assembly)
  BY <1>3, <1>4 DEF InMessage
<1>7. Parsed(M2, k, out, assembly)
  BY <1>3, <1>5, <1>6 DEF Parsed
<1> QED
  BY <1>7 DEF M2

\* send cuts the message it is given as its tags say.
LEMMA SendKeepsMessages ==
  ASSUME ChannelInv, MessageInv, NEW p \in Peer, NEW n \in 1 .. MaxChunks,
         NEW pri \in Priority, Send(p, n, pri)
  PROVE  MessageInv'
<1> DEFINE es == MessageEntries(p, n, pri)
           x == [i \in 1 .. n |-> es[i].data]
<1>1. /\ es \in Seq(Entry) /\ Len(es) = n /\ log[p] \in Seq(Entry)
      /\ n \in Nat \ {0}
  <2>1. es \in Seq(Entry) /\ Len(es) = n
    BY SendAppends
  <2>2. log[p] \in Seq(Entry)
    BY DEF ChannelInv, ChannelTypeOK, HistoryTypeOK
  <2> QED
    BY <2>1, <2>2, MaxChunksAssumption
<1>2. \A i \in 1 .. n : /\ es[i].data = Len(log[p]) + i
                        /\ es[i].tag = ChunkTag(i, n)
  BY DEF MessageEntries
<1>3. /\ sent' = [sent EXCEPT ![p] = Append(@, x)]
      /\ log' = [log EXCEPT ![p] = @ \o es]
      /\ UNCHANGED <<last_contiguous, delivered, chunk_assembly>>
  BY DEF Send, recvVars
<1>4. x \in Seq(Nat)
  <2>1. \A i \in 1 .. n : x[i] \in Nat
    BY <1>1, <1>2
  <2>2. x = [i \in 1 .. n |-> x[i]]
    OBVIOUS
  <2> HIDE DEF x
  <2>3. x \in [1 .. n -> Nat]
    BY <2>1, <2>2
  <2> QED
    BY <1>1, <2>3
<1>5. CutIntoMessages(Append(sent[p], x), log[p] \o es)
  <2>1. CutIntoMessages(sent[p], log[p])
    BY DEF MessageInv
  <2> HIDE DEF es
  <2> QED
    BY <1>1, <1>2, <2>1, CutExtends
<1> HIDE DEF x, es
<1>6. /\ DOMAIN sent' = Peer
      /\ sent'[p] = Append(sent[p], x) /\ log'[p] = log[p] \o es
      /\ \A r \in Peer : r # p => sent'[r] = sent[r] /\ log'[r] = log[r]
  BY <1>3 DEF MessageInv, ChannelInv, ChannelTypeOK, HistoryTypeOK
<1>7. ASSUME NEW r \in Peer PROVE CutIntoMessages(sent'[r], log'[r])
  <2>1. CASE r = p
    BY <1>5, <1>6, <2>1
  <2>2. CASE r # p
    BY <1>6, <2>2 DEF MessageInv
  <2> QED
    BY <2>1, <2>2
<1>8. ASSUME NEW r \in Peer
      PROVE  Parsed(sent'[Other(r)], last_contiguous[r], delivered[r],
                    chunk_assembly[r])
  <2>1. /\ Other(r) \in Peer
        /\ Parsed(sent[Other(r)], last_contiguous[r], delivered[r],
                  chunk_assembly[r])
    BY OtherPeer DEF MessageInv
  <2>2. CASE Other(r) = p
    <3>1. sent[p] \in Seq(Seq(Nat))
      BY DEF MessageInv, CutIntoMessages
    <3> QED
      BY <1>4, <1>6, <2>1, <2>2, <3>1, ParsedExtends
  <2>3. CASE Other(r) # p
    BY <1>6, <2>1, <2>3
  <2> QED
    BY <2>2, <2>3
<1> QED
  BY <1>3, <1>6, <1>7, <1>8 DEF MessageInv

\* Nothing is handed over at the start.
LEMMA InitEstablishesMessages ==
  ASSUME Init
  PROVE  MessageInv
<1>1. ASSUME NEW L, L = <<>> PROVE CutIntoMessages(<<>>, L)
  BY <1>1, EmptySeq DEF CutIntoMessages, EndOfMessage
<1>2. Parsed(<<>>, 0, <<>>, <<>>)
  BY EmptySeq DEF Parsed, EndOfMessage
<1> QED
  BY <1>1, <1>2, OtherPeer DEF Init, ChannelInit, MessageInv

\* No step breaks the correspondence of messages handed over and handed up.
LEMMA NextKeepsMessages ==
  ASSUME IInv, MessageInv, [Next]_vars
  PROVE  MessageInv'
<1>1. ASSUME NEW p \in Peer, SendMessage(p) PROVE MessageInv'
  <2>1. PICK n \in 1 .. MaxChunks, pri \in Priority : Send(p, n, pri)
    BY <1>1, SendPriorityAssumption DEF SendMessage
  <2> QED
    BY <2>1, SendKeepsMessages DEF IInv
<1>2. ASSUME NEW q \in Peer, NEW f \in net[q], DeliverData(q, f)
      PROVE  MessageInv'
  <2>1. /\ f.seq \in 1 .. Len(log[Other(q)])
        /\ f.entry = log[Other(q)][f.seq]
        /\ ReceiveData(q, f.seq, f.entry)
    BY <1>2 DEF DeliverData, IInv, WireInv, Sound
  <2> QED
    BY <2>1, DataKeepsMessages DEF IInv
<1>3. CASE UNCHANGED <<log, sent, delivered, last_contiguous, chunk_assembly>>
  BY <1>3 DEF MessageInv
<1>4. ASSUME NEW p \in Peer, NEW f \in net[p], DeliverAck(p, f)
      PROVE  UNCHANGED <<log, sent, delivered, last_contiguous, chunk_assembly>>
  BY <1>4 DEF DeliverAck, ReceiveAck, recvVars, histVars
<1>5. ASSUME NEW p \in Peer, SendAck(p)
      PROVE  UNCHANGED <<log, sent, delivered, last_contiguous, chunk_assembly>>
  BY <1>5 DEF SendAck, Tick, histVars
<1>6. ASSUME NEW p \in Peer,
             \/ Keepalive(p) \/ ChangeTransport(p)
             \/ \E f \in net[p] : Lose(p, f)
      PROVE  UNCHANGED <<log, sent, delivered, last_contiguous, chunk_assembly>>
  BY <1>6 DEF Keepalive, ChangeTransport, Lose, channelVars, recvVars, histVars
<1>7. CASE UNCHANGED vars
  BY <1>3, <1>7 DEF vars, channelVars, recvVars, histVars
<1> QED
  BY <1>1, <1>2, <1>3, <1>4, <1>5, <1>6, <1>7 DEF Next

\* process_chunk hands up the messages send was given, each whole, once and in
\* order, however they were cut and whatever happened to the frames.
THEOREM MessagesStayWhole == Spec => []MessagesWhole
<1>1. Init => MessageInv
  BY InitEstablishesMessages
<1>2. IInv /\ MessageInv /\ [Next]_vars => MessageInv'
  BY NextKeepsMessages
<1>3. MessageInv => MessagesWhole
  <2>1. SUFFICES ASSUME MessageInv, NEW p \in Peer
                 PROVE  IsPrefix(delivered[p], sent[Other(p)])
    BY DEF MessagesWhole
  <2>2. /\ delivered[p] \in Seq(Seq(Nat)) /\ sent[Other(p)] \in Seq(Seq(Nat))
        /\ Len(delivered[p]) <= Len(sent[Other(p)])
        /\ \A m \in 1 .. Len(delivered[p]) : delivered[p][m] = sent[Other(p)][m]
    BY <2>1, OtherPeer DEF MessageInv, CutIntoMessages, Parsed
  <2> QED
    BY <2>2, PrefixPointwise
<1> QED
  BY <1>1, <1>2, <1>3, Invariance, PTL DEF Spec

----------------------------------------------------------------------------
(* The refinement of OrderedDelivery *)

\* Handing a message to send is handing frames to the specification.
LEMMA SendIsSubmit ==
  ASSUME IInv, NEW p \in Peer, SendMessage(p)
  PROVE  Delivery!Submit(p)
<1>1. PICK n \in 1 .. MaxChunks, pri \in Priority : Send(p, n, pri)
  BY SendPriorityAssumption DEF SendMessage
<1>2. /\ log[p] \in Seq(Entry) /\ log'[p] \in Seq(Entry)
      /\ Len(log[p]) \in Nat /\ Len(log'[p]) = Len(log[p]) + n
      /\ \A i \in 1 .. Len(log[p]) : log'[p][i] = log[p][i]
  BY <1>1, SendAppends DEF IInv, ChannelInv, ChannelTypeOK, HistoryTypeOK
<1>3. Len(log[p]) <= Len(log'[p])
  BY <1>2, MaxChunksAssumption
<1>4. Delivery!Extends(log[p], log'[p])
  BY <1>2, <1>3, PrefixPointwise DEF Delivery!Extends
<1>5. log' = [log EXCEPT ![p] = log'[p]] /\ UNCHANGED accepted
  BY <1>1 DEF Send, IInv, ChannelInv, ChannelTypeOK, HistoryTypeOK
<1> QED
  BY <1>2, <1>4, <1>5 DEF Delivery!Submit

\* Whichever case of receive_data applies, what is given afterwards extends
\* what was given before, both being the beginning of the same log.
LEMMA DataIsGive ==
  ASSUME IInv, IInv', NEW q \in Peer, NEW f \in net[q], DeliverData(q, f)
  PROVE  Delivery!Give(q) \/ UNCHANGED <<log, accepted>>
<1>1. /\ f.seq \in 1 .. Len(log[Other(q)])
      /\ f.entry = log[Other(q)][f.seq]
      /\ ReceiveData(q, f.seq, f.entry)
  BY DEF DeliverData, IInv, WireInv, Sound
<1>2. Grows
  BY <1>1, DataKeepsChannel DEF IInv
<1>3. /\ UNCHANGED log
      /\ UNCHANGED accepted \/ accepted' = [accepted EXCEPT ![q] = accepted'[q]]
  BY <1>1 DEF ReceiveData, DropDuplicate, AcceptRun, HoldForLater,
              IInv, ChannelInv, ChannelTypeOK, HistoryTypeOK
<1>4. /\ accepted[q] \in Seq(Entry) /\ accepted'[q] \in Seq(Entry)
      /\ log[Other(q)] \in Seq(Entry)
      /\ Len(accepted[q]) \in Nat /\ Len(accepted'[q]) \in Nat
      /\ Len(accepted[q]) = last_contiguous[q]
      /\ Len(accepted'[q]) = last_contiguous'[q]
  BY OtherPeer DEF IInv, ChannelInv, ChannelTypeOK, HistoryTypeOK,
                   AcceptedMatchesLog
<1>5. /\ Len(accepted'[q]) <= Len(log[Other(q)])
      /\ \A i \in 1 .. Len(accepted'[q]) : accepted'[q][i] = log[Other(q)][i]
      /\ \A i \in 1 .. Len(accepted[q]) : accepted[q][i] = log[Other(q)][i]
  BY <1>3, OtherPeer DEF IInv, ChannelInv, AcceptedMatchesLog
<1>6. Len(accepted[q]) <= Len(accepted'[q])
  BY <1>2, <1>4 DEF Grows
<1>7. Delivery!Extends(accepted[q], accepted'[q])
  BY <1>4, <1>5, <1>6, PrefixPointwise DEF Delivery!Extends
<1>8. Delivery!Extends(accepted'[q], log[Other(q)])
  BY <1>4, <1>5, PrefixPointwise DEF Delivery!Extends
<1>9. Delivery!Opposite(q) = Other(q)
  BY DEF Delivery!Opposite, Other
<1> QED
  BY <1>3, <1>7, <1>8, <1>9 DEF Delivery!Give

\* Every step of the channel is a step of the specification or invisible.
LEMMA StepSimulation ==
  ASSUME IInv, IInv', [Next]_vars
  PROVE  [Delivery!Next]_<<log, accepted>>
<1>1. ASSUME NEW p \in Peer, SendMessage(p) PROVE Delivery!Next
  BY <1>1, SendIsSubmit DEF Delivery!Next
<1>2. ASSUME NEW p \in Peer, NEW f \in net[p], DeliverData(p, f)
      PROVE  Delivery!Next \/ UNCHANGED <<log, accepted>>
  BY <1>2, DataIsGive DEF Delivery!Next
<1>3. ASSUME NEW p \in Peer, NEW f \in net[p], DeliverAck(p, f)
      PROVE  UNCHANGED <<log, accepted>>
  BY <1>3 DEF DeliverAck, ReceiveAck, histVars
<1>4. ASSUME NEW p \in Peer, SendAck(p) PROVE UNCHANGED <<log, accepted>>
  BY <1>4 DEF SendAck, Tick, histVars
<1>5. ASSUME NEW p \in Peer,
             \/ Keepalive(p) \/ ChangeTransport(p)
             \/ \E f \in net[p] : Lose(p, f)
      PROVE  UNCHANGED <<log, accepted>>
  BY <1>5 DEF Keepalive, ChangeTransport, Lose, channelVars, histVars
<1>6. CASE UNCHANGED vars
  BY <1>6 DEF vars, channelVars, histVars
<1> QED
  BY <1>1, <1>2, <1>3, <1>4, <1>5, <1>6 DEF Next

\* The channel of channel.rs implements in-order delivery without loss or
\* repetition ("Delivered in order, deduplicated").
THEOREM Refinement == Spec => ImplementsDelivery
<1>1. Init => Delivery!Init
  BY DEF Init, ChannelInit, Delivery!Init
<1>2. IInv /\ IInv' /\ [Next]_vars => [Delivery!Next]_<<log, accepted>>
  BY StepSimulation
<1> QED
  BY <1>1, <1>2, Invariance, PTL DEF Spec, ImplementsDelivery, Delivery!Spec

=============================================================================
