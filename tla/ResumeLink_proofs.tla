-------------------------- MODULE ResumeLink_proofs --------------------------
(***************************************************************************)
(* The safety of the daemon's channel across reconnects, proved for every  *)
(* window, message length and number of connections, if no event occurs    *)
(* from a disconnect to the Resume (QuietReconnect; without it a run shows *)
(* a Critical frame lost).                                                 *)
(*                                                                         *)
(* The argument.  A sequence number means something only under the present *)
(* numbering, which a Resume may replace.  The invariant speaks of it as a *)
(* sequence m: frame s carries datum m[s] of the log.  Under m             *)
(*   - the send buffer holds entries of the log, and a Critical datum that *)
(*     has no number or no frame left has been given to the browser;       *)
(*   - the browser either counts in m, or it has been given nothing since  *)
(*     it connected, and the daemon's Resume is still under way to it and  *)
(*     will make it drop whatever it holds of another numbering;           *)
(*   - an ack under way covers only what the browser was given.            *)
(* An event extends m.  A Resume the buffer can serve keeps it.  One that  *)
(* finds the first frame gone restarts the numbering with the Critical     *)
(* frames left: then the browser holds no frame in order, because frame 1  *)
(* was not there to be replayed, and has acknowledged nothing (ResumeInv). *)
(***************************************************************************)
EXTENDS ResumeLink, ReliableChannel_proofs, FiniteSetTheorems

(* Sets of sequence numbers, in order. *)

\* The numbers of a buffer lie below some bound.
Bounded(S) == \E L \in Nat : S \subseteq 1 .. L

\* The place of s in the walk over S.
Rank(S, s) == Cardinality({t \in S : t <= s})

\* A set of numbers below a bound is finite, and so are its subsets.
LEMMA BoundedIsFinite ==
  ASSUME NEW S, Bounded(S)
  PROVE  /\ IsFiniteSet(S) /\ Cardinality(S) \in Nat /\ S \subseteq Nat \ {0}
         /\ \A T \in SUBSET S : IsFiniteSet(T) /\ Bounded(T)
<1>1. PICK L \in Nat : S \subseteq 1 .. L
  BY DEF Bounded
<1>2. IsFiniteSet(1 .. L)
  BY FS_Interval
<1>3. IsFiniteSet(S)
  BY <1>1, <1>2, FS_Subset
<1>4. \A T \in SUBSET S : IsFiniteSet(T) /\ Bounded(T)
  BY <1>1, <1>3, FS_Subset DEF Bounded
<1> QED
  BY <1>1, <1>3, <1>4, FS_CardinalityType

\* The rank of a number tells it from the others of its set ...
LEMMA RankIncreases ==
  ASSUME NEW S, Bounded(S), NEW s \in S, NEW t \in S, s < t
  PROVE  Rank(S, s) < Rank(S, t)
<1>0. S \subseteq Nat /\ IsFiniteSet(S)
  BY BoundedIsFinite
<1> DEFINE A == {r \in S : r <= s}
           B == {r \in S : r <= t}
<1>1. A \subseteq B /\ t \in B /\ t \notin A
  <2>1. s \in Nat /\ t \in Nat
    BY <1>0
  <2>2. \A r \in S : r \in Nat
    BY <1>0
  <2>3. \A r \in A : r <= t
    BY <2>1, <2>2
  <2>4. t <= t /\ ~(t <= s)
    BY <2>1
  <2> QED
    BY <2>3, <2>4, Zenon
<1>2. B \in SUBSET S
  OBVIOUS
<1> HIDE DEF A, B
<1>3. IsFiniteSet(B) /\ A \in SUBSET B
  BY <1>0, <1>1, <1>2, FS_Subset
<1>4. Cardinality(A) <= Cardinality(B) /\ Cardinality(A) # Cardinality(B)
  BY <1>1, <1>3, FS_Subset
<1>5. Cardinality(A) \in Nat /\ Cardinality(B) \in Nat
  BY <1>3, FS_Subset, FS_CardinalityType
<1> QED
  BY <1>4, <1>5 DEF Rank, A, B

\* ... is a place in the walk over the set ...
LEMMA RankBetween ==
  ASSUME NEW S, Bounded(S), NEW s \in S
  PROVE  Rank(S, s) \in 1 .. Cardinality(S)
<1>0. S \subseteq Nat /\ IsFiniteSet(S) /\ Cardinality(S) \in Nat
  BY BoundedIsFinite
<1> DEFINE A == {r \in S : r <= s}
<1>1. A \in SUBSET S /\ s \in A
  BY <1>0
<1> HIDE DEF A
<1>2. IsFiniteSet(A) /\ Cardinality(A) <= Cardinality(S)
  BY <1>0, <1>1, FS_Subset
<1>3. Cardinality(A) \in Nat /\ Cardinality(A) # 0
  BY <1>1, <1>2, FS_CardinalityType, FS_EmptySet
<1> QED
  BY <1>0, <1>2, <1>3 DEF Rank, A

\* ... and every rank up to their number is taken.
LEMMA RankTaken ==
  ASSUME NEW S, Bounded(S), NEW i \in 1 .. Cardinality(S)
  PROVE  \E s \in S : Rank(S, s) = i
<1>0. S \subseteq Nat /\ IsFiniteSet(S) /\ Cardinality(S) \in Nat
  BY BoundedIsFinite
<1> DEFINE n == Cardinality(S)
           f == [s \in S |-> Rank(S, s)]
<1>1. f \in [S -> 1 .. n]
  BY RankBetween
<1>2. \A s, t \in S : f[s] = f[t] => s = t
  <2>1. SUFFICES ASSUME NEW s \in S, NEW t \in S, s # t PROVE f[s] # f[t]
    OBVIOUS
  <2>2. Rank(S, s) \in Nat /\ Rank(S, t) \in Nat
    BY <1>0, RankBetween
  <2>3. s < t \/ t < s
    BY <1>0, <2>1
  <2>4. CASE s < t
    BY <2>2, <2>4, RankIncreases
  <2>5. CASE t < s
    BY <2>2, <2>5, RankIncreases
  <2> QED
    BY <2>3, <2>4, <2>5
<1>3. IsFiniteSet(1 .. n) /\ Cardinality(1 .. n) = n
  BY <1>0, FS_Interval
<1> HIDE DEF f
<1>4. f \in Injection(S, 1 .. n)
  BY <1>1, <1>2 DEF Injection, IsInjective
<1>5. f \in Surjection(S, 1 .. n)
  BY <1>3, <1>4, FS_Injection
<1>6. \E s \in S : f[s] = i
  BY <1>5 DEF Surjection
<1> QED
  BY <1>6 DEF f

\* The walk through a buffer: every number of the set once, in order.
LEMMA AscendingProperties ==
  ASSUME NEW S, Bounded(S)
  PROVE  /\ Ascending(S) \in Seq(S)
         /\ Len(Ascending(S)) = Cardinality(S)
         /\ Cardinality(S) \in Nat
         /\ \A i \in 1 .. Cardinality(S) : Ascending(S)[i] \in S
         /\ \A s \in S : \E i \in 1 .. Cardinality(S) : Ascending(S)[i] = s
         /\ \A i, j \in 1 .. Cardinality(S) :
              i < j => Ascending(S)[i] < Ascending(S)[j]
<1> DEFINE n == Cardinality(S)
           A == Ascending(S)
<1>0. S \subseteq Nat /\ IsFiniteSet(S) /\ n \in Nat
  BY BoundedIsFinite
<1>1. A = [i \in 1 .. n |-> CHOOSE s \in S : Rank(S, s) = i]
  BY DEF Ascending, Rank
<1>2. ASSUME NEW i \in 1 .. n PROVE A[i] \in S /\ Rank(S, A[i]) = i
  <2>1. \E s \in S : Rank(S, s) = i
    BY RankTaken
  <2> QED
    BY <1>1, <2>1
<1> HIDE DEF A
<1>3. A = [i \in 1 .. n |-> A[i]]
  BY <1>1
<1>4. A \in [1 .. n -> S]
  BY <1>2, <1>3
<1>5. A \in Seq(S) /\ Len(A) = n
  BY <1>0, <1>4
<1>6. ASSUME NEW s \in S, NEW t \in S, Rank(S, s) <= Rank(S, t)
      PROVE  s <= t
  <2>1. Rank(S, s) \in Nat /\ Rank(S, t) \in Nat
    BY <1>0, RankBetween
  <2>2. t < s => Rank(S, t) < Rank(S, s)
    BY RankIncreases
  <2> QED
    BY <1>0, <1>6, <2>1, <2>2
<1>7. ASSUME NEW s \in S PROVE \E i \in 1 .. n : A[i] = s
  <2> DEFINE i == Rank(S, s)
  <2>1. i \in 1 .. n
    BY RankBetween
  <2>2. A[i] \in S /\ Rank(S, A[i]) = i
    BY <1>2, <2>1
  <2>3. A[i] <= s /\ s <= A[i]
    <3>1. i \in Nat /\ i <= i
      BY <1>0, <2>1
    <3> QED
      BY <1>6, <2>2, <3>1
  <2>4. A[i] = s
    <3>1. A[i] \in Nat /\ s \in Nat
      BY <1>0, <2>2, Zenon
    <3> QED
      BY <2>3, <3>1
  <2> QED
    BY <2>1, <2>4
<1>8. ASSUME NEW i \in 1 .. n, NEW j \in 1 .. n, i < j PROVE A[i] < A[j]
  <2>1. /\ A[i] \in S /\ Rank(S, A[i]) = i
        /\ A[j] \in S /\ Rank(S, A[j]) = j
    BY <1>2
  <2>2. A[i] <= A[j] /\ A[i] # A[j]
    <3>1. i <= j /\ i # j
      BY <1>0, <1>8
    <3> QED
      BY <1>6, <2>1, <3>1
  <2>3. A[i] \in Nat /\ A[j] \in Nat
    BY <1>0, <2>1, Zenon
  <2> QED
    BY <2>2, <2>3
<1>9. /\ A \in Seq(S) /\ Len(A) = n /\ n \in Nat
      /\ \A i \in 1 .. n : A[i] \in S
      /\ \A s \in S : \E i \in 1 .. n : A[i] = s
      /\ \A i, j \in 1 .. n : i < j => A[i] < A[j]
  BY <1>0, <1>2, <1>5, <1>7, <1>8
<1> QED
  BY <1>9 DEF A

\* The frames of a replay are frames of the buffer.
LEMMA InOrderProperties ==
  ASSUME NEW buf, IsBuffer(buf), Bounded(DOMAIN buf), NEW S \in SUBSET DOMAIN buf
  PROVE  /\ InOrder(buf, S) \in Seq(DataFrames)
         /\ \A i \in DOMAIN InOrder(buf, S) :
              /\ InOrder(buf, S)[i].type = "data"
              /\ InOrder(buf, S)[i].seq \in S
              /\ InOrder(buf, S)[i].entry = buf[InOrder(buf, S)[i].seq]
<1> DEFINE order == Ascending(S)
           fs == [i \in DOMAIN order |-> DataFrame(order[i], buf[order[i]])]
           n == Cardinality(S)
<1>0. Bounded(S) /\ S \subseteq Nat \ {0}
  BY BoundedIsFinite
<1>1. order \in Seq(S) /\ Len(order) = n /\ n \in Nat
  BY <1>0, AscendingProperties
<1> HIDE DEF order
<1>2. DOMAIN order = 1 .. n /\ \A i \in 1 .. n : order[i] \in S
  BY <1>1
<1>3. \A s \in S : s \in Nat \ {0} /\ buf[s] \in Entry
  BY <1>0 DEF IsBuffer
<1>4. ASSUME NEW i \in 1 .. n
      PROVE  /\ fs[i] \in DataFrames /\ fs[i].type = "data"
             /\ fs[i].seq \in S /\ fs[i].entry = buf[fs[i].seq]
  BY <1>2, <1>3 DEF DataFrame, DataFrames
<1>5. DOMAIN fs = 1 .. n
  BY <1>2
<1>6. fs = [i \in 1 .. n |-> fs[i]]
  BY <1>2
<1>7. InOrder(buf, S) = fs
  BY DEF InOrder, order
<1> HIDE DEF fs, n
<1>8. fs \in [1 .. n -> DataFrames]
  BY <1>4, <1>6
<1>9. fs \in Seq(DataFrames)
  BY <1>1, <1>8
<1> QED
  BY <1>4, <1>5, <1>7, <1>9

\* The numbers of the Critical frames of a buffer.
CriticalNumbers(buf) == {s \in DOMAIN buf : buf[s].priority = "Critical"}

\* The frames kept by a restart are the Critical ones of the buffer, in order.
LEMMA CriticalEntriesProperties ==
  ASSUME NEW buf, IsBuffer(buf), Bounded(DOMAIN buf)
  PROVE  LET order == Ascending(CriticalNumbers(buf)) IN
         /\ CriticalEntries(buf) \in Seq(Entry)
         /\ Len(CriticalEntries(buf)) = Len(order)
         /\ Len(order) \in Nat
         /\ \A i \in 1 .. Len(order) :
              CriticalEntries(buf)[i] = buf[order[i]]
<1> DEFINE C == CriticalNumbers(buf)
           order == Ascending(C)
           n == Len(order)
           es == CriticalEntries(buf)
<1>0. Bounded(C)
  BY BoundedIsFinite DEF CriticalNumbers
<1>1. order \in Seq(C) /\ n \in Nat /\ \A i \in 1 .. n : order[i] \in C
  BY <1>0, AscendingProperties
<1>2. es = [i \in DOMAIN order |-> buf[order[i]]]
  BY DEF CriticalEntries, CriticalNumbers
<1>3. \A s \in C : buf[s] \in Entry
  BY DEF IsBuffer, CriticalNumbers
<1> HIDE DEF es, order, C
<1>4. DOMAIN order = 1 .. n
  BY <1>1
<1>5. \A i \in 1 .. n : es[i] = buf[order[i]] /\ es[i] \in Entry
  BY <1>1, <1>2, <1>3, <1>4
<1>6. es = [i \in 1 .. n |-> es[i]]
  BY <1>2, <1>4
<1>7. es \in [1 .. n -> Entry]
  BY <1>5, <1>6
<1>8. es \in Seq(Entry) /\ Len(es) = n
  BY <1>1, <1>7
<1> QED
  BY <1>1, <1>5, <1>8 DEF es, order, C

\* What AcceptRun takes when frame s arrives: it and the held ones after it.
RunTaken(q, s, e, top, run) ==
  /\ top \in Nat /\ top > last_contiguous[q]
  /\ s = last_contiguous[q] + 1
  /\ \A t \in s .. top : t = s \/ t \in DOMAIN reorder_buffer[q]
  /\ run \in Seq(Entry) /\ Len(run) = top - last_contiguous[q]
  /\ \A i \in 1 .. Len(run) :
       run[i] = IF i = 1 THEN e ELSE reorder_buffer[q][last_contiguous[q] + i]
  /\ last_contiguous' = [last_contiguous EXCEPT ![q] = top]
  /\ reorder_buffer' = [reorder_buffer EXCEPT
                          ![q] = [t \in DOMAIN @ \ (s .. top) |-> @[t]]]
  /\ accepted' = [accepted EXCEPT ![q] = @ \o run]

\* accept of channel.rs takes such a run.
LEMMA AcceptedRun ==
  ASSUME ReceiveTypeOK, NEW q \in Peer, NEW s, NEW e \in Entry,
         Bounded(DOMAIN reorder_buffer[q]), AcceptRun(q, s, e)
  PROVE  \E top, run : RunTaken(q, s, e, top, run)
<1> DEFINE lc == last_contiguous[q]
           rb == reorder_buffer[q]
           held == [t \in DOMAIN rb \cup {s} |-> IF t = s THEN e ELSE rb[t]]
           top == EndOfRun(lc, DOMAIN held)
           run == [i \in 1 .. top - lc |-> held[lc + i]]
<1>1. lc \in Nat /\ s = lc + 1 /\ \A t \in DOMAIN rb : t \in Nat /\ rb[t] \in Entry
  BY DEF ReceiveTypeOK, IsBuffer, AcceptRun
<1>2. PICK L \in Nat : DOMAIN rb \subseteq 1 .. L
  BY DEF Bounded
<1>3. DOMAIN held = DOMAIN rb \cup {s}
  OBVIOUS
<1>4. \E M \in Nat : DOMAIN held \subseteq 1 .. M
  <2>1. CASE L >= s
    BY <1>1, <1>2, <1>3, <2>1
  <2>2. CASE L < s
    <3>1. s \in Nat /\ DOMAIN held \subseteq 1 .. s
      BY <1>1, <1>2, <1>3, <2>2
    <3> QED
      BY <3>1
  <2> QED
    BY <1>1, <2>1, <2>2
<1>5. PICK M \in Nat : DOMAIN held \subseteq 1 .. M
  BY <1>4
<1>6. \A t \in DOMAIN held : held[t] = IF t = s THEN e ELSE rb[t]
  OBVIOUS
<1>7. /\ last_contiguous' = [last_contiguous EXCEPT ![q] = top]
      /\ reorder_buffer' = [reorder_buffer EXCEPT
                              ![q] = [t \in DOMAIN @ \ (s .. top) |-> @[t]]]
      /\ accepted' = [accepted EXCEPT ![q] = @ \o run]
  BY DEF AcceptRun
<1> HIDE DEF held
<1>8. lc + 1 \in DOMAIN held
  BY <1>1, <1>3
<1>9. /\ top \in Nat /\ top > lc /\ (lc + 1) .. top \subseteq DOMAIN held
  BY <1>1, <1>5, <1>8, EndOfRunProperties
<1> HIDE DEF top
<1>10. \A t \in (lc + 1) .. top : held[t] \in Entry
  BY <1>1, <1>3, <1>6, <1>9
<1>11. run \in Seq(Entry) /\ Len(run) = top - lc
  BY <1>1, <1>9, <1>10, RunProperties
<1>12. \A t \in s .. top : t = s \/ t \in DOMAIN rb
  BY <1>1, <1>3, <1>9
<1>13. ASSUME NEW i \in 1 .. top - lc
       PROVE  run[i] = IF i = 1 THEN e ELSE rb[lc + i]
  <2>1. lc + i \in (lc + 1) .. top /\ (lc + i = s <=> i = 1)
    BY <1>1, <1>9
  <2>2. lc + i \in DOMAIN held
    BY <1>9, <2>1
  <2>3. run[i] = held[lc + i]
    OBVIOUS
  <2> QED
    BY <1>6, <2>1, <2>2, <2>3
<1> HIDE DEF run
<1>14. RunTaken(q, s, e, top, run)
  BY <1>1, <1>7, <1>9, <1>11, <1>12, <1>13 DEF RunTaken
<1> QED
  BY <1>14

----------------------------------------------------------------------------
(* The types *)

\* The types, with what they need: the numbering starts at one, the daemon's
\* buffer holds numbers given out, and a reorder buffer is finite.
TypeInv ==
  /\ TypeOK
  /\ \A p \in Peer : next_seq[p] # 0
  /\ DOMAIN send_buffer[Daemon] \subseteq 1 .. next_seq[Daemon] - 1
  /\ \A p \in Peer : Bounded(DOMAIN reorder_buffer[p])

\* The daemon and the browser are the two ends.
LEMMA Ends == Browser \in Peer /\ Daemon \in Peer /\ Browser # Daemon
BY EndsAssumption

\* The empty buffer is one.
LEMMA EmptyBuffer ==
  IsBuffer(<<>>) /\ Bounded(DOMAIN <<>>) /\ DOMAIN <<>> = {}
<1>1. DOMAIN <<>> = {} /\ {} \subseteq 1 .. 0
  OBVIOUS
<1>2. IsBuffer(<<>>)
  BY <1>1 DEF IsBuffer
<1> QED
  BY <1>1, <1>2 DEF Bounded

\* The state, typed.
LEMMA StateTypes ==
  ASSUME TypeInv
  PROVE  /\ next_seq[Daemon] \in Nat \ {0}
         /\ IsBuffer(send_buffer[Daemon])
         /\ DOMAIN send_buffer[Daemon] \subseteq 1 .. next_seq[Daemon] - 1
         /\ Bounded(DOMAIN send_buffer[Daemon])
         /\ last_ack_received[Daemon] \in Nat
         /\ last_contiguous[Daemon] \in Nat /\ last_contiguous[Browser] \in Nat
         /\ IsBuffer(reorder_buffer[Browser])
         /\ Bounded(DOMAIN reorder_buffer[Browser])
         /\ log[Daemon] \in Seq(Entry) /\ Len(log[Daemon]) \in Nat
         /\ accepted[Browser] \in Seq(Entry)
         /\ wire[Browser] \in Seq(Frame) /\ wire[Daemon] \in Seq(Frame)
<1>1. /\ next_seq[Daemon] \in Nat \ {0}
      /\ IsBuffer(send_buffer[Daemon])
      /\ DOMAIN send_buffer[Daemon] \subseteq 1 .. next_seq[Daemon] - 1
      /\ last_ack_received[Daemon] \in Nat
  BY Ends DEF TypeInv, TypeOK, SendTypeOK
<1>2. Bounded(DOMAIN send_buffer[Daemon])
  BY <1>1 DEF Bounded
<1>3. /\ last_contiguous[Daemon] \in Nat /\ last_contiguous[Browser] \in Nat
      /\ IsBuffer(reorder_buffer[Browser])
      /\ Bounded(DOMAIN reorder_buffer[Browser])
  BY Ends DEF TypeInv, TypeOK, ReceiveTypeOK
<1>4. /\ log[Daemon] \in Seq(Entry) /\ Len(log[Daemon]) \in Nat
      /\ accepted[Browser] \in Seq(Entry)
      /\ wire[Browser] \in Seq(Frame) /\ wire[Daemon] \in Seq(Frame)
  BY Ends DEF TypeInv, TypeOK, HistoryTypeOK
<1> QED
  BY <1>1, <1>2, <1>3, <1>4

\* receive_data keeps the types of the receiving half.
LEMMA ReceiveKeepsType ==
  ASSUME ReceiveTypeOK, accepted \in [Peer -> Seq(Entry)],
         \A p \in Peer : Bounded(DOMAIN reorder_buffer[p]),
         NEW q \in Peer, NEW s \in Nat \ {0}, NEW e \in Entry,
         ReceiveData(q, s, e)
  PROVE  /\ ReceiveTypeOK' /\ accepted' \in [Peer -> Seq(Entry)]
         /\ \A p \in Peer : Bounded(DOMAIN reorder_buffer'[p])
<1> USE DEF ReceiveTypeOK
<1>1. ack_pending' \in [Peer -> BOOLEAN]
  BY DEF ReceiveData
<1>2. CASE DropDuplicate(q, s)
  BY <1>1, <1>2 DEF DropDuplicate
<1>3. CASE AcceptRun(q, s, e)
  <2>1. PICK top, run : RunTaken(q, s, e, top, run)
    BY <1>3, AcceptedRun
  <2> USE <2>1 DEF RunTaken
  <2>2. last_contiguous' \in [Peer -> Nat]
    OBVIOUS
  <2>3. /\ DOMAIN reorder_buffer' = Peer
        /\ \A p \in Peer \ {q} : reorder_buffer'[p] = reorder_buffer[p]
        /\ reorder_buffer'[q] = [t \in DOMAIN reorder_buffer[q] \ (s .. top)
                                   |-> reorder_buffer[q][t]]
    OBVIOUS
  <2>4. IsBuffer(reorder_buffer[q]) /\ Bounded(DOMAIN reorder_buffer[q])
    OBVIOUS
  <2>5. /\ IsBuffer(reorder_buffer'[q])
        /\ DOMAIN reorder_buffer'[q] \subseteq DOMAIN reorder_buffer[q]
    BY <2>3, <2>4 DEF IsBuffer
  <2>6. Bounded(DOMAIN reorder_buffer'[q])
    BY <2>4, <2>5, BoundedIsFinite
  <2>7. /\ \A p \in Peer : IsBuffer(reorder_buffer'[p])
        /\ \A p \in Peer : Bounded(DOMAIN reorder_buffer'[p])
    BY <2>3, <2>5, <2>6
  <2>8. accepted' \in [Peer -> Seq(Entry)]
    <3>1. accepted[q] \in Seq(Entry) /\ run \in Seq(Entry)
      OBVIOUS
    <3>2. accepted[q] \o run \in Seq(Entry)
      BY ONLY <3>1, ConcatPointwise
    <3> QED
      BY <3>2
  <2> QED
    BY <1>1, <2>2, <2>3, <2>7, <2>8
<1>4. CASE HoldForLater(q, s, e)
  <2>1. /\ DOMAIN reorder_buffer' = Peer
        /\ \A p \in Peer \ {q} : reorder_buffer'[p] = reorder_buffer[p]
        /\ reorder_buffer'[q]
             = [t \in DOMAIN reorder_buffer[q] \cup {s} |->
                  IF t \in DOMAIN reorder_buffer[q] THEN reorder_buffer[q][t] ELSE e]
        /\ UNCHANGED <<last_contiguous, accepted>>
    BY <1>4 DEF HoldForLater
  <2>2. IsBuffer(reorder_buffer[q])
    OBVIOUS
  <2>3. IsBuffer(reorder_buffer'[q])
    BY <2>1, <2>2 DEF IsBuffer
  <2>4. Bounded(DOMAIN reorder_buffer'[q])
    <3>1. PICK L \in Nat : DOMAIN reorder_buffer[q] \subseteq 1 .. L
      BY DEF Bounded
    <3>2. DOMAIN reorder_buffer'[q] \subseteq 1 .. L + s
      BY <2>1, <3>1
    <3> QED
      BY <3>2 DEF Bounded
  <2> QED
    BY <1>1, <2>1, <2>3, <2>4
<1> QED
  BY <1>2, <1>3, <1>4 DEF ReceiveData

\* Frames are told apart by their type.
LEMMA FrameKinds ==
  ASSUME NEW f \in Frame
  PROVE  /\ f.type = "data" => f.seq \in Nat \ {0} /\ f.entry \in Entry
         /\ f.type = "ack" => f.ack_seq \in Nat
         /\ f.type = "resume" => f.ack_seq \in Nat
BY DEF Frame, DataFrames, AckFrames, ResumeFrames, InitFrame

\* Receiving takes the first frame of a queue and leaves a queue.
LEMMA WireKeepsType ==
  ASSUME wire \in [Peer -> Seq(Frame)], NEW p \in Peer, wire[p] # <<>>
  PROVE  /\ Head(wire[p]) \in Frame
         /\ Tail(wire[p]) \in Seq(Frame)
<1>1. wire[p] \in Seq(Frame)
  OBVIOUS
<1> QED
  BY <1>1

\* Pushing entries under the next numbers: what is buffered stays or is evicted,
\* what is pushed gets its number or is evicted, and no unacknowledged Critical
\* frame is.
LEMMA PushProperties ==
  ASSUME NEW buf, IsBuffer(buf), NEW from \in Nat \ {0}, NEW es \in Seq(Entry),
         DOMAIN buf \subseteq 1 .. from - 1, NEW ack \in Nat
  PROVE  /\ IsBuffer(Push(buf, from, es, ack))
         /\ DOMAIN Push(buf, from, es, ack) \subseteq 1 .. from + Len(es) - 1
         /\ \A s \in DOMAIN Push(buf, from, es, ack) :
              \/ s \in DOMAIN buf /\ Push(buf, from, es, ack)[s] = buf[s]
              \/ /\ s \in from .. from + Len(es) - 1
                 /\ Push(buf, from, es, ack)[s] = es[s - from + 1]
         /\ \A s \in DOMAIN buf : buf[s].priority = "Critical" /\ s > ack
              => s \in DOMAIN Push(buf, from, es, ack)
         /\ \A s \in from .. from + Len(es) - 1 :
              es[s - from + 1].priority = "Critical" /\ s > ack
                => s \in DOMAIN Push(buf, from, es, ack)
<1> DEFINE whole == Appended(buf, from, es)
           D == from .. from + Len(es) - 1
<1>1. IsBuffer(whole)
  BY AppendedIsBuffer
<1>2. DOMAIN whole = DOMAIN buf \cup D
  BY DEF Appended
<1>3. /\ \A s \in DOMAIN buf : whole[s] = buf[s]
      /\ \A s \in D : whole[s] = es[s - from + 1]
  BY DEF Appended
<1>4. Push(buf, from, es, ack) = EnforceLimit(whole, ack)
  BY DEF Push
<1>0. Len(es) \in Nat /\ D \subseteq 1 .. from + Len(es) - 1
  OBVIOUS
<1> HIDE DEF whole
<1>5. /\ IsBuffer(EnforceLimit(whole, ack))
      /\ DOMAIN EnforceLimit(whole, ack) \subseteq DOMAIN whole
      /\ \A s \in DOMAIN EnforceLimit(whole, ack) :
           EnforceLimit(whole, ack)[s] = whole[s]
      /\ \A s \in DOMAIN whole :
           whole[s].priority = "Critical" /\ s > ack
             => s \in DOMAIN EnforceLimit(whole, ack)
  BY <1>1, EnforceLimitProperties
<1> DEFINE new == Push(buf, from, es, ack)
<1>6. /\ IsBuffer(new) /\ DOMAIN new \subseteq DOMAIN whole
      /\ \A s \in DOMAIN new : new[s] = whole[s]
      /\ \A s \in DOMAIN whole :
           whole[s].priority = "Critical" /\ s > ack => s \in DOMAIN new
  BY <1>4, <1>5
<1> HIDE DEF new
<1>7. DOMAIN new \subseteq 1 .. from + Len(es) - 1
  <2>1. DOMAIN buf \subseteq 1 .. from + Len(es) - 1
    BY <1>0
  <2> HIDE DEF D
  <2> QED
    BY <1>0, <1>2, <1>6, <2>1
<1> HIDE DEF D
<1>8. /\ \A s \in DOMAIN new :
           \/ s \in DOMAIN buf /\ new[s] = buf[s]
           \/ s \in D /\ new[s] = es[s - from + 1]
      /\ \A s \in DOMAIN buf : buf[s].priority = "Critical" /\ s > ack
           => s \in DOMAIN new
      /\ \A s \in D : es[s - from + 1].priority = "Critical" /\ s > ack
           => s \in DOMAIN new
  BY <1>2, <1>3, <1>6, Zenon
<1> QED
  BY <1>6, <1>7, <1>8 DEF new, D

\* What a Resume does to the buffer: it is emptied, renumbered or left, and
\* then rid of what the Resume covers.
Renewed(buf, a, next) ==
  CASE a >= next -> <<>>
    [] a < next /\ IsGap(buf, a) -> Push(<<>>, a + 1, CriticalEntries(buf), a)
    [] OTHER -> buf

\* The next number after it.
RenewedNext(buf, a, next) ==
  CASE a >= next -> a + 1
    [] a < next /\ IsGap(buf, a) -> a + 1 + Len(CriticalEntries(buf))
    [] OTHER -> next

\* The numbers in use stay below next_seq.
LEMMA RenewedProperties ==
  ASSUME NEW buf, IsBuffer(buf), NEW a \in Nat, NEW next \in Nat \ {0},
         DOMAIN buf \subseteq 1 .. next - 1
  PROVE  /\ IsBuffer(Renewed(buf, a, next))
         /\ RenewedNext(buf, a, next) \in Nat \ {0}
         /\ DOMAIN Renewed(buf, a, next) \subseteq 1 .. RenewedNext(buf, a, next) - 1
<1> DEFINE es == CriticalEntries(buf)
<1>1. Bounded(DOMAIN buf)
  BY DEF Bounded
<1>2. es \in Seq(Entry) /\ Len(es) \in Nat
  BY <1>1, CriticalEntriesProperties
<1>3. CASE a >= next
  BY <1>3, EmptyBuffer DEF Renewed, RenewedNext
<1>4. CASE a < next /\ IsGap(buf, a)
  <2> HIDE DEF es
  <2>1. a + 1 \in Nat \ {0} /\ ~(a >= next)
    BY <1>4
  <2>2. /\ Renewed(buf, a, next) = Push(<<>>, a + 1, es, a)
        /\ RenewedNext(buf, a, next) = a + 1 + Len(es)
    BY <1>4, <2>1 DEF Renewed, RenewedNext, es
  <2>3. /\ IsBuffer(Push(<<>>, a + 1, es, a))
        /\ DOMAIN Push(<<>>, a + 1, es, a) \subseteq 1 .. (a + 1) + Len(es) - 1
    BY <1>2, <2>1, EmptyBuffer, PushProperties
  <2> QED
    BY <1>2, <2>2, <2>3
<1>5. CASE a < next /\ ~IsGap(buf, a)
  <2>1. ~(a >= next)
    BY <1>5
  <2>2. Renewed(buf, a, next) = buf /\ RenewedNext(buf, a, next) = next
    BY <1>5, <2>1 DEF Renewed, RenewedNext
  <2> QED
    BY <2>2
<1> QED
  BY <1>3, <1>4, <1>5

\* The frames a restart sends before the replay.
Resent(buf, a, next) ==
  IF a < next /\ IsGap(buf, a)
  THEN [i \in DOMAIN CriticalEntries(buf) |-> DataFrame(a + i, CriticalEntries(buf)[i])]
  ELSE <<>>

\* The frames sent are numbered from the Resume on.
LEMMA ResentProperties ==
  ASSUME NEW buf, IsBuffer(buf), NEW a \in Nat, NEW next \in Nat,
         DOMAIN buf \subseteq 1 .. next - 1
  PROVE  /\ Resent(buf, a, next) \in Seq(DataFrames)
         /\ \A i \in DOMAIN Resent(buf, a, next) :
              /\ a < next /\ IsGap(buf, a)
              /\ i \in 1 .. Len(CriticalEntries(buf))
              /\ Resent(buf, a, next)[i] = DataFrame(a + i, CriticalEntries(buf)[i])
<1> DEFINE es == CriticalEntries(buf)
           fs == [i \in DOMAIN es |-> DataFrame(a + i, es[i])]
<1>1. Bounded(DOMAIN buf)
  BY DEF Bounded
<1>2. es \in Seq(Entry) /\ Len(es) \in Nat
  BY <1>1, CriticalEntriesProperties
<1>3. CASE a < next /\ IsGap(buf, a)
  <2>1. Resent(buf, a, next) = fs
    BY <1>3 DEF Resent
  <2> HIDE DEF es
  <2>2. DOMAIN es = 1 .. Len(es)
    BY <1>2
  <2>3. \A i \in 1 .. Len(es) : fs[i] = DataFrame(a + i, es[i])
    BY <2>2
  <2>4. \A i \in 1 .. Len(es) : es[i] \in Entry /\ a + i \in Nat \ {0}
    BY <1>2
  <2>5. \A i \in 1 .. Len(es) : fs[i] \in DataFrames
    BY <2>3, <2>4 DEF DataFrame, DataFrames
  <2>6. fs = [i \in 1 .. Len(es) |-> fs[i]]
    BY <2>2
  <2> HIDE DEF fs
  <2>7. fs \in [1 .. Len(es) -> DataFrames]
    BY <2>5, <2>6
  <2>8. fs \in Seq(DataFrames) /\ DOMAIN fs = 1 .. Len(es)
    BY <1>2, <2>7
  <2> QED
    BY <1>3, <2>1, <2>3, <2>8 DEF es
<1>4. CASE ~(a < next /\ IsGap(buf, a))
  <2>1. Resent(buf, a, next) = <<>>
    BY <1>4 DEF Resent
  <2> QED
    BY <2>1
<1> QED
  BY <1>3, <1>4

\* handle_resume, in these terms.
LEMMA DaemonResumes ==
  ASSUME TypeInv, NEW a \in Nat, DaemonHandleResume(a),
         NEW buf, buf = send_buffer[Daemon], NEW next, next = next_seq[Daemon]
  PROVE  /\ last_ack_received' = [last_ack_received EXCEPT ![Daemon] = a]
         /\ next_seq' = [next_seq EXCEPT ![Daemon] = RenewedNext(buf, a, next)]
         /\ send_buffer' = [send_buffer EXCEPT
                              ![Daemon] = DropAcked(Renewed(buf, a, next), a)]
         /\ last_contiguous' = [last_contiguous EXCEPT ![Daemon] =
              IF a >= next THEN 0 ELSE IF IsGap(buf, a) THEN a ELSE @]
         /\ reorder_buffer' = [reorder_buffer EXCEPT ![Daemon] = reorder_buffer'[Daemon]]
         /\ reorder_buffer'[Daemon] \in {reorder_buffer[Daemon], <<>>}
         /\ wire' = [wire EXCEPT ![Daemon] = Tail(@), ![Browser] = wire'[Browser]]
         /\ wire'[Browser] = (wire[Browser] \o Resent(buf, a, next)) \o
              InOrder(Renewed(buf, a, next), Replayable(Renewed(buf, a, next), a))
         /\ UNCHANGED <<duplicate_ack_count, ack_pending, histVars>>
<1>1. next \in Nat /\ (a < next <=> ~(a >= next))
  BY Ends DEF TypeInv, TypeOK, SendTypeOK
<1>2. /\ DOMAIN last_contiguous = Peer /\ DOMAIN reorder_buffer = Peer
      /\ DOMAIN next_seq = Peer /\ DOMAIN wire = Peer
  BY DEF TypeInv, TypeOK, ReceiveTypeOK, SendTypeOK
<1>3. CASE a >= next
  BY <1>1, <1>2, <1>3, Ends
     DEF DaemonHandleResume, Renewed, RenewedNext, Resent, histVars
<1>4. CASE a < next /\ IsGap(buf, a)
  BY <1>1, <1>2, <1>4, Ends
     DEF DaemonHandleResume, Renewed, RenewedNext, Resent, histVars
<1>5. CASE a < next /\ ~IsGap(buf, a)
  BY <1>1, <1>2, <1>5, Ends
     DEF DaemonHandleResume, Renewed, RenewedNext, Resent, histVars
<1> QED
  BY <1>1, <1>3, <1>4, <1>5

\* The steps that touch no channel end.
LEMMA ChannelUnchangedType ==
  ASSUME TypeInv, UNCHANGED channelVars
  PROVE  /\ SendTypeOK' /\ ReceiveTypeOK' /\ HistoryTypeOK'
         /\ \A p \in Peer : next_seq'[p] # 0
         /\ DOMAIN send_buffer'[Daemon] \subseteq 1 .. next_seq'[Daemon] - 1
         /\ \A p \in Peer : Bounded(DOMAIN reorder_buffer'[p])
<1>1. /\ UNCHANGED <<next_seq, send_buffer, last_ack_received, duplicate_ack_count>>
      /\ UNCHANGED <<last_contiguous, reorder_buffer, ack_pending>>
      /\ UNCHANGED <<log, accepted>>
  BY DEF channelVars, sendVars, recvVars, histVars
<1>2. SendTypeOK'
  BY <1>1 DEF TypeInv, TypeOK, SendTypeOK
<1>3. ReceiveTypeOK'
  BY <1>1 DEF TypeInv, TypeOK, ReceiveTypeOK
<1>4. HistoryTypeOK'
  BY <1>1 DEF TypeInv, TypeOK, HistoryTypeOK
<1> QED
  BY <1>1, <1>2, <1>3, <1>4 DEF TypeInv

\* Forgetting the numbering keeps the types.
LEMMA ForgetKeepsType ==
  ASSUME TypeInv, BrowserForget, ack_pending' \in [Peer -> BOOLEAN],
         UNCHANGED <<duplicate_ack_count, histVars>>
  PROVE  /\ SendTypeOK' /\ ReceiveTypeOK' /\ HistoryTypeOK'
         /\ \A p \in Peer : next_seq'[p] # 0
         /\ DOMAIN send_buffer'[Daemon] \subseteq 1 .. next_seq'[Daemon] - 1
         /\ \A p \in Peer : Bounded(DOMAIN reorder_buffer'[p])
<1> USE DEF TypeInv, TypeOK, BrowserForget
<1>1. /\ DOMAIN send_buffer' = Peer /\ DOMAIN reorder_buffer' = Peer
      /\ send_buffer'[Browser] = <<>> /\ reorder_buffer'[Browser] = <<>>
      /\ \A p \in Peer \ {Browser} : /\ send_buffer'[p] = send_buffer[p]
                                     /\ reorder_buffer'[p] = reorder_buffer[p]
  BY Ends DEF SendTypeOK, ReceiveTypeOK
<1>2. /\ \A p \in Peer : IsBuffer(send_buffer'[p])
      /\ \A p \in Peer : IsBuffer(reorder_buffer'[p])
      /\ \A p \in Peer : Bounded(DOMAIN reorder_buffer'[p])
  BY <1>1, EmptyBuffer DEF SendTypeOK, ReceiveTypeOK
<1>3. SendTypeOK'
  BY <1>1, <1>2 DEF SendTypeOK
<1>4. ReceiveTypeOK'
  BY <1>1, <1>2 DEF ReceiveTypeOK
<1>5. HistoryTypeOK'
  BY DEF HistoryTypeOK, histVars
<1>6. /\ \A p \in Peer : next_seq'[p] # 0
      /\ DOMAIN send_buffer'[Daemon] \subseteq 1 .. next_seq'[Daemon] - 1
  BY <1>1, Ends DEF SendTypeOK
<1> QED
  BY <1>2, <1>3, <1>4, <1>5, <1>6

\* Frames put on the wire and frames taken off it.
LEMMA WireSteps ==
  ASSUME wire \in [Peer -> Seq(Frame)]
  PROVE  /\ \A p \in Peer : wire[p] \in Seq(Frame)
         /\ \A p \in Peer : \A fs \in Seq(Frame) :
              [wire EXCEPT ![p] = fs] \in [Peer -> Seq(Frame)]
         /\ \A fs, gs \in Seq(Frame) : fs \o gs \in Seq(Frame)
         /\ \A fs \in Seq(Frame), f \in Frame : Append(fs, f) \in Seq(Frame)
         /\ \A f \in Frame : <<f>> \in Seq(Frame)
         /\ <<>> \in Seq(Frame)
         /\ Seq(DataFrames) \subseteq Seq(Frame)
         /\ \A a \in Nat : AckFrame(a) \in Frame /\ ResumeFrame(a) \in Frame
         /\ InitFrame \in Frame
<1>1. /\ \A a \in Nat : AckFrame(a) \in Frame /\ ResumeFrame(a) \in Frame
      /\ InitFrame \in Frame
  BY DEF Frame, AckFrames, AckFrame, ResumeFrames, ResumeFrame
<1>2. Seq(DataFrames) \subseteq Seq(Frame)
  <2>1. DataFrames \subseteq Frame
    BY DEF Frame
  <2>2. SUFFICES ASSUME NEW s \in Seq(DataFrames) PROVE s \in Seq(Frame)
    OBVIOUS
  <2>3. Len(s) \in Nat /\ s \in [1 .. Len(s) -> DataFrames]
    OBVIOUS
  <2>4. s \in [1 .. Len(s) -> Frame]
    BY <2>1, <2>3
  <2> QED
    BY <2>3, <2>4
<1> QED
  BY <1>1, <1>2

\* Each step keeps the types: the browser connects, ...
LEMMA OpenKeepsType == TypeInv /\ BrowserOpen => TypeInv'
<1> SUFFICES ASSUME TypeInv, BrowserOpen PROVE TypeInv'
  OBVIOUS
<1> USE DEF BrowserOpen
<1>1. /\ SendTypeOK' /\ ReceiveTypeOK' /\ HistoryTypeOK'
      /\ \A p \in Peer : next_seq'[p] # 0
      /\ DOMAIN send_buffer'[Daemon] \subseteq 1 .. next_seq'[Daemon] - 1
      /\ \A p \in Peer : Bounded(DOMAIN reorder_buffer'[p])
  BY ForgetKeepsType DEF TypeInv, TypeOK, ReceiveTypeOK
<1>2. wire' \in [Peer -> Seq(Frame)]
  BY WireSteps, Ends DEF TypeInv, TypeOK
<1>3. connections' \in 0 .. MaxConnections
  BY MaxConnectionsAssumption DEF TypeInv, TypeOK
<1> QED
  BY <1>1, <1>2, <1>3 DEF TypeInv, TypeOK

\* ... takes a frame, ...
LEMMA ReceiveStepKeepsType == TypeInv /\ BrowserReceive => TypeInv'
<1> SUFFICES ASSUME TypeInv, BrowserReceive PROVE TypeInv'
  OBVIOUS
<1> DEFINE f == Head(wire[Browser])
           Types == /\ SendTypeOK' /\ ReceiveTypeOK' /\ HistoryTypeOK'
                    /\ \A p \in Peer : next_seq'[p] # 0
                    /\ DOMAIN send_buffer'[Daemon] \subseteq 1 .. next_seq'[Daemon] - 1
                    /\ \A p \in Peer : Bounded(DOMAIN reorder_buffer'[p])
<1>1. f \in Frame /\ Tail(wire[Browser]) \in Seq(Frame)
  BY WireKeepsType, Ends DEF TypeInv, TypeOK, BrowserReceive
<1>2. wire' \in [Peer -> Seq(Frame)]
  BY <1>1, WireSteps, Ends DEF TypeInv, TypeOK, BrowserReceive
<1>2a. SUFFICES Types
  <2>1. UNCHANGED linkVars
    BY DEF BrowserReceive
  <2> QED
    BY <1>2, <2>1 DEF TypeInv, TypeOK, linkVars
<1>3. CASE BrowserReset
  <2>1. ack_pending' \in [Peer -> BOOLEAN] /\ BrowserForget
        /\ UNCHANGED <<duplicate_ack_count, histVars>>
    BY <1>3 DEF BrowserReset, TypeInv, TypeOK, ReceiveTypeOK
  <2> QED
    BY <2>1, ForgetKeepsType
<1>4. CASE f.type = "resume" /\ BrowserHandleResume(f.ack_seq)
  <2>1. f.ack_seq \in Nat
    BY <1>1, <1>4, FrameKinds
  <2> DEFINE a == f.ack_seq
  <2> HIDE DEF f
  <2>2. BrowserHandleResume(a) /\ a \in Nat
    BY <1>4, <2>1
  <2> HIDE DEF a
  <2> USE <2>2 DEF TypeInv, TypeOK, BrowserHandleResume
  <2>3. SendTypeOK'
    <3>1. UNCHANGED <<send_buffer, duplicate_ack_count>>
      OBVIOUS
    <3>2. /\ next_seq' = [next_seq EXCEPT ![Browser] = a + 1]
          /\ last_ack_received' = [last_ack_received EXCEPT ![Browser] = a]
      OBVIOUS
    <3>3. /\ next_seq \in [Peer -> Nat] /\ last_ack_received \in [Peer -> Nat]
          /\ a \in Nat /\ a + 1 \in Nat
      BY DEF SendTypeOK
    <3>4. next_seq' \in [Peer -> Nat] /\ last_ack_received' \in [Peer -> Nat]
      BY ONLY <3>2, <3>3
    <3> QED
      BY <3>1, <3>4 DEF SendTypeOK
  <2>4. /\ DOMAIN reorder_buffer' = Peer /\ reorder_buffer'[Browser] = <<>>
        /\ \A p \in Peer \ {Browser} : reorder_buffer'[p] = reorder_buffer[p]
        /\ last_contiguous' \in [Peer -> Nat] /\ ack_pending' = ack_pending
    BY Ends DEF ReceiveTypeOK
  <2>5. /\ \A p \in Peer : IsBuffer(reorder_buffer'[p])
        /\ \A p \in Peer : Bounded(DOMAIN reorder_buffer'[p])
    BY <2>4, EmptyBuffer DEF ReceiveTypeOK
  <2>6. ReceiveTypeOK'
    BY <2>4, <2>5 DEF ReceiveTypeOK
  <2>7. HistoryTypeOK'
    BY DEF HistoryTypeOK, histVars
  <2>8. /\ \A p \in Peer : next_seq'[p] # 0
        /\ DOMAIN send_buffer'[Daemon] \subseteq 1 .. next_seq'[Daemon] - 1
    BY Ends DEF SendTypeOK
  <2> QED
    BY <2>3, <2>5, <2>6, <2>7, <2>8
<1>5. CASE f.type = "data" /\ ReceiveData(Browser, f.seq, f.entry)
  <2>1. f.seq \in Nat \ {0} /\ f.entry \in Entry
    BY <1>1, <1>5, FrameKinds
  <2>2. /\ ReceiveTypeOK' /\ accepted' \in [Peer -> Seq(Entry)]
        /\ \A p \in Peer : Bounded(DOMAIN reorder_buffer'[p])
    BY <1>5, <2>1, ReceiveKeepsType, Ends DEF TypeInv, TypeOK, HistoryTypeOK
  <2>3. UNCHANGED <<sendVars, log>>
    BY <1>5 DEF ReceiveData
  <2>4. SendTypeOK' /\ HistoryTypeOK'
    BY <2>2, <2>3 DEF TypeInv, TypeOK, SendTypeOK, HistoryTypeOK, sendVars
  <2> QED
    BY <2>2, <2>3, <2>4 DEF TypeInv, sendVars
<1> QED
  BY <1>3, <1>4, <1>5 DEF BrowserReceive

\* ... or sends an ack;
LEMMA TickKeepsType == TypeInv /\ BrowserTick => TypeInv'
<1> SUFFICES ASSUME TypeInv, BrowserTick PROVE TypeInv'
  OBVIOUS
<1>1. /\ UNCHANGED <<next_seq, send_buffer, last_ack_received, duplicate_ack_count>>
      /\ UNCHANGED <<last_contiguous, reorder_buffer, log, accepted, linkVars>>
      /\ ack_pending' = [ack_pending EXCEPT ![Browser] = FALSE]
  BY DEF BrowserTick, Tick, sendVars, histVars
<1>2. SendTypeOK' /\ ReceiveTypeOK' /\ HistoryTypeOK'
  BY <1>1 DEF TypeInv, TypeOK, SendTypeOK, ReceiveTypeOK, HistoryTypeOK
<1>3. wire' \in [Peer -> Seq(Frame)]
  BY WireSteps, Ends DEF TypeInv, TypeOK, ReceiveTypeOK, BrowserTick
<1> QED
  BY <1>1, <1>2, <1>3 DEF TypeInv, TypeOK, linkVars

\* What Send does at the daemon.
LEMMA DaemonSends ==
  ASSUME TypeInv, NEW n \in 1 .. MaxChunks, NEW pri \in Priority,
         Send(Daemon, n, pri), NEW es, es = MessageEntries(Daemon, n, pri)
  PROVE  /\ n \in Nat \ {0} /\ es \in Seq(Entry) /\ Len(es) = n
         /\ log' = [log EXCEPT ![Daemon] = @ \o es]
         /\ next_seq' = [next_seq EXCEPT ![Daemon] = @ + n]
         /\ send_buffer' = [send_buffer EXCEPT ![Daemon] =
              Push(@, next_seq[Daemon], es, last_ack_received[Daemon])]
         /\ next_seq[Daemon] \in Nat \ {0}
         /\ UNCHANGED <<last_ack_received, duplicate_ack_count, last_contiguous,
                        reorder_buffer, ack_pending, accepted>>
<1>1. n \in Nat \ {0}
  BY MaxChunksAssumption
<1>2. es \in Seq(Entry) /\ Len(es) = n
  BY <1>1, MessageEntriesType, Ends DEF TypeInv, TypeOK, HistoryTypeOK
<1>3. next_seq[Daemon] \in Nat \ {0}
  BY Ends DEF TypeInv, TypeOK, SendTypeOK
<1> QED
  BY <1>1, <1>2, <1>3 DEF Send, recvVars

\* the event consumer sends a message,
LEMMA EventKeepsType == TypeInv /\ EventSent => TypeInv'
<1> SUFFICES ASSUME TypeInv, EventSent PROVE TypeInv'
  OBVIOUS
<1>1. PICK n \in 1 .. MaxChunks, pri \in SendPriority :
        /\ Send(Daemon, n, pri)
        /\ wire' = [wire EXCEPT ![Browser] =
             Transmit([i \in 1 .. n |->
                         DataFrame(next_seq[Daemon] + i - 1,
                                   MessageEntries(Daemon, n, pri)[i])])]
  BY DEF EventSent
<1> DEFINE es == MessageEntries(Daemon, n, pri)
<1>2. /\ n \in Nat \ {0} /\ es \in Seq(Entry) /\ Len(es) = n
      /\ log' = [log EXCEPT ![Daemon] = @ \o es]
      /\ next_seq' = [next_seq EXCEPT ![Daemon] = @ + n]
      /\ send_buffer' = [send_buffer EXCEPT ![Daemon] =
           Push(@, next_seq[Daemon], es, last_ack_received[Daemon])]
      /\ next_seq[Daemon] \in Nat \ {0}
      /\ UNCHANGED <<last_ack_received, duplicate_ack_count, last_contiguous,
                     reorder_buffer, ack_pending, accepted>>
  BY <1>1, DaemonSends, PriorityAssumption
<1> DEFINE fs == [i \in 1 .. n |-> DataFrame(next_seq[Daemon] + i - 1, es[i])]
<1>3. wire' = [wire EXCEPT ![Browser] = Transmit(fs)]
  BY <1>1
<1> HIDE DEF es
<1> USE DEF TypeInv, TypeOK
<1>4. fs \in Seq(Frame)
  <2>1. \A i \in 1 .. n : fs[i] \in DataFrames
    <3>1. \A i \in 1 .. n : es[i] \in Entry /\ next_seq[Daemon] + i - 1 \in Nat \ {0}
      BY <1>2
    <3> QED
      BY <3>1 DEF DataFrame, DataFrames
  <2>2. fs = [i \in 1 .. n |-> fs[i]]
    OBVIOUS
  <2> HIDE DEF fs
  <2>3. fs \in [1 .. n -> DataFrames]
    BY <2>1, <2>2
  <2>4. fs \in Seq(DataFrames)
    BY <1>2, <2>3
  <2> QED
    BY <2>4, WireSteps
<1> HIDE DEF fs
<1>5. wire' \in [Peer -> Seq(Frame)]
  BY <1>3, <1>4, WireSteps, Ends DEF Transmit
<1>6. /\ IsBuffer(send_buffer[Daemon])
      /\ DOMAIN send_buffer[Daemon] \subseteq 1 .. next_seq[Daemon] - 1
      /\ last_ack_received[Daemon] \in Nat
  BY Ends DEF SendTypeOK
<1>7. /\ IsBuffer(send_buffer'[Daemon])
      /\ DOMAIN send_buffer'[Daemon] \subseteq 1 .. next_seq[Daemon] + n - 1
      /\ \A p \in Peer \ {Daemon} : send_buffer'[p] = send_buffer[p]
      /\ DOMAIN send_buffer' = Peer
  BY <1>2, <1>6, PushProperties, Ends DEF SendTypeOK
<1>8. SendTypeOK'
  <2>1. \A p \in Peer : IsBuffer(send_buffer'[p])
    BY <1>7 DEF SendTypeOK
  <2>2. next_seq' \in [Peer -> Nat]
    BY <1>2, Ends DEF SendTypeOK
  <2> QED
    BY <1>2, <1>7, <2>1, <2>2 DEF SendTypeOK
<1>9. ReceiveTypeOK'
  BY <1>2 DEF ReceiveTypeOK
<1>10. HistoryTypeOK'
  <2>1. log[Daemon] \in Seq(Entry)
    BY Ends DEF HistoryTypeOK
  <2>2. log[Daemon] \o es \in Seq(Entry)
    BY <1>2, <2>1
  <2> QED
    BY <1>2, <2>2 DEF HistoryTypeOK
<1>11. /\ \A p \in Peer : next_seq'[p] # 0
       /\ DOMAIN send_buffer'[Daemon] \subseteq 1 .. next_seq'[Daemon] - 1
       /\ \A p \in Peer : Bounded(DOMAIN reorder_buffer'[p])
  <2>1. next_seq'[Daemon] = next_seq[Daemon] + n
    BY <1>2, Ends DEF SendTypeOK
  <2>2. \A p \in Peer : p # Daemon => next_seq'[p] = next_seq[p]
    BY <1>2, Ends DEF SendTypeOK
  <2>3. \A p \in Peer : next_seq'[p] # 0
    BY <1>2, <2>1, <2>2
  <2> QED
    BY <1>2, <1>7, <2>1, <2>3
<1>12. UNCHANGED linkVars
  BY DEF EventSent
<1> QED
  BY <1>5, <1>8, <1>9, <1>10, <1>11, <1>12 DEF linkVars

\* A replay is a sequence of frames.
LEMMA ReplayIsFrames ==
  ASSUME NEW buf, IsBuffer(buf), Bounded(DOMAIN buf), NEW a
  PROVE  InOrder(buf, Replayable(buf, a)) \in Seq(DataFrames)
BY InOrderProperties DEF Replayable

\* the handler goes a step further or the connection ends,
LEMMA HandlerKeepsType ==
  TypeInv /\ (Attach \/ SendResume \/ StartConsumer \/ GateTimeout \/ Disconnect)
    => TypeInv'
<1> SUFFICES ASSUME TypeInv,
                    Attach \/ SendResume \/ StartConsumer \/ GateTimeout \/ Disconnect
             PROVE  TypeInv'
  OBVIOUS
<1>1. UNCHANGED channelVars /\ UNCHANGED connections
  BY DEF Attach, SendResume, StartConsumer, GateTimeout, Disconnect
<1>2. wire' \in [Peer -> Seq(Frame)]
  <2>1. CASE Attach
    <3>1. /\ IsBuffer(send_buffer[Daemon]) /\ Bounded(DOMAIN send_buffer[Daemon])
          /\ next_seq[Daemon] \in Nat
      BY StateTypes
    <3> DEFINE fs == InOrder(send_buffer[Daemon], FlushReplay(Daemon))
    <3>2. fs \in Seq(DataFrames)
      BY <3>1, ReplayIsFrames DEF FlushReplay
    <3>3. wire' = [wire EXCEPT ![Browser] = <<InitFrame>> \o fs]
      BY <2>1 DEF Attach
    <3> HIDE DEF fs
    <3>4. <<InitFrame>> \o fs \in Seq(Frame)
      BY <3>2, WireSteps DEF TypeInv, TypeOK
    <3> QED
      BY <3>3, <3>4, WireSteps, Ends DEF TypeInv, TypeOK
  <2>2. CASE SendResume
    BY <2>2, WireSteps, Ends DEF TypeInv, TypeOK, ReceiveTypeOK, SendResume
  <2>3. CASE StartConsumer \/ GateTimeout
    BY <2>3 DEF TypeInv, TypeOK, StartConsumer, GateTimeout
  <2>4. CASE Disconnect
    BY <2>4, WireSteps DEF TypeInv, TypeOK, Disconnect
  <2> QED
    BY <2>1, <2>2, <2>3, <2>4
<1>3. /\ handler' \in {"none", "attach", "resume", "drain", "loop"}
      /\ gate_open' \in BOOLEAN
      /\ consumer' \in {"none", "gated", "running"}
  BY DEF Attach, SendResume, StartConsumer, GateTimeout, Disconnect, TypeInv, TypeOK
<1>4. /\ SendTypeOK' /\ ReceiveTypeOK' /\ HistoryTypeOK'
      /\ \A p \in Peer : next_seq'[p] # 0
      /\ DOMAIN send_buffer'[Daemon] \subseteq 1 .. next_seq'[Daemon] - 1
      /\ \A p \in Peer : Bounded(DOMAIN reorder_buffer'[p])
  BY <1>1, ChannelUnchangedType
<1> QED
  BY <1>1, <1>2, <1>3, <1>4 DEF TypeInv, TypeOK

\* receive_ack and handle_resume keep the types of the sending half.
LEMMA AckKeepsType ==
  ASSUME TypeInv, NEW a \in Nat, ReceiveAck(Daemon, a)
  PROVE  /\ SendTypeOK' /\ ReceiveTypeOK' /\ HistoryTypeOK'
         /\ \A p \in Peer : next_seq'[p] # 0
         /\ DOMAIN send_buffer'[Daemon] \subseteq 1 .. next_seq'[Daemon] - 1
         /\ \A p \in Peer : Bounded(DOMAIN reorder_buffer'[p])
<1> USE DEF TypeInv, TypeOK
<1>1. UNCHANGED <<next_seq, last_contiguous, reorder_buffer, ack_pending, log, accepted>>
  BY DEF ReceiveAck, recvVars, histVars
<1>2. ReceiveTypeOK' /\ HistoryTypeOK'
  BY <1>1 DEF ReceiveTypeOK, HistoryTypeOK
<1>3. /\ IsBuffer(send_buffer[Daemon])
      /\ duplicate_ack_count[Daemon] \in 0 .. 2
      /\ DOMAIN send_buffer = Peer
  BY Ends DEF SendTypeOK, DupAckThreshold
<1>4. CASE a > last_ack_received[Daemon]
  <2>1. /\ last_ack_received' = [last_ack_received EXCEPT ![Daemon] = a]
        /\ send_buffer' = [send_buffer EXCEPT ![Daemon] = DropAcked(@, a)]
        /\ duplicate_ack_count' = [duplicate_ack_count EXCEPT ![Daemon] = 0]
    BY <1>4 DEF ReceiveAck
  <2>2. /\ IsBuffer(send_buffer'[Daemon]) /\ DOMAIN send_buffer' = Peer
        /\ DOMAIN send_buffer'[Daemon] \subseteq DOMAIN send_buffer[Daemon]
        /\ \A p \in Peer \ {Daemon} : send_buffer'[p] = send_buffer[p]
    <3>1. send_buffer'[Daemon] = DropAcked(send_buffer[Daemon], a)
      BY <1>3, <2>1, Ends
    <3>2. IsBuffer(send_buffer'[Daemon])
      BY <1>3, <3>1, DropAckedProperties
    <3>3. DOMAIN send_buffer'[Daemon] \subseteq DOMAIN send_buffer[Daemon]
      BY <3>1 DEF DropAcked
    <3>4. /\ DOMAIN send_buffer' = Peer
          /\ \A p \in Peer \ {Daemon} : send_buffer'[p] = send_buffer[p]
      BY <1>3, <2>1
    <3> QED
      BY <3>2, <3>3, <3>4
  <2>3. SendTypeOK'
    <3>1. \A p \in Peer : IsBuffer(send_buffer'[p])
      BY <2>2 DEF SendTypeOK
    <3>2. last_ack_received' \in [Peer -> Nat]
      BY <2>1 DEF SendTypeOK
    <3>3. duplicate_ack_count' \in [Peer -> 0 .. DupAckThreshold - 1]
      <4>1. duplicate_ack_count \in [Peer -> 0 .. 2] /\ 0 \in 0 .. 2
        BY DEF SendTypeOK, DupAckThreshold
      <4>2. duplicate_ack_count' \in [Peer -> 0 .. 2]
        BY ONLY <2>1, <4>1
      <4> QED
        BY <4>2 DEF DupAckThreshold
    <3> QED
      BY <1>1, <2>2, <3>1, <3>2, <3>3 DEF SendTypeOK
  <2> QED
    BY <1>1, <1>2, <2>2, <2>3
<1>5. CASE ~(a > last_ack_received[Daemon])
  <2>1. /\ UNCHANGED <<last_ack_received, send_buffer>>
        /\ duplicate_ack_count' = [duplicate_ack_count EXCEPT ![Daemon] =
             IF FastRetransmit(Daemon, a) THEN 0
             ELSE IF IsDuplicateAck(Daemon, a) THEN @ + 1 ELSE @]
    BY <1>5 DEF ReceiveAck
  <2>2. duplicate_ack_count' \in [Peer -> 0 .. DupAckThreshold - 1]
    BY <1>3, <2>1, Ends DEF SendTypeOK, DupAckThreshold, FastRetransmit
  <2>3. SendTypeOK'
    BY <1>1, <2>1, <2>2 DEF SendTypeOK
  <2> QED
    BY <1>1, <1>2, <2>1, <2>3
<1> QED
  BY <1>4, <1>5

\* handle_resume gives every kept frame a number below next_seq,
LEMMA ResumeKeepsType ==
  ASSUME TypeInv, NEW a \in Nat, DaemonHandleResume(a)
  PROVE  /\ SendTypeOK' /\ ReceiveTypeOK' /\ HistoryTypeOK'
         /\ \A p \in Peer : next_seq'[p] # 0
         /\ DOMAIN send_buffer'[Daemon] \subseteq 1 .. next_seq'[Daemon] - 1
         /\ \A p \in Peer : Bounded(DOMAIN reorder_buffer'[p])
<1> DEFINE buf == send_buffer[Daemon]
           next == next_seq[Daemon]
           new == Renewed(buf, a, next)
           num == RenewedNext(buf, a, next)
<1> USE DEF TypeInv, TypeOK
<1>1. /\ last_ack_received' = [last_ack_received EXCEPT ![Daemon] = a]
      /\ next_seq' = [next_seq EXCEPT ![Daemon] = num]
      /\ send_buffer' = [send_buffer EXCEPT ![Daemon] = DropAcked(new, a)]
      /\ last_contiguous' = [last_contiguous EXCEPT ![Daemon] =
           IF a >= next THEN 0 ELSE IF IsGap(buf, a) THEN a ELSE @]
      /\ reorder_buffer' = [reorder_buffer EXCEPT ![Daemon] = reorder_buffer'[Daemon]]
      /\ reorder_buffer'[Daemon] \in {reorder_buffer[Daemon], <<>>}
      /\ UNCHANGED <<duplicate_ack_count, ack_pending, histVars>>
  BY DaemonResumes
<1>2. /\ IsBuffer(buf) /\ next \in Nat \ {0} /\ DOMAIN buf \subseteq 1 .. next - 1
  BY Ends DEF SendTypeOK
<1>3. IsBuffer(new) /\ num \in Nat \ {0} /\ DOMAIN new \subseteq 1 .. num - 1
  BY <1>2, RenewedProperties
<1> HIDE DEF new, num, buf, next
<1>4. IsBuffer(DropAcked(new, a)) /\ DOMAIN DropAcked(new, a) \subseteq DOMAIN new
  BY ONLY <1>3, DropAckedProperties
<1>5. /\ send_buffer'[Daemon] = DropAcked(new, a) /\ DOMAIN send_buffer' = Peer
      /\ next_seq'[Daemon] = num
      /\ \A p \in Peer \ {Daemon} : /\ send_buffer'[p] = send_buffer[p]
                                    /\ next_seq'[p] = next_seq[p]
  BY <1>1, Ends DEF SendTypeOK
<1>6. SendTypeOK'
  <2>1. \A p \in Peer : IsBuffer(send_buffer'[p])
    BY <1>4, <1>5 DEF SendTypeOK
  <2>2. next_seq' \in [Peer -> Nat] /\ last_ack_received' \in [Peer -> Nat]
    BY <1>1, <1>3 DEF SendTypeOK
  <2> QED
    BY <1>1, <1>5, <2>1, <2>2 DEF SendTypeOK
<1>7. /\ DOMAIN reorder_buffer' = Peer
      /\ \A p \in Peer : IsBuffer(reorder_buffer'[p]) /\ Bounded(DOMAIN reorder_buffer'[p])
  <2>1. \A p \in Peer : reorder_buffer'[p] \in {reorder_buffer[p], <<>>}
    BY <1>1 DEF ReceiveTypeOK
  <2> QED
    BY <1>1, <2>1, EmptyBuffer DEF ReceiveTypeOK
<1>8. ReceiveTypeOK'
  <2>1. last_contiguous' \in [Peer -> Nat]
    BY <1>1 DEF ReceiveTypeOK
  <2> QED
    BY <1>1, <1>7, <2>1 DEF ReceiveTypeOK
<1>9. HistoryTypeOK'
  BY <1>1 DEF HistoryTypeOK, histVars
<1>10. /\ \A p \in Peer : next_seq'[p] # 0
       /\ DOMAIN send_buffer'[Daemon] \subseteq 1 .. next_seq'[Daemon] - 1
  BY <1>3, <1>4, <1>5
<1> QED
  BY <1>6, <1>7, <1>8, <1>9, <1>10

\* and the daemon takes a frame.
LEMMA DaemonStepKeepsType == TypeInv /\ DaemonReceive => TypeInv'
<1> SUFFICES ASSUME TypeInv, DaemonReceive PROVE TypeInv'
  OBVIOUS
<1> DEFINE f == Head(wire[Daemon])
           buf == send_buffer[Daemon]
           next == next_seq[Daemon]
<1>1. f \in Frame /\ Tail(wire[Daemon]) \in Seq(Frame)
  BY WireKeepsType, Ends DEF TypeInv, TypeOK, DaemonReceive
<1>2. /\ IsBuffer(buf) /\ next \in Nat \ {0} /\ DOMAIN buf \subseteq 1 .. next - 1
      /\ Bounded(DOMAIN buf)
  <2>1. /\ IsBuffer(buf) /\ next \in Nat \ {0} /\ DOMAIN buf \subseteq 1 .. next - 1
    BY Ends DEF TypeInv, TypeOK, SendTypeOK
  <2> QED
    BY <2>1 DEF Bounded
<1>3. /\ gate_open' = TRUE /\ UNCHANGED <<handler, connections>>
      /\ consumer' \in {"running", consumer}
  BY DEF DaemonReceive
<1>4. CASE f.type = "resume" /\ DaemonHandleResume(f.ack_seq)
  <2>1. PICK a \in Nat : f.ack_seq = a
    BY <1>1, <1>4, FrameKinds
  <2>2. DaemonHandleResume(a)
    BY <1>4, <2>1
  <2>3. /\ SendTypeOK' /\ ReceiveTypeOK' /\ HistoryTypeOK'
        /\ \A p \in Peer : next_seq'[p] # 0
        /\ DOMAIN send_buffer'[Daemon] \subseteq 1 .. next_seq'[Daemon] - 1
        /\ \A p \in Peer : Bounded(DOMAIN reorder_buffer'[p])
    BY <2>2, ResumeKeepsType
  <2> DEFINE new == Renewed(buf, a, next)
             fs == Resent(buf, a, next)
             gs == InOrder(new, Replayable(new, a))
  <2>4. /\ wire' = [wire EXCEPT ![Daemon] = Tail(@), ![Browser] = wire'[Browser]]
        /\ wire'[Browser] = (wire[Browser] \o fs) \o gs
    BY <2>2, DaemonResumes
  <2>5. fs \in Seq(DataFrames)
    BY <1>2, ResentProperties
  <2>6. gs \in Seq(DataFrames)
    <3>1. IsBuffer(new) /\ Bounded(DOMAIN new)
      BY <1>2, RenewedProperties DEF Bounded
    <3> HIDE DEF new
    <3> QED
      BY <3>1, ReplayIsFrames
  <2> HIDE DEF fs, gs
  <2>7. (wire[Browser] \o fs) \o gs \in Seq(Frame)
    BY <2>5, <2>6, WireSteps, Ends DEF TypeInv, TypeOK
  <2>8. wire' \in [Peer -> Seq(Frame)]
    BY <1>1, <2>4, <2>7, WireSteps, Ends DEF TypeInv, TypeOK
  <2> QED
    BY <1>3, <2>3, <2>8 DEF TypeInv, TypeOK
<1>5. CASE /\ f.type = "ack"
           /\ ReceiveAck(Daemon, f.ack_seq)
           /\ wire' = [wire EXCEPT ![Daemon] = Tail(@),
                         ![Browser] = @ \o InOrder(buf, AckReplay(Daemon, f.ack_seq))]
  <2>1. PICK a \in Nat : f.ack_seq = a
    BY <1>1, <1>5, FrameKinds
  <2>2. /\ SendTypeOK' /\ ReceiveTypeOK' /\ HistoryTypeOK'
        /\ \A p \in Peer : next_seq'[p] # 0
        /\ DOMAIN send_buffer'[Daemon] \subseteq 1 .. next_seq'[Daemon] - 1
        /\ \A p \in Peer : Bounded(DOMAIN reorder_buffer'[p])
    BY <1>5, <2>1, AckKeepsType
  <2> DEFINE gs == InOrder(buf, AckReplay(Daemon, a))
  <2>3. gs \in Seq(DataFrames)
    BY <1>2, InOrderProperties DEF AckReplay, Replayable
  <2>4. wire' = [wire EXCEPT ![Daemon] = Tail(@), ![Browser] = @ \o gs]
    BY <1>5, <2>1
  <2> HIDE DEF gs
  <2>5. wire[Browser] \o gs \in Seq(Frame)
    BY <2>3, WireSteps, Ends DEF TypeInv, TypeOK
  <2>6. wire' \in [Peer -> Seq(Frame)]
    BY <1>1, <2>4, <2>5, WireSteps, Ends DEF TypeInv, TypeOK
  <2> QED
    BY <1>3, <2>2, <2>6 DEF TypeInv, TypeOK
<1> QED
  BY <1>4, <1>5 DEF DaemonReceive

\* The types and the bounds on the numbers are an inductive invariant.
LEMMA TypeInvInductive ==
  /\ Init => TypeInv
  /\ TypeInv /\ [Next]_vars => TypeInv'
<1>1. ASSUME Init PROVE TypeInv
  <2> USE <1>1 DEF Init, ChannelInit
  <2>1. SendTypeOK
    BY EmptyBuffer DEF SendTypeOK, DupAckThreshold
  <2>2. ReceiveTypeOK
    BY EmptyBuffer DEF ReceiveTypeOK
  <2>3. HistoryTypeOK /\ wire \in [Peer -> Seq(Frame)]
    BY DEF HistoryTypeOK
  <2>4. /\ \A p \in Peer : next_seq[p] # 0
        /\ DOMAIN send_buffer[Daemon] \subseteq 1 .. next_seq[Daemon] - 1
        /\ \A p \in Peer : Bounded(DOMAIN reorder_buffer[p])
    BY EmptyBuffer, Ends
  <2>5. connections \in 0 .. MaxConnections
    BY MaxConnectionsAssumption
  <2>6. /\ handler \in {"none", "attach", "resume", "drain", "loop"}
        /\ gate_open \in BOOLEAN
        /\ consumer \in {"none", "gated", "running"}
    OBVIOUS
  <2>7. TypeOK
    BY ONLY <2>1, <2>2, <2>3, <2>5, <2>6 DEF TypeOK
  <2> QED
    BY <2>4, <2>7 DEF TypeInv
<1>2. ASSUME TypeInv, [Next]_vars PROVE TypeInv'
  <2>1. CASE UNCHANGED vars
    <3>1. UNCHANGED channelVars /\ UNCHANGED <<linkVars, wire>>
      BY <2>1 DEF vars
    <3> QED
      BY <1>2, <3>1, ChannelUnchangedType DEF TypeInv, TypeOK, linkVars
  <2> QED
    BY <1>2, <2>1, OpenKeepsType, ReceiveStepKeepsType, TickKeepsType,
       EventKeepsType, HandlerKeepsType, DaemonStepKeepsType DEF Next
<1> QED
  BY <1>1, <1>2

\* The types, for any number of connections, messages and frames.
THEOREM TypeCorrect == Spec => []TypeOK
<1>1. TypeInv => TypeOK
  BY DEF TypeInv
<1> QED
  BY <1>1, TypeInvInductive, PTL DEF Spec

----------------------------------------------------------------------------
(* The inductive invariant. *)

\* A data frame, a Resume under way to the browser in place i, and whether a
\* Resume still has to reach it behind place i.
DataAt(i) == wire[Browser][i].type = "data"
ResumeAt(i) == wire[Browser][i].type = "resume"
ResumeAfter(i) == \E j \in DOMAIN wire[Browser] : j > i /\ ResumeAt(j)

\* The Resume of this connection has not been processed by the daemon.
Unresumed == handler # "none" /\ ~gate_open

\* The queues follow the steps of the handler: the Resume is the first frame to
\* the daemon, and one, that asks for everything, goes to the browser.
ConnectionInv ==
  /\ handler = "none" => wire[Browser] = <<>> /\ wire[Daemon] = <<>>
  /\ handler \in {"attach", "resume"} =>
       ~gate_open /\ \A i \in DOMAIN wire[Browser] : ~ResumeAt(i)
  /\ Unresumed => wire[Daemon] # <<>> /\ wire[Daemon][1] = ResumeFrame(0)
  /\ \A i \in DOMAIN wire[Daemon] :
       wire[Daemon][i].type # "ack" => i = 1 /\ Unresumed
  /\ \A i \in DOMAIN wire[Browser] : ResumeAt(i) =>
       /\ wire[Browser][i].ack_seq = 0
       /\ \A j \in DOMAIN wire[Browser] : ResumeAt(j) => j = i

\* m numbers the data: frame s of the present numbering carries datum m[s].
Numbers(m) ==
  /\ Len(m) = next_seq[Daemon] - 1
  /\ \A s \in 1 .. Len(m) : m[s] \in 1 .. Len(log[Daemon])
  /\ \A s, t \in 1 .. Len(m) : s < t => m[s] < m[t]

\* A frame that carries what it should under this numbering.
Numbered(m, s, e) == s \in 1 .. Len(m) /\ e = log[Daemon][m[s]]

\* The frame in place i of the queue to the browser does.
CarriedAt(m, i) ==
  Numbered(m, wire[Browser][i].seq, wire[Browser][i].entry)

\* The daemon's end under this numbering.
DaemonInv(m) ==
  /\ Numbers(m)
  /\ last_contiguous[Daemon] = 0
  /\ last_ack_received[Daemon] <= Len(m)
  /\ \A s \in DOMAIN send_buffer[Daemon] :
       s > last_ack_received[Daemon] /\ Numbered(m, s, send_buffer[Daemon][s])

\* Every Critical datum without a number, or whose frame has left the buffer,
\* has been given to the browser.
GoneIsSeen(m) ==
  /\ \A d \in 1 .. Len(log[Daemon]) :
       IsCritical(d) /\ (\A s \in 1 .. Len(m) : m[s] # d) => d \in Seen
  /\ \A s \in 1 .. Len(m) :
       IsCritical(m[s]) /\ s \notin DOMAIN send_buffer[Daemon] => m[s] \in Seen

\* The log numbers what it holds, the browser is given nothing else, and
\* nothing before the Critical frames handed over earlier.
SeenInv ==
  /\ \A d \in 1 .. Len(log[Daemon]) : log[Daemon][d].data = d
  /\ Seen \subseteq 1 .. Len(log[Daemon])
  /\ NoCriticalSkipped

\* The first a data of the numbering have been given to the browser.
Covered(m, a) == a \in 0 .. Len(m) /\ \A s \in 1 .. a : m[s] \in Seen

\* The browser counts in the present numbering ...
BrowserAgrees(m) ==
  /\ Covered(m, last_contiguous[Browser])
  /\ \A s \in DOMAIN reorder_buffer[Browser] :
       Numbered(m, s, reorder_buffer[Browser][s])
  /\ \A i \in DOMAIN wire[Browser] : DataAt(i) => CarriedAt(m, i)

\* ... or has been given nothing since it connected, and the Resume under way
\* to it will make it drop the frames of the old numbering.
BrowserBlind(m) ==
  /\ last_contiguous[Browser] = 0
  /\ \A s \in DOMAIN reorder_buffer[Browser] : s >= 2
  /\ \E i \in DOMAIN wire[Browser] : ResumeAt(i)
  /\ \A i \in DOMAIN wire[Browser] : DataAt(i) =>
       IF ResumeAfter(i) THEN wire[Browser][i].seq >= 2 ELSE CarriedAt(m, i)

\* One of the two, while there is a connection.
BrowserInv(m) == handler # "none" => BrowserAgrees(m) \/ BrowserBlind(m)

\* An ack under way covers only what the browser was given.
AcksInv(m) == \A i \in DOMAIN wire[Daemon] : Covered(m, wire[Daemon][i].ack_seq)

\* Until the Resume is processed the browser knows only buffered frames, and
\* forgets them when the daemon's Resume arrives.  If the first one is gone it
\* has nothing in order, and has acknowledged nothing.
ResumeInv ==
  Unresumed =>
    /\ \A s \in DOMAIN reorder_buffer[Browser] : s \in DOMAIN send_buffer[Daemon]
    /\ \A i \in DOMAIN wire[Browser] :
         DataAt(i) => wire[Browser][i].seq \in DOMAIN send_buffer[Daemon]
    /\ 1 \notin DOMAIN send_buffer[Daemon] =>
         /\ last_contiguous[Browser] = 0
         /\ \A i \in DOMAIN wire[Daemon] : wire[Daemon][i].ack_seq = 0
    /\ handler \in {"drain", "loop"} =>
         /\ \A i \in DOMAIN wire[Browser] : DataAt(i) => ResumeAfter(i)
         /\ (\A i \in DOMAIN wire[Browser] : ~ResumeAt(i)) =>
              DOMAIN reorder_buffer[Browser] = {}

\* What depends on the numbering, and the invariant as a whole.
Inv(m) == DaemonInv(m) /\ GoneIsSeen(m) /\ BrowserInv(m) /\ AcksInv(m)

IInv == ConnectionInv /\ SeenInv /\ ResumeInv /\ \E m \in Seq(Nat) : Inv(m)

(* Steps of the browser leave the daemon's end alone, and the other way. *)

DaemonKept ==
  /\ next_seq'[Daemon] = next_seq[Daemon]
  /\ send_buffer'[Daemon] = send_buffer[Daemon]
  /\ last_ack_received'[Daemon] = last_ack_received[Daemon]
  /\ last_contiguous'[Daemon] = last_contiguous[Daemon]
  /\ log'[Daemon] = log[Daemon]

BrowserKept ==
  /\ last_contiguous'[Browser] = last_contiguous[Browser]
  /\ reorder_buffer'[Browser] = reorder_buffer[Browser]
  /\ accepted'[Browser] = accepted[Browser]

\* What is known of the daemon's end survives a step of the browser.
LEMMA DaemonKeptInv ==
  ASSUME DaemonKept, Seen \subseteq Seen', NEW m, DaemonInv(m), GoneIsSeen(m)
  PROVE  DaemonInv(m)' /\ GoneIsSeen(m)'
<1>1. Numbers(m)' /\ \A s, e : Numbered(m, s, e) => Numbered(m, s, e)'
  BY DEF DaemonKept, DaemonInv, Numbers, Numbered
<1>2. DaemonInv(m)'
  BY <1>1 DEF DaemonKept, DaemonInv
<1>3. GoneIsSeen(m)'
  BY DEF DaemonKept, GoneIsSeen, IsCritical
<1> QED
  BY <1>2, <1>3

\* The data given to the browser come from what its end accepted.
LEMMA SeenKept == BrowserKept => Seen' = Seen
BY DEF BrowserKept, Seen

\* Neither the log nor what was seen changes: neither does their relation.
LEMMA SeenInvKept ==
  ASSUME SeenInv, Seen' = Seen, log'[Daemon] = log[Daemon]
  PROVE  SeenInv'
BY DEF SeenInv, NoCriticalSkipped, IsCritical

\* What the browser was given stays given.
LEMMA CoveredKept ==
  ASSUME NEW m, Seen \subseteq Seen'
  PROVE  \A a : Covered(m, a) => Covered(m, a)'
BY DEF Covered

\* A frame is judged by the log.
LEMMA NumberedKept ==
  ASSUME NEW m, log'[Daemon] = log[Daemon]
  PROVE  \A s, e : Numbered(m, s, e)' <=> Numbered(m, s, e)
BY DEF Numbered

(* Queues *)

\* What is left of a queue when its first frame is taken.
Shifted(w, v) ==
  /\ 1 \in DOMAIN w /\ w[1] = Head(w)
  /\ \A i \in DOMAIN v : i \in Nat \ {0} /\ i + 1 \in DOMAIN w /\ v[i] = w[i + 1]
  /\ \A j \in DOMAIN w : j \in Nat \ {0}
                         /\ (j # 1 => j - 1 \in DOMAIN v /\ v[j - 1] = w[j])

\* Taking the first frame moves the others up.
LEMMA TailShifts ==
  ASSUME NEW w \in Seq(Frame), w # <<>>
  PROVE  Shifted(w, Tail(w))
BY DEF Shifted

\* What a queue is when frames are added to it.
Extended(w, v, fs) ==
  /\ \A i \in DOMAIN w : i \in Nat /\ i \in DOMAIN v /\ v[i] = w[i]
  /\ \A i \in DOMAIN v \ DOMAIN w :
       /\ \A j \in DOMAIN w : j < i
       /\ \E k \in DOMAIN fs : v[i] = fs[k]

\* Appending frames adds them behind the others.
LEMMA ConcatExtends ==
  ASSUME NEW w \in Seq(Frame), NEW fs \in Seq(Frame)
  PROVE  Extended(w, w \o fs, fs)
<1> DEFINE v == w \o fs
<1>1. /\ v \in Seq(Frame) /\ Len(w) \in Nat /\ Len(fs) \in Nat
      /\ Len(v) = Len(w) + Len(fs)
      /\ \A i \in 1 .. Len(w) : v[i] = w[i]
      /\ \A i \in 1 .. Len(fs) : v[Len(w) + i] = fs[i]
  BY ConcatPointwise
<1> HIDE DEF v
<1>2. DOMAIN w = 1 .. Len(w) /\ DOMAIN fs = 1 .. Len(fs) /\ DOMAIN v = 1 .. Len(v)
  BY <1>1
<1>3. ASSUME NEW i \in DOMAIN v \ DOMAIN w
      PROVE  (\A j \in DOMAIN w : j < i) /\ \E k \in DOMAIN fs : v[i] = fs[k]
  <2>1. i - Len(w) \in DOMAIN fs /\ i = Len(w) + (i - Len(w))
    BY <1>1, <1>2
  <2>2. v[i] = fs[i - Len(w)]
    BY <1>1, <1>2, <2>1
  <2> QED
    BY <1>1, <1>2, <2>1, <2>2
<1>4. \A i \in DOMAIN w : i \in Nat /\ i \in DOMAIN v /\ v[i] = w[i]
  BY <1>1, <1>2
<1> QED
  BY <1>3, <1>4 DEF Extended, v

(* The browser takes a frame. *)

\* The frames behind it move up, with what is behind them.
LEMMA FramesMoveUp ==
  ASSUME Shifted(wire[Browser], wire'[Browser])
  PROVE  /\ \A i \in DOMAIN wire'[Browser] :
              /\ i + 1 \in DOMAIN wire[Browser]
              /\ wire'[Browser][i] = wire[Browser][i + 1]
              /\ DataAt(i)' <=> DataAt(i + 1)
              /\ ResumeAt(i)' <=> ResumeAt(i + 1)
              /\ ResumeAfter(i)' <=> ResumeAfter(i + 1)
         /\ (\E i \in DOMAIN wire[Browser] : i # 1 /\ ResumeAt(i))
              => \E i \in DOMAIN wire'[Browser] : ResumeAt(i)'
<1> DEFINE w == wire[Browser]
           v == wire'[Browser]
<1>1. /\ \A i \in DOMAIN v : i \in Nat \ {0} /\ i + 1 \in DOMAIN w /\ v[i] = w[i + 1]
      /\ \A j \in DOMAIN w : j \in Nat \ {0}
                             /\ (j # 1 => j - 1 \in DOMAIN v /\ v[j - 1] = w[j])
  BY DEF Shifted
<1>2. ASSUME NEW i \in DOMAIN v
      PROVE  /\ i + 1 \in DOMAIN w /\ v[i] = w[i + 1]
             /\ DataAt(i)' <=> DataAt(i + 1)
             /\ ResumeAt(i)' <=> ResumeAt(i + 1)
  BY <1>1 DEF DataAt, ResumeAt
<1>3. ASSUME NEW i \in DOMAIN v
      PROVE  ResumeAfter(i)' <=> ResumeAfter(i + 1)
  <2>0. i \in Nat \ {0}
    BY <1>1
  <2>1. ASSUME ResumeAfter(i)' PROVE ResumeAfter(i + 1)
    <3>1. PICK j \in DOMAIN v : j > i /\ ResumeAt(j)'
      BY <2>1 DEF ResumeAfter
    <3>2. j \in Nat /\ j + 1 > i + 1 /\ j + 1 \in DOMAIN w /\ ResumeAt(j + 1)
      BY <1>1, <1>2, <2>0, <3>1
    <3> QED
      BY <3>2 DEF ResumeAfter
  <2>2. ASSUME ResumeAfter(i + 1) PROVE ResumeAfter(i)'
    <3>1. PICK j \in DOMAIN w : j > i + 1 /\ ResumeAt(j)
      BY <2>2 DEF ResumeAfter
    <3>2. j \in Nat /\ j # 1 /\ j - 1 > i /\ (j - 1) + 1 = j /\ j - 1 \in DOMAIN v
      BY <1>1, <2>0, <3>1
    <3>3. ResumeAt(j - 1)'
      BY <1>2, <3>1, <3>2
    <3> QED
      BY <3>2, <3>3 DEF ResumeAfter
  <2> QED
    BY <2>1, <2>2
<1>4. ASSUME NEW j \in DOMAIN w, j # 1, ResumeAt(j)
      PROVE  \E i \in DOMAIN v : ResumeAt(i)'
  <2>1. j \in Nat /\ j - 1 \in DOMAIN v /\ v[j - 1] = w[j]
    BY <1>1, <1>4
  <2>2. ResumeAt(j - 1)'
    BY <1>4, <2>1 DEF ResumeAt
  <2> QED
    BY <2>1, <2>2
<1> QED
  BY <1>2, <1>3, <1>4

\* The browser takes the first frame of its queue.
LEMMA BrowserTakesFrame ==
  ASSUME TypeInv, ConnectionInv, BrowserReceive
  PROVE  /\ handler # "none"
         /\ Shifted(wire[Browser], wire'[Browser])
         /\ ConnectionInv'
         /\ wire'[Daemon] = wire[Daemon]
<1>1. wire[Browser] # <<>> /\ wire[Browser] \in Seq(Frame)
  BY StateTypes DEF BrowserReceive
<1>2. handler # "none"
  BY <1>1 DEF ConnectionInv
<1>3. /\ wire'[Browser] = Tail(wire[Browser]) /\ wire'[Daemon] = wire[Daemon]
      /\ UNCHANGED <<handler, gate_open>>
  BY Ends DEF BrowserReceive, TypeInv, TypeOK, linkVars
<1>4. Shifted(wire[Browser], wire'[Browser])
  BY <1>1, <1>3, TailShifts
<1>5. ConnectionInv'
  <2> DEFINE v == wire'[Browser]
  <2>1. \A i \in DOMAIN v : /\ i \in Nat /\ i + 1 \in DOMAIN wire[Browser]
                            /\ v[i] = wire[Browser][i + 1]
                            /\ ResumeAt(i)' <=> ResumeAt(i + 1)
    BY <1>4, FramesMoveUp DEF Shifted
  <2>2. handler' \in {"attach", "resume"} =>
          ~gate_open' /\ \A i \in DOMAIN v : ~ResumeAt(i)'
    BY <1>3, <2>1 DEF ConnectionInv
  <2>3. ASSUME NEW i \in DOMAIN v, ResumeAt(i)'
        PROVE  v[i].ack_seq = 0 /\ \A j \in DOMAIN v : ResumeAt(j)' => j = i
    <3>1. /\ ResumeAt(i + 1) /\ i + 1 \in DOMAIN wire[Browser]
          /\ v[i] = wire[Browser][i + 1]
      BY <2>1, <2>3
    <3>2. /\ wire[Browser][i + 1].ack_seq = 0
          /\ \A j \in DOMAIN wire[Browser] : ResumeAt(j) => j = i + 1
      BY <3>1 DEF ConnectionInv
    <3>3. \A j \in DOMAIN v : ResumeAt(j)' => j + 1 = i + 1
      BY <2>1, <3>2
    <3> QED
      BY <2>1, <3>1, <3>2, <3>3
  <2>4. Unresumed' <=> Unresumed
    BY <1>3 DEF Unresumed
  <2> HIDE DEF v
  <2> QED
    BY <1>2, <1>3, <2>2, <2>3, <2>4 DEF ConnectionInv, v
<1> QED
  BY <1>2, <1>3, <1>4, <1>5

\* The init message, and the daemon's Resume: the browser starts over.
LEMMA StartsOver ==
  ASSUME TypeInv, ConnectionInv, BrowserReceive,
         LET f == Head(wire[Browser]) IN
           \/ BrowserReset
           \/ f.type = "resume" /\ BrowserHandleResume(f.ack_seq)
  PROVE  /\ DaemonKept /\ accepted'[Browser] = accepted[Browser]
         /\ last_contiguous'[Browser] = 0 /\ reorder_buffer'[Browser] = <<>>
         /\ log'[Daemon] = log[Daemon]
<1> DEFINE f == Head(wire[Browser])
<1> USE Ends DEF DaemonKept
<1>0. /\ DOMAIN next_seq = Peer /\ DOMAIN send_buffer = Peer
      /\ DOMAIN last_ack_received = Peer /\ DOMAIN last_contiguous = Peer
      /\ DOMAIN reorder_buffer = Peer
  BY DEF TypeInv, TypeOK, SendTypeOK, ReceiveTypeOK
<1>1. CASE BrowserReset
  BY <1>0, <1>1 DEF BrowserReset, BrowserForget, histVars
<1>2. CASE f.type = "resume" /\ BrowserHandleResume(f.ack_seq)
  <2>1. Shifted(wire[Browser], wire'[Browser])
    BY BrowserTakesFrame
  <2>2. 1 \in DOMAIN wire[Browser] /\ wire[Browser][1] = f
    BY <2>1 DEF Shifted
  <2>3. f.ack_seq = 0
    BY <1>2, <2>2 DEF ConnectionInv, ResumeAt
  <2>4. BrowserHandleResume(0)
    BY <1>2, <2>3
  <2> QED
    BY <1>0, <2>4 DEF BrowserHandleResume, histVars
<1> QED
  BY <1>1, <1>2

\* Starting over, the browser agrees with the daemon, or still waits for the
\* Resume if it was the init message.
LEMMA StartOverKeepsInv ==
  ASSUME TypeInv, IInv, BrowserReceive,
         LET f == Head(wire[Browser]) IN
           \/ f.type = "init" /\ BrowserReset
           \/ f.type = "resume" /\ BrowserHandleResume(f.ack_seq)
  PROVE  IInv'
<1> DEFINE f == Head(wire[Browser])
<1> USE DEF IInv
<1>1. /\ DaemonKept /\ accepted'[Browser] = accepted[Browser]
      /\ last_contiguous'[Browser] = 0 /\ reorder_buffer'[Browser] = <<>>
      /\ log'[Daemon] = log[Daemon]
  BY StartsOver
<1>2. /\ handler # "none" /\ ConnectionInv' /\ wire'[Daemon] = wire[Daemon]
      /\ Shifted(wire[Browser], wire'[Browser])
      /\ UNCHANGED <<handler, gate_open>>
  BY BrowserTakesFrame DEF BrowserReceive, linkVars
<1>3. Seen' = Seen
  BY <1>1 DEF Seen
<1>4. SeenInv'
  BY <1>1, <1>3, SeenInvKept
<1>5. 1 \in DOMAIN wire[Browser] /\ wire[Browser][1] = f
  BY <1>2 DEF Shifted
<1>6. /\ \A i \in DOMAIN wire'[Browser] :
           /\ i \in Nat \ {0} /\ i + 1 \in DOMAIN wire[Browser]
           /\ wire'[Browser][i] = wire[Browser][i + 1]
           /\ DataAt(i)' <=> DataAt(i + 1)
           /\ ResumeAfter(i)' <=> ResumeAfter(i + 1)
      /\ (\E i \in DOMAIN wire[Browser] : i # 1 /\ ResumeAt(i))
           => \E i \in DOMAIN wire'[Browser] : ResumeAt(i)'
  BY <1>2, FramesMoveUp DEF Shifted
<1>7. DOMAIN reorder_buffer'[Browser] = {}
  BY <1>1, EmptyBuffer
<1>8. ResumeInv'
  <2>1. SUFFICES ASSUME Unresumed'
                 PROVE  /\ \A i \in DOMAIN wire'[Browser] : DataAt(i)' =>
                             wire'[Browser][i].seq \in DOMAIN send_buffer'[Daemon]
                        /\ 1 \notin DOMAIN send_buffer'[Daemon] =>
                             \A i \in DOMAIN wire'[Daemon] : wire'[Daemon][i].ack_seq = 0
                        /\ handler' \in {"drain", "loop"} =>
                             \A i \in DOMAIN wire'[Browser] : DataAt(i)' => ResumeAfter(i)'
    BY <1>1, <1>7 DEF ResumeInv
  <2>2. Unresumed
    BY <1>2, <2>1 DEF Unresumed
  <2>3. /\ \A i \in DOMAIN wire[Browser] :
             DataAt(i) => wire[Browser][i].seq \in DOMAIN send_buffer[Daemon]
        /\ 1 \notin DOMAIN send_buffer[Daemon] =>
             \A i \in DOMAIN wire[Daemon] : wire[Daemon][i].ack_seq = 0
        /\ handler \in {"drain", "loop"} =>
             \A i \in DOMAIN wire[Browser] : DataAt(i) => ResumeAfter(i)
    BY <2>2 DEF ResumeInv
  <2> QED
    BY <1>1, <1>2, <1>6, <2>3 DEF DaemonKept
<1>9. PICK m \in Seq(Nat) : Inv(m)
  OBVIOUS
<1>10. DaemonInv(m)' /\ GoneIsSeen(m)'
  BY <1>1, <1>3, <1>9, DaemonKeptInv DEF Inv
<1>11. AcksInv(m)'
  <2>1. \A a : Covered(m, a) => Covered(m, a)'
    BY <1>3, CoveredKept
  <2> QED
    BY <1>2, <1>9, <2>1 DEF Inv, AcksInv
<1>12. BrowserInv(m)'
  <2>1. Covered(m, 0)'
    BY DEF Covered
  <2>2. \A i \in DOMAIN wire'[Browser] : CarriedAt(m, i)' <=> CarriedAt(m, i + 1)
    BY <1>1, <1>6 DEF CarriedAt, Numbered
  <2>3. CASE BrowserAgrees(m)
    <3>1. \A i \in DOMAIN wire'[Browser] : DataAt(i)' => CarriedAt(m, i)'
      BY <1>6, <2>2, <2>3 DEF BrowserAgrees
    <3>2. BrowserAgrees(m)'
      BY <1>1, <1>7, <2>1, <3>1 DEF BrowserAgrees
    <3> QED
      BY <3>2 DEF BrowserInv
  <2>4. CASE BrowserBlind(m) /\ f.type = "init"
    <3>1. \E i \in DOMAIN wire[Browser] : i # 1 /\ ResumeAt(i)
      BY <1>5, <2>4 DEF BrowserBlind, ResumeAt
    <3>2. \A i \in DOMAIN wire'[Browser] : DataAt(i)' =>
            IF ResumeAfter(i)' THEN wire'[Browser][i].seq >= 2 ELSE CarriedAt(m, i)'
      BY <1>6, <2>2, <2>4 DEF BrowserBlind
    <3>3. BrowserBlind(m)'
      BY <1>1, <1>6, <1>7, <3>1, <3>2 DEF BrowserBlind
    <3> QED
      BY <3>3 DEF BrowserInv
  <2>5. CASE BrowserBlind(m) /\ f.type = "resume"
    <3>1. \A i \in DOMAIN wire[Browser] : ResumeAt(i) => i = 1
      BY <1>5, <2>5 DEF ConnectionInv, ResumeAt
    <3>2. \A i \in DOMAIN wire[Browser] : i > 1 => ~ResumeAfter(i)
      BY <3>1, <1>2 DEF ResumeAfter, Shifted
    <3>3. \A i \in DOMAIN wire'[Browser] : DataAt(i)' => CarriedAt(m, i)'
      BY <1>6, <2>2, <2>5, <3>2 DEF BrowserBlind
    <3>4. BrowserAgrees(m)'
      BY <1>1, <1>7, <2>1, <3>3 DEF BrowserAgrees
    <3> QED
      BY <3>4 DEF BrowserInv
  <2> QED
    BY <1>2, <1>9, <2>3, <2>4, <2>5 DEF Inv, BrowserInv
<1>13. Inv(m)'
  BY <1>10, <1>11, <1>12 DEF Inv
<1> QED
  BY <1>2, <1>4, <1>8, <1>13

\* The run of frames a browser in agreement takes is given out in order.
LEMMA RunIsSeen ==
  ASSUME TypeInv, SeenInv, NEW m \in Seq(Nat), DaemonInv(m), BrowserAgrees(m),
         NEW s, NEW e, Numbered(m, s, e),
         NEW top, NEW run, RunTaken(Browser, s, e, top, run)
  PROVE  /\ top \in Nat /\ top <= Len(m) /\ s = last_contiguous[Browser] + 1
         /\ \A d : d \in Seen' <=> d \in Seen \/ \E t \in s .. top : d = m[t]
<1> DEFINE lc == last_contiguous[Browser]
           rb == reorder_buffer[Browser]
           L == log[Daemon]
<1>1. /\ lc \in Nat /\ top \in Nat /\ top > lc /\ s = lc + 1 /\ Len(m) \in Nat
      /\ accepted[Browser] \in Seq(Entry) /\ run \in Seq(Entry)
      /\ Len(run) = top - lc
  BY StateTypes DEF RunTaken
<1>2. /\ \A t \in s .. top : t = s \/ t \in DOMAIN rb
      /\ \A i \in 1 .. Len(run) : run[i] = IF i = 1 THEN e ELSE rb[lc + i]
      /\ accepted' = [accepted EXCEPT ![Browser] = @ \o run]
  BY DEF RunTaken
<1>3. ASSUME NEW i \in 1 .. Len(run)
      PROVE  lc + i \in 1 .. Len(m) /\ run[i] = L[m[lc + i]]
  <2>1. lc + i \in s .. top /\ (lc + i = s <=> i = 1)
    BY <1>1
  <2>2. CASE i = 1
    BY <1>2, <2>1, <2>2 DEF Numbered
  <2>3. CASE i # 1
    <3>1. lc + i \in DOMAIN rb
      BY <1>2, <2>1, <2>3
    <3>2. Numbered(m, lc + i, rb[lc + i])
      BY <3>1 DEF BrowserAgrees
    <3> QED
      BY <1>2, <2>3, <3>2 DEF Numbered
  <2> QED
    BY <2>2, <2>3
<1>4. \A t \in 1 .. Len(m) : m[t] \in 1 .. Len(L) /\ L[m[t]].data = m[t]
  BY DEF DaemonInv, Numbers, SeenInv
<1>5. \A i \in 1 .. Len(run) : run[i].data = m[lc + i]
  BY <1>3, <1>4
<1>6. top <= Len(m)
  <2>1. Len(run) \in 1 .. Len(run) /\ lc + Len(run) = top
    BY <1>1
  <2> QED
    BY <1>1, <1>3, <2>1
<1> DEFINE acc == accepted[Browser]
           new == accepted'[Browser]
<1>7. /\ Len(acc) \in Nat /\ new \in Seq(Entry)
      /\ Len(new) = Len(acc) + Len(run)
      /\ \A i \in 1 .. Len(acc) : new[i] = acc[i]
      /\ \A i \in 1 .. Len(run) : new[Len(acc) + i] = run[i]
  <2>1. new = acc \o run
    BY <1>2, Ends DEF TypeInv, TypeOK, HistoryTypeOK
  <2>2. acc \in Seq(Entry) /\ run \in Seq(Entry)
    BY <1>1
  <2> HIDE DEF acc, new
  <2> QED
    BY ONLY <2>1, <2>2, ConcatPointwise
<1>8. /\ \A d : d \in Seen <=> \E i \in 1 .. Len(acc) : d = acc[i].data
      /\ \A d : d \in Seen' <=> \E i \in 1 .. Len(new) : d = new[i].data
  <2>1. DOMAIN acc = 1 .. Len(acc) /\ DOMAIN new = 1 .. Len(new)
    BY <1>1, <1>7
  <2> QED
    BY <2>1 DEF Seen
<1> HIDE DEF acc, new, rb, lc, L
<1>9. ASSUME NEW d
      PROVE  d \in Seen' <=> d \in Seen \/ \E t \in s .. top : d = m[t]
  <2>1. ASSUME d \in Seen PROVE d \in Seen'
    <3>1. PICK i \in 1 .. Len(acc) : d = acc[i].data
      BY <1>8, <2>1
    <3>2. i \in 1 .. Len(new) /\ d = new[i].data
      BY <1>1, <1>7, <3>1
    <3> QED
      BY <1>8, <3>2
  <2>2. ASSUME NEW t \in s .. top, d = m[t] PROVE d \in Seen'
    <3>1. t - lc \in 1 .. Len(run) /\ lc + (t - lc) = t
      BY <1>1
    <3>2. run[t - lc].data = d
      BY <1>5, <2>2, <3>1
    <3>3. /\ Len(acc) + (t - lc) \in 1 .. Len(new)
          /\ new[Len(acc) + (t - lc)] = run[t - lc]
      BY <1>1, <1>7, <3>1
    <3> QED
      BY <1>8, <3>2, <3>3
  <2>3. ASSUME d \in Seen', d \notin Seen PROVE \E t \in s .. top : d = m[t]
    <3>1. PICK i \in 1 .. Len(new) : d = new[i].data
      BY <1>8, <2>3
    <3>2. i \notin 1 .. Len(acc)
      BY <1>7, <1>8, <2>3, <3>1
    <3>3. /\ i - Len(acc) \in 1 .. Len(run) /\ Len(acc) + (i - Len(acc)) = i
      BY <1>1, <1>7, <3>1, <3>2
    <3>4. new[i] = run[i - Len(acc)]
      BY <1>7, <3>3
    <3>5. d = m[lc + (i - Len(acc))] /\ lc + (i - Len(acc)) \in s .. top
      BY <1>1, <1>5, <3>1, <3>3, <3>4
    <3> QED
      BY <3>5
  <2> QED
    BY <2>1, <2>2, <2>3
<1> QED
  BY <1>1, <1>6, <1>9 DEF lc

\* Nothing Critical is passed over: a Critical datum before one of the run is
\* numbered before it, or was seen before the numbering.
LEMMA RunKeepsSeen ==
  ASSUME TypeInv, SeenInv, NEW m \in Seq(Nat), DaemonInv(m), GoneIsSeen(m),
         Covered(m, last_contiguous[Browser]), log'[Daemon] = log[Daemon],
         NEW top \in Nat, top <= Len(m),
         \A d : d \in Seen' <=>
           d \in Seen \/ \E t \in last_contiguous[Browser] + 1 .. top : d = m[t]
  PROVE  SeenInv' /\ Seen \subseteq Seen' /\ Covered(m, top)'
<1> DEFINE lc == last_contiguous[Browser]
<1>1. lc \in Nat /\ Len(m) \in Nat /\ Len(log[Daemon]) \in Nat
  BY StateTypes
<1>2. /\ \A t \in 1 .. Len(m) : m[t] \in 1 .. Len(log[Daemon])
      /\ \A s, t \in 1 .. Len(m) : s < t => m[s] < m[t]
  BY DEF DaemonInv, Numbers
<1>3. Seen \subseteq Seen'
  OBVIOUS
<1>4. ASSUME NEW t \in 1 .. top PROVE m[t] \in Seen'
  <2>1. CASE t <= lc
    BY <1>1, <1>3, <2>1 DEF Covered
  <2>2. CASE t > lc
    <3>1. t \in lc + 1 .. top
      BY <1>1, <2>2
    <3> QED
      BY <3>1
  <2> QED
    BY <1>1, <2>1, <2>2
<1>5. Covered(m, top)'
  BY <1>4 DEF Covered
<1>6. Seen' \subseteq 1 .. Len(log[Daemon])
  <2>1. SUFFICES ASSUME NEW t \in lc + 1 .. top PROVE m[t] \in 1 .. Len(log[Daemon])
    BY DEF SeenInv
  <2>2. t \in 1 .. Len(m)
    BY <1>1
  <2> QED
    BY <1>2, <2>2
<1>7. ASSUME NEW d \in Seen', NEW c \in 1 .. d - 1, IsCritical(c)
      PROVE  c \in Seen'
  <2>1. CASE d \in Seen
    BY <1>3, <1>7, <2>1 DEF SeenInv, NoCriticalSkipped
  <2>2. CASE d \notin Seen
    <3>1. PICK t \in lc + 1 .. top : d = m[t]
      BY <2>2
    <3>2. t \in 1 .. top /\ t \in 1 .. Len(m)
      BY <1>1
    <3>3. d \in 1 .. Len(log[Daemon]) /\ c \in 1 .. Len(log[Daemon]) /\ c < d
      BY <1>1, <1>2, <3>1, <3>2
    <3>4. CASE \A r \in 1 .. Len(m) : m[r] # c
      BY <1>3, <1>7, <3>3, <3>4 DEF GoneIsSeen
    <3>5. ASSUME NEW r \in 1 .. Len(m), m[r] = c PROVE c \in Seen'
      <4>1. ~(t < r) /\ r # t
        BY <1>2, <3>1, <3>2, <3>3, <3>5
      <4>2. r \in 1 .. top
        BY <3>2, <4>1
      <4> QED
        BY <1>4, <3>5, <4>2
    <3> QED
      BY <3>4, <3>5
  <2> QED
    BY <2>1, <2>2
<1>8. SeenInv'
  <2>1. \A c : IsCritical(c)' <=> IsCritical(c)
    BY DEF IsCritical
  <2>2. NoCriticalSkipped'
    BY <1>7, <2>1 DEF NoCriticalSkipped
  <2> QED
    BY <1>6, <2>2 DEF SeenInv
<1> QED
  BY <1>3, <1>5, <1>8

\* A data frame, taken, kept or dropped, leaves the daemon's end alone.
LEMMA DataStep ==
  ASSUME TypeInv, IInv, BrowserReceive, NEW s, NEW e, s \in Nat \ {0}, e \in Entry,
         s = Head(wire[Browser]).seq, e = Head(wire[Browser]).entry,
         ReceiveData(Browser, s, e), Head(wire[Browser]).type = "data"
  PROVE  /\ DaemonKept /\ log'[Daemon] = log[Daemon]
         /\ UNCHANGED <<handler, gate_open>> /\ handler # "none"
         /\ Shifted(wire[Browser], wire'[Browser])
         /\ ConnectionInv' /\ wire'[Daemon] = wire[Daemon]
         /\ 1 \in DOMAIN wire[Browser] /\ DataAt(1)
         /\ s = wire[Browser][1].seq /\ e = wire[Browser][1].entry
<1>1. /\ UNCHANGED <<handler, gate_open>> /\ handler # "none"
      /\ Shifted(wire[Browser], wire'[Browser])
      /\ ConnectionInv' /\ wire'[Daemon] = wire[Daemon]
  BY BrowserTakesFrame DEF IInv, BrowserReceive, linkVars
<1>2. 1 \in DOMAIN wire[Browser] /\ wire[Browser][1] = Head(wire[Browser])
  BY <1>1 DEF Shifted
<1>3. DOMAIN last_contiguous = Peer
  BY DEF TypeInv, TypeOK, ReceiveTypeOK
<1>4. last_contiguous'[Daemon] = last_contiguous[Daemon]
  BY <1>3, Ends DEF ReceiveData, DropDuplicate, AcceptRun, HoldForLater
<1>5. DaemonKept /\ log'[Daemon] = log[Daemon]
  BY <1>4 DEF DaemonKept, ReceiveData, sendVars
<1> QED
  BY <1>1, <1>2, <1>5 DEF DataAt

\* The three cases of receive_data, by what they leave.
DataEffect(s, e) ==
  \/ /\ s <= last_contiguous[Browser] /\ BrowserKept
  \/ \E top, run : RunTaken(Browser, s, e, top, run)
  \/ /\ s > last_contiguous[Browser] + 1
     /\ last_contiguous'[Browser] = last_contiguous[Browser]
     /\ accepted'[Browser] = accepted[Browser]
     /\ DOMAIN reorder_buffer'[Browser] = DOMAIN reorder_buffer[Browser] \cup {s}
     /\ \A t \in DOMAIN reorder_buffer'[Browser] :
          reorder_buffer'[Browser][t]
            = IF t \in DOMAIN reorder_buffer[Browser]
              THEN reorder_buffer[Browser][t] ELSE e

\* receive_data does one of three things with a frame.
LEMMA DataEffects ==
  ASSUME TypeInv, NEW s, NEW e \in Entry, ReceiveData(Browser, s, e)
  PROVE  DataEffect(s, e)
<1>1. CASE DropDuplicate(Browser, s)
  BY <1>1 DEF DropDuplicate, DataEffect, BrowserKept
<1>2. CASE AcceptRun(Browser, s, e)
  BY <1>2, AcceptedRun, Ends DEF DataEffect, TypeInv, TypeOK
<1>3. CASE HoldForLater(Browser, s, e)
  <2>1. reorder_buffer'[Browser]
          = [t \in DOMAIN reorder_buffer[Browser] \cup {s} |->
               IF t \in DOMAIN reorder_buffer[Browser]
               THEN reorder_buffer[Browser][t] ELSE e]
    BY <1>3, Ends DEF HoldForLater, TypeInv, TypeOK, ReceiveTypeOK
  <2>2. /\ s > last_contiguous[Browser] + 1
        /\ last_contiguous'[Browser] = last_contiguous[Browser]
        /\ accepted'[Browser] = accepted[Browser]
    BY <1>3 DEF HoldForLater
  <2> QED
    BY <2>1, <2>2 DEF DataEffect
<1> QED
  BY <1>1, <1>2, <1>3 DEF ReceiveData

\* What a run leaves in the reorder buffer was there before.
LEMMA RunLeaves ==
  ASSUME TypeInv, NEW s, NEW e, NEW top, NEW run,
         RunTaken(Browser, s, e, top, run)
  PROVE  /\ last_contiguous'[Browser] = top
         /\ DOMAIN reorder_buffer'[Browser] \subseteq DOMAIN reorder_buffer[Browser]
         /\ \A t \in DOMAIN reorder_buffer'[Browser] :
              reorder_buffer'[Browser][t] = reorder_buffer[Browser][t]
<1>1. DOMAIN last_contiguous = Peer /\ DOMAIN reorder_buffer = Peer
  BY DEF TypeInv, TypeOK, ReceiveTypeOK
<1> QED
  BY <1>1, Ends DEF RunTaken

\* A frame on the wire keeps what the browser may know before the Resume.
LEMMA DataKeepsResumeInv ==
  ASSUME TypeInv, IInv, BrowserReceive, NEW s, NEW e, s \in Nat \ {0}, e \in Entry,
         s = Head(wire[Browser]).seq, e = Head(wire[Browser]).entry,
         ReceiveData(Browser, s, e), Head(wire[Browser]).type = "data"
  PROVE  ResumeInv'
<1>1. /\ DaemonKept /\ UNCHANGED <<handler, gate_open>>
      /\ Shifted(wire[Browser], wire'[Browser])
      /\ wire'[Daemon] = wire[Daemon]
      /\ 1 \in DOMAIN wire[Browser] /\ DataAt(1) /\ s = wire[Browser][1].seq
  BY DataStep
<1>2. DataEffect(s, e)
  BY DataEffects
<1>3. SUFFICES ASSUME Unresumed' PROVE ResumeInv'
  BY DEF ResumeInv
<1>4. Unresumed
  BY <1>1, <1>3 DEF Unresumed
<1>5. /\ \A t \in DOMAIN reorder_buffer[Browser] : t \in DOMAIN send_buffer[Daemon]
      /\ \A i \in DOMAIN wire[Browser] :
           DataAt(i) => wire[Browser][i].seq \in DOMAIN send_buffer[Daemon]
      /\ 1 \notin DOMAIN send_buffer[Daemon] =>
           /\ last_contiguous[Browser] = 0
           /\ \A i \in DOMAIN wire[Daemon] : wire[Daemon][i].ack_seq = 0
      /\ handler \in {"drain", "loop"} =>
           \A i \in DOMAIN wire[Browser] : DataAt(i) => ResumeAfter(i)
  BY <1>4 DEF IInv, ResumeInv
<1>6. s \in DOMAIN send_buffer[Daemon]
  BY <1>1, <1>5
<1>7. /\ DOMAIN reorder_buffer'[Browser] \subseteq DOMAIN reorder_buffer[Browser] \cup {s}
      /\ 1 \notin DOMAIN send_buffer[Daemon] => last_contiguous'[Browser] = 0
  <2>1. CASE s <= last_contiguous[Browser] /\ BrowserKept
    BY <1>5, <2>1 DEF BrowserKept
  <2>2. CASE \E top, run : RunTaken(Browser, s, e, top, run)
    <3>1. PICK top, run : RunTaken(Browser, s, e, top, run)
      BY <2>2
    <3>2. s = last_contiguous[Browser] + 1
      BY <3>1 DEF RunTaken
    <3>3. DOMAIN reorder_buffer'[Browser] \subseteq DOMAIN reorder_buffer[Browser]
      BY <3>1, RunLeaves
    <3>4. 1 \in DOMAIN send_buffer[Daemon]
      <4>1. SUFFICES ASSUME 1 \notin DOMAIN send_buffer[Daemon] PROVE FALSE
        OBVIOUS
      <4>2. s = 1
        BY <1>5, <3>2, <4>1
      <4> QED
        BY <1>6, <4>1, <4>2
    <3> QED
      BY <3>3, <3>4
  <2>3. CASE /\ last_contiguous'[Browser] = last_contiguous[Browser]
             /\ DOMAIN reorder_buffer'[Browser] = DOMAIN reorder_buffer[Browser] \cup {s}
    BY <1>5, <2>3
  <2> QED
    BY <1>2, <2>1, <2>2, <2>3 DEF DataEffect
<1>8. /\ \A i \in DOMAIN wire'[Browser] :
           /\ i + 1 \in DOMAIN wire[Browser]
           /\ wire'[Browser][i] = wire[Browser][i + 1]
           /\ DataAt(i)' <=> DataAt(i + 1)
           /\ ResumeAfter(i)' <=> ResumeAfter(i + 1)
      /\ (\E i \in DOMAIN wire[Browser] : i # 1 /\ ResumeAt(i))
           => \E i \in DOMAIN wire'[Browser] : ResumeAt(i)'
  BY <1>1, FramesMoveUp
<1>9. handler \in {"drain", "loop"} => \E i \in DOMAIN wire'[Browser] : ResumeAt(i)'
  <2>1. SUFFICES ASSUME handler \in {"drain", "loop"}
                 PROVE  \E i \in DOMAIN wire'[Browser] : ResumeAt(i)'
    OBVIOUS
  <2>2. ResumeAfter(1)
    BY <1>1, <1>5, <2>1
  <2>3. \E i \in DOMAIN wire[Browser] : i # 1 /\ ResumeAt(i)
    BY <2>2 DEF ResumeAfter
  <2> QED
    BY <1>8, <2>3
<1>10. /\ \A t \in DOMAIN reorder_buffer'[Browser] : t \in DOMAIN send_buffer'[Daemon]
       /\ 1 \notin DOMAIN send_buffer'[Daemon] =>
            /\ last_contiguous'[Browser] = 0
            /\ \A i \in DOMAIN wire'[Daemon] : wire'[Daemon][i].ack_seq = 0
  BY <1>1, <1>5, <1>6, <1>7 DEF DaemonKept
<1>11. \A i \in DOMAIN wire'[Browser] :
         DataAt(i)' => wire'[Browser][i].seq \in DOMAIN send_buffer'[Daemon]
  BY <1>1, <1>5, <1>8 DEF DaemonKept
<1>12. handler' \in {"drain", "loop"} =>
         /\ \A i \in DOMAIN wire'[Browser] : DataAt(i)' => ResumeAfter(i)'
         /\ \E i \in DOMAIN wire'[Browser] : ResumeAt(i)'
  BY <1>1, <1>5, <1>8, <1>9
<1> QED
  BY <1>10, <1>11, <1>12 DEF ResumeInv

\* A browser in agreement stays so, whatever the frame; one that waits for the
\* Resume keeps the frame for later.
LEMMA DataKeepsInv ==
  ASSUME TypeInv, IInv, BrowserReceive, NEW s, NEW e, s \in Nat \ {0}, e \in Entry,
         s = Head(wire[Browser]).seq, e = Head(wire[Browser]).entry,
         ReceiveData(Browser, s, e), Head(wire[Browser]).type = "data"
  PROVE  IInv'
<1>1. /\ DaemonKept /\ UNCHANGED <<handler, gate_open>> /\ handler # "none"
      /\ Shifted(wire[Browser], wire'[Browser])
      /\ ConnectionInv' /\ wire'[Daemon] = wire[Daemon]
      /\ 1 \in DOMAIN wire[Browser] /\ DataAt(1)
      /\ s = wire[Browser][1].seq /\ e = wire[Browser][1].entry
      /\ log'[Daemon] = log[Daemon]
  BY DataStep
<1>2. DataEffect(s, e)
  BY DataEffects
<1>3. ResumeInv'
  BY DataKeepsResumeInv
<1>4. /\ \A i \in DOMAIN wire'[Browser] :
           /\ i + 1 \in DOMAIN wire[Browser]
           /\ wire'[Browser][i] = wire[Browser][i + 1]
           /\ DataAt(i)' <=> DataAt(i + 1)
           /\ ResumeAfter(i)' <=> ResumeAfter(i + 1)
      /\ (\E i \in DOMAIN wire[Browser] : i # 1 /\ ResumeAt(i))
           => \E i \in DOMAIN wire'[Browser] : ResumeAt(i)'
  BY <1>1, FramesMoveUp
<1>5. PICK m \in Seq(Nat) : Inv(m)
  BY DEF IInv
<1>6. \A i \in DOMAIN wire'[Browser] : CarriedAt(m, i)' <=> CarriedAt(m, i + 1)
  BY <1>1, <1>4 DEF CarriedAt, Numbered
<1>7. \A t, x : Numbered(m, t, x)' <=> Numbered(m, t, x)
  BY <1>1, NumberedKept
<1>8. SUFFICES Seen \subseteq Seen' /\ SeenInv' /\ (BrowserAgrees(m) \/ BrowserBlind(m))'
  <2>1. ASSUME Seen \subseteq Seen', SeenInv', (BrowserAgrees(m) \/ BrowserBlind(m))'
        PROVE  IInv'
    <3>1. DaemonInv(m)' /\ GoneIsSeen(m)'
      BY <1>1, <1>5, <2>1, DaemonKeptInv DEF Inv
    <3>2. AcksInv(m)'
      BY <1>1, <1>5, <2>1, CoveredKept DEF Inv, AcksInv
    <3>3. Inv(m)'
      BY <2>1, <3>1, <3>2 DEF Inv, BrowserInv
    <3> QED
      BY <1>1, <1>3, <2>1, <3>3 DEF IInv
  <2> QED
    BY <2>1
<1>9. CASE BrowserAgrees(m)
  <2>1. Numbered(m, s, e)
    BY <1>1, <1>9 DEF BrowserAgrees, CarriedAt
  <2>2. \A i \in DOMAIN wire'[Browser] : DataAt(i)' => CarriedAt(m, i)'
    BY <1>4, <1>6, <1>9 DEF BrowserAgrees
  <2>3. CASE s <= last_contiguous[Browser] /\ BrowserKept
    <3>1. Seen' = Seen
      BY <2>3, SeenKept
    <3>2. SeenInv'
      BY <1>1, <3>1, SeenInvKept DEF IInv
    <3>3. Covered(m, last_contiguous[Browser])'
      BY <1>9, <2>3, <3>1 DEF BrowserAgrees, BrowserKept, Covered
    <3>4. BrowserAgrees(m)'
      BY <1>7, <1>9, <2>2, <2>3, <3>3 DEF BrowserAgrees, BrowserKept, Numbered
    <3> QED
      BY <3>1, <3>2, <3>4
  <2>4. CASE \E top, run : RunTaken(Browser, s, e, top, run)
    <3>1. PICK top, run : RunTaken(Browser, s, e, top, run)
      BY <2>4
    <3>2. /\ top \in Nat /\ top <= Len(m)
          /\ \A d : d \in Seen' <=> d \in Seen \/
               \E t \in last_contiguous[Browser] + 1 .. top : d = m[t]
      BY <1>5, <1>9, <2>1, <3>1, RunIsSeen DEF IInv, Inv
    <3>3. SeenInv' /\ Seen \subseteq Seen' /\ Covered(m, top)'
      BY <1>1, <1>5, <1>9, <3>2, RunKeepsSeen DEF IInv, Inv, BrowserAgrees
    <3>4. /\ last_contiguous'[Browser] = top
          /\ DOMAIN reorder_buffer'[Browser] \subseteq DOMAIN reorder_buffer[Browser]
          /\ \A t \in DOMAIN reorder_buffer'[Browser] :
               reorder_buffer'[Browser][t] = reorder_buffer[Browser][t]
      BY <3>1, RunLeaves
    <3>5. Covered(m, last_contiguous[Browser])'
      BY <3>3, <3>4 DEF Covered
    <3>6. \A t \in DOMAIN reorder_buffer'[Browser] :
            Numbered(m, t, reorder_buffer[Browser][t])'
      BY <1>1, <1>9, <3>4 DEF BrowserAgrees, Numbered
    <3>7. BrowserAgrees(m)'
      BY <2>2, <3>5, <3>6 DEF BrowserAgrees
    <3> QED
      BY <3>3, <3>7
  <2>5. CASE /\ last_contiguous'[Browser] = last_contiguous[Browser]
             /\ accepted'[Browser] = accepted[Browser]
             /\ DOMAIN reorder_buffer'[Browser] = DOMAIN reorder_buffer[Browser] \cup {s}
             /\ \A t \in DOMAIN reorder_buffer'[Browser] :
                  reorder_buffer'[Browser][t]
                    = IF t \in DOMAIN reorder_buffer[Browser]
                      THEN reorder_buffer[Browser][t] ELSE e
    <3>1. Seen' = Seen
      BY <2>5 DEF Seen
    <3>2. SeenInv'
      BY <1>1, <3>1, SeenInvKept DEF IInv
    <3>3. Covered(m, last_contiguous[Browser])'
      BY <1>9, <2>5, <3>1 DEF BrowserAgrees, Covered
    <3>4. \A t \in DOMAIN reorder_buffer'[Browser] :
            Numbered(m, t, reorder_buffer[Browser][t])'
      BY <1>1, <1>9, <2>1, <2>5 DEF BrowserAgrees, Numbered
    <3>5. BrowserAgrees(m)'
      BY <2>2, <3>3, <3>4 DEF BrowserAgrees
    <3> QED
      BY <3>1, <3>2, <3>5
  <2> QED
    BY <1>2, <2>3, <2>4, <2>5 DEF DataEffect
<1>10. CASE BrowserBlind(m) /\ ~BrowserAgrees(m)
  <2>1. PICK i \in DOMAIN wire[Browser] : ResumeAt(i)
    BY <1>10 DEF BrowserBlind
  <2>2. i # 1 /\ i > 1 /\ ResumeAfter(1)
    <3>1. i # 1 /\ i \in Nat \ {0}
      BY <1>1, <2>1 DEF ResumeAt, DataAt, Shifted
    <3>2. i > 1
      BY <3>1
    <3> QED
      BY <2>1, <3>1, <3>2 DEF ResumeAfter
  <2>3. s >= 2 /\ last_contiguous[Browser] = 0
    BY <1>1, <1>10, <2>2 DEF BrowserBlind
  <2>4. /\ last_contiguous'[Browser] = last_contiguous[Browser]
        /\ accepted'[Browser] = accepted[Browser]
        /\ DOMAIN reorder_buffer'[Browser] = DOMAIN reorder_buffer[Browser] \cup {s}
    <3>1. ~(s <= last_contiguous[Browser]) /\ s # last_contiguous[Browser] + 1
      BY <2>3
    <3> QED
      BY <1>2, <3>1 DEF DataEffect, RunTaken
  <2>5. Seen' = Seen
    BY <2>4 DEF Seen
  <2>6. SeenInv'
    BY <1>1, <2>5, SeenInvKept DEF IInv
  <2>7. \A j \in DOMAIN wire'[Browser] : DataAt(j)' =>
          IF ResumeAfter(j)' THEN wire'[Browser][j].seq >= 2 ELSE CarriedAt(m, j)'
    BY <1>4, <1>6, <1>10 DEF BrowserBlind
  <2>8. \E j \in DOMAIN wire'[Browser] : ResumeAt(j)'
    BY <1>4, <2>1, <2>2
  <2>9. \A t \in DOMAIN reorder_buffer'[Browser] : t >= 2
    BY <1>10, <2>3, <2>4 DEF BrowserBlind
  <2>10. BrowserBlind(m)'
    BY <2>3, <2>4, <2>7, <2>8, <2>9 DEF BrowserBlind
  <2> QED
    BY <2>5, <2>6, <2>10
<1> QED
  BY <1>1, <1>5, <1>9, <1>10 DEF Inv, BrowserInv

\* Whatever the browser takes, the invariant holds after it.
LEMMA ReceiveKeepsInv ==
  ASSUME TypeInv, IInv, BrowserReceive
  PROVE  IInv'
<1> DEFINE f == Head(wire[Browser])
<1>1. f \in Frame
  BY WireKeepsType, Ends DEF TypeInv, TypeOK, BrowserReceive
<1>2. CASE \/ f.type = "init" /\ BrowserReset
           \/ f.type = "resume" /\ BrowserHandleResume(f.ack_seq)
  BY <1>2, StartOverKeepsInv
<1>3. CASE f.type = "data" /\ ReceiveData(Browser, f.seq, f.entry)
  <2>1. f.seq \in Nat \ {0} /\ f.entry \in Entry
    BY <1>1, <1>3, FrameKinds
  <2> QED
    BY <1>3, <2>1, DataKeepsInv
<1> QED
  BY <1>2, <1>3 DEF BrowserReceive

\* A new WebSocket: both queues start empty, and so does the browser.
LEMMA OpenKeepsInv ==
  ASSUME TypeInv, IInv, BrowserOpen
  PROVE  IInv'
<1> USE Ends
<1>1. /\ DOMAIN next_seq = Peer /\ DOMAIN send_buffer = Peer /\ DOMAIN wire = Peer
      /\ DOMAIN last_ack_received = Peer /\ DOMAIN last_contiguous = Peer
      /\ DOMAIN reorder_buffer = Peer
  BY DEF TypeInv, TypeOK, SendTypeOK, ReceiveTypeOK
<1>2. /\ DaemonKept /\ accepted' = accepted /\ log' = log
      /\ last_contiguous'[Browser] = 0 /\ reorder_buffer'[Browser] = <<>>
  BY <1>1 DEF BrowserOpen, BrowserForget, DaemonKept, histVars
<1>3. /\ handler = "none" /\ handler' = "attach" /\ gate_open' = FALSE
      /\ wire'[Browser] = wire[Browser] /\ wire'[Daemon] = <<ResumeFrame(0)>>
  BY <1>1 DEF BrowserOpen
<1>4. wire'[Browser] = <<>> /\ DOMAIN wire'[Browser] = {}
  BY <1>3, EmptyBuffer DEF IInv, ConnectionInv
<1>5. /\ DOMAIN wire'[Daemon] = {1} /\ wire'[Daemon][1] = ResumeFrame(0)
      /\ wire'[Daemon] # <<>>
  BY <1>3
<1>6. ConnectionInv'
  BY <1>3, <1>4, <1>5 DEF ConnectionInv, Unresumed
<1>7. DOMAIN reorder_buffer'[Browser] = {}
  BY <1>2, EmptyBuffer
<1>8. ResumeInv'
  BY <1>2, <1>3, <1>4, <1>5, <1>7 DEF ResumeInv, ResumeFrame
<1>9. Seen' = Seen /\ SeenInv'
  BY <1>2, SeenInvKept DEF Seen, IInv
<1>10. PICK m \in Seq(Nat) : Inv(m)
  BY DEF IInv
<1>11. DaemonInv(m)' /\ GoneIsSeen(m)'
  BY <1>2, <1>9, <1>10, DaemonKeptInv DEF Inv
<1>12. Covered(m, 0)'
  BY DEF Covered
<1>13. AcksInv(m)'
  BY <1>5, <1>12 DEF AcksInv, ResumeFrame
<1>14. BrowserAgrees(m)'
  BY <1>2, <1>4, <1>7, <1>12 DEF BrowserAgrees
<1>15. Inv(m)'
  BY <1>11, <1>13, <1>14 DEF Inv, BrowserInv
<1> QED
  BY <1>6, <1>8, <1>9, <1>15 DEF IInv

\* An ack tells how far the browser has come.
LEMMA TickKeepsInv ==
  ASSUME TypeInv, IInv, BrowserTick
  PROVE  IInv'
<1> USE Ends
<1>1. /\ DaemonKept /\ BrowserKept /\ log' = log
      /\ UNCHANGED <<handler, gate_open>>
  BY DEF BrowserTick, Tick, DaemonKept, BrowserKept, sendVars, histVars, linkVars
<1>2. /\ DOMAIN wire = Peer /\ wire[Daemon] \in Seq(Frame)
      /\ last_contiguous[Browser] \in Nat
  BY StateTypes DEF TypeInv, TypeOK
<1>3. /\ wire'[Browser] = wire[Browser]
      /\ handler = "none" => wire'[Daemon] = wire[Daemon]
      /\ handler # "none" =>
           wire'[Daemon] = Append(wire[Daemon], AckFrame(last_contiguous[Browser]))
  BY <1>2 DEF BrowserTick
<1>4. ASSUME NEW i \in DOMAIN wire'[Daemon]
      PROVE  \/ i \in DOMAIN wire[Daemon] /\ wire'[Daemon][i] = wire[Daemon][i]
             \/ handler # "none" /\ wire'[Daemon][i] = AckFrame(last_contiguous[Browser])
  BY <1>2, <1>3
<1>5. wire[Daemon] # <<>> => wire'[Daemon] # <<>> /\ wire'[Daemon][1] = wire[Daemon][1]
  BY <1>2, <1>3
<1>6. ConnectionInv'
  <2>1. /\ \A i \in DOMAIN wire'[Browser] : ResumeAt(i)' <=> ResumeAt(i)
        /\ Unresumed' <=> Unresumed
    BY <1>1, <1>3 DEF ResumeAt, Unresumed
  <2>2. \A i \in DOMAIN wire'[Daemon] :
          wire'[Daemon][i].type # "ack" => i = 1 /\ Unresumed'
    BY <1>4, <2>1 DEF IInv, ConnectionInv, AckFrame
  <2>3. handler' = "none" => wire'[Browser] = <<>> /\ wire'[Daemon] = <<>>
    BY <1>1, <1>3 DEF IInv, ConnectionInv
  <2>4. Unresumed' => wire'[Daemon] # <<>> /\ wire'[Daemon][1] = ResumeFrame(0)
    BY <1>5, <2>1 DEF IInv, ConnectionInv
  <2>5. handler' \in {"attach", "resume"} =>
          ~gate_open' /\ \A i \in DOMAIN wire'[Browser] : ~ResumeAt(i)'
    BY <1>1, <1>3, <2>1 DEF IInv, ConnectionInv
  <2>6. \A i \in DOMAIN wire'[Browser] : ResumeAt(i)' =>
          /\ wire'[Browser][i].ack_seq = 0
          /\ \A j \in DOMAIN wire'[Browser] : ResumeAt(j)' => j = i
    BY <1>3, <2>1 DEF IInv, ConnectionInv
  <2> QED
    BY <2>2, <2>3, <2>4, <2>5, <2>6 DEF ConnectionInv
<1>7. ResumeInv'
  <2>1. SUFFICES ASSUME Unresumed' PROVE ResumeInv'
    BY DEF ResumeInv
  <2>2. Unresumed
    BY <1>1, <2>1 DEF Unresumed
  <2>3. \A i \in DOMAIN wire'[Browser] : /\ DataAt(i)' <=> DataAt(i)
                                         /\ ResumeAt(i)' <=> ResumeAt(i)
                                         /\ ResumeAfter(i)' <=> ResumeAfter(i)
    BY <1>3 DEF DataAt, ResumeAt, ResumeAfter
  <2>4. 1 \notin DOMAIN send_buffer'[Daemon] =>
          /\ last_contiguous'[Browser] = 0
          /\ \A i \in DOMAIN wire'[Daemon] : wire'[Daemon][i].ack_seq = 0
    <3>1. SUFFICES ASSUME 1 \notin DOMAIN send_buffer'[Daemon]
                   PROVE  /\ last_contiguous'[Browser] = 0
                          /\ \A i \in DOMAIN wire'[Daemon] : wire'[Daemon][i].ack_seq = 0
      OBVIOUS
    <3>2. /\ last_contiguous[Browser] = 0
          /\ \A i \in DOMAIN wire[Daemon] : wire[Daemon][i].ack_seq = 0
      BY <1>1, <2>2, <3>1 DEF IInv, ResumeInv, DaemonKept
    <3> QED
      BY <1>1, <1>4, <3>2 DEF BrowserKept, AckFrame
  <2> QED
    BY <1>1, <1>3, <2>2, <2>3, <2>4 DEF IInv, ResumeInv, DaemonKept, BrowserKept
<1>8. Seen' = Seen /\ SeenInv'
  BY <1>1, SeenKept, SeenInvKept DEF IInv
<1>9. PICK m \in Seq(Nat) : Inv(m)
  BY DEF IInv
<1>10. DaemonInv(m)' /\ GoneIsSeen(m)'
  BY <1>1, <1>8, <1>9, DaemonKeptInv DEF Inv
<1>11. \A a : Covered(m, a) => Covered(m, a)'
  BY <1>8, CoveredKept
<1>12. AcksInv(m)'
  <2>1. handler # "none" => Covered(m, last_contiguous[Browser])
    BY <1>9 DEF Inv, BrowserInv, BrowserAgrees, BrowserBlind, Covered
  <2>2. \A i \in DOMAIN wire'[Daemon] : Covered(m, wire'[Daemon][i].ack_seq)
    BY <1>4, <1>9, <2>1 DEF Inv, AcksInv, AckFrame
  <2> QED
    BY <1>11, <2>2 DEF AcksInv
<1>13. BrowserInv(m)'
  <2>1. \A i \in DOMAIN wire'[Browser] : /\ DataAt(i)' <=> DataAt(i)
                                         /\ ResumeAt(i)' <=> ResumeAt(i)
                                         /\ ResumeAfter(i)' <=> ResumeAfter(i)
                                         /\ CarriedAt(m, i)' <=> CarriedAt(m, i)
    BY <1>1, <1>3 DEF DataAt, ResumeAt, ResumeAfter, CarriedAt, Numbered
  <2>2. BrowserAgrees(m) => BrowserAgrees(m)'
    BY <1>1, <1>3, <1>11, <2>1 DEF BrowserAgrees, BrowserKept, Covered, Numbered
  <2>3. BrowserBlind(m) => BrowserBlind(m)'
    BY <1>1, <1>3, <2>1 DEF BrowserBlind, BrowserKept
  <2> QED
    BY <1>1, <1>9, <2>2, <2>3 DEF Inv, BrowserInv
<1>14. Inv(m)'
  BY <1>10, <1>12, <1>13 DEF Inv
<1> QED
  BY <1>6, <1>7, <1>8, <1>14 DEF IInv

(* The daemon adds data frames to the queue. *)

\* Frames added are behind every Resume that is under way.
LEMMA FramesAdded ==
  ASSUME TypeInv', NEW fs, Extended(wire[Browser], wire'[Browser], fs),
         \A k \in DOMAIN fs : fs[k].type = "data"
  PROVE  /\ \A i \in DOMAIN wire[Browser] :
              /\ i \in DOMAIN wire'[Browser] /\ wire'[Browser][i] = wire[Browser][i]
              /\ DataAt(i)' <=> DataAt(i)
              /\ ResumeAt(i)' <=> ResumeAt(i)
              /\ ResumeAfter(i)' <=> ResumeAfter(i)
         /\ \A i \in DOMAIN wire'[Browser] \ DOMAIN wire[Browser] :
              /\ ~ResumeAt(i)' /\ ~ResumeAfter(i)'
              /\ \E k \in DOMAIN fs : wire'[Browser][i] = fs[k]
<1> DEFINE w == wire[Browser]
           v == wire'[Browser]
<1>1. /\ \A i \in DOMAIN w : i \in Nat /\ i \in DOMAIN v /\ v[i] = w[i]
      /\ \A i \in DOMAIN v \ DOMAIN w :
           /\ \A j \in DOMAIN w : j < i
           /\ \E k \in DOMAIN fs : v[i] = fs[k]
  BY DEF Extended
<1>2. \A i \in DOMAIN v : i \in Nat
  <2>1. v \in Seq(Frame)
    BY StateTypes, Ends DEF TypeInv, TypeOK
  <2> QED
    BY <2>1
<1>3. \A i \in DOMAIN w : /\ DataAt(i)' <=> DataAt(i)
                          /\ ResumeAt(i)' <=> ResumeAt(i)
  BY <1>1 DEF DataAt, ResumeAt
<1>4. \A i \in DOMAIN v \ DOMAIN w : ~ResumeAt(i)'
  <2>1. "data" # "resume"
    OBVIOUS
  <2> QED
    BY <1>1, <2>1 DEF ResumeAt
<1>5. ASSUME NEW i \in DOMAIN v \ DOMAIN w PROVE ~ResumeAfter(i)'
  <2>1. SUFFICES ASSUME NEW j \in DOMAIN v, j > i, ResumeAt(j)' PROVE FALSE
    BY DEF ResumeAfter
  <2>2. j \in DOMAIN w
    BY <1>4, <2>1
  <2> QED
    BY <1>1, <1>2, <2>1, <2>2
<1>6. ASSUME NEW i \in DOMAIN w PROVE ResumeAfter(i)' <=> ResumeAfter(i)
  <2>1. ASSUME NEW j \in DOMAIN v, ResumeAt(j)' PROVE j \in DOMAIN w /\ ResumeAt(j)
    BY <1>3, <1>4, <2>1
  <2>2. ResumeAfter(i)' => ResumeAfter(i)
    BY <2>1 DEF ResumeAfter
  <2>3. ResumeAfter(i) => ResumeAfter(i)'
    BY <1>1, <1>3 DEF ResumeAfter
  <2> QED
    BY <2>2, <2>3
<1> QED
  BY <1>1, <1>3, <1>4, <1>5, <1>6

\* Data frames added leave the course of the connection alone.
LEMMA AddedKeepsConnection ==
  ASSUME TypeInv', ConnectionInv,
         NEW fs, Extended(wire[Browser], wire'[Browser], fs),
         \A k \in DOMAIN fs : fs[k].type = "data",
         handler' = handler, handler \in {"drain", "loop"}, ~Unresumed',
         \A i \in DOMAIN wire'[Daemon] : wire'[Daemon][i].type = "ack"
  PROVE  ConnectionInv'
<1>1. \A i \in DOMAIN wire'[Browser] : ResumeAt(i)' =>
        /\ i \in DOMAIN wire[Browser] /\ ResumeAt(i)
        /\ wire'[Browser][i] = wire[Browser][i]
  BY FramesAdded
<1>2. \A i \in DOMAIN wire'[Browser] : ResumeAt(i)' =>
        /\ wire'[Browser][i].ack_seq = 0
        /\ \A j \in DOMAIN wire'[Browser] : ResumeAt(j)' => j = i
  BY <1>1 DEF ConnectionInv
<1> QED
  BY <1>2 DEF ConnectionInv

\* The browser goes on in the numbering n if its frames are right in n.
LEMMA AddedKeepsBrowser ==
  ASSUME TypeInv', NEW fs, Extended(wire[Browser], wire'[Browser], fs),
         \A k \in DOMAIN fs : fs[k].type = "data",
         handler' = handler, BrowserKept,
         NEW m, NEW n, BrowserInv(m),
         \A a : Covered(m, a) => Covered(n, a)',
         \A s, e : Numbered(m, s, e) => Numbered(n, s, e)',
         \A k \in DOMAIN fs : Numbered(n, fs[k].seq, fs[k].entry)'
  PROVE  BrowserInv(n)'
<1>1. /\ \A i \in DOMAIN wire[Browser] :
           /\ i \in DOMAIN wire'[Browser] /\ wire'[Browser][i] = wire[Browser][i]
           /\ DataAt(i)' <=> DataAt(i)
           /\ ResumeAt(i)' <=> ResumeAt(i)
           /\ ResumeAfter(i)' <=> ResumeAfter(i)
      /\ \A i \in DOMAIN wire'[Browser] \ DOMAIN wire[Browser] :
           /\ ~ResumeAfter(i)'
           /\ \E k \in DOMAIN fs : wire'[Browser][i] = fs[k]
  BY FramesAdded
<1>2. \A i \in DOMAIN wire[Browser] : CarriedAt(m, i) => CarriedAt(n, i)'
  BY <1>1 DEF CarriedAt, Numbered
<1>3. ASSUME NEW i \in DOMAIN wire'[Browser] \ DOMAIN wire[Browser]
      PROVE  CarriedAt(n, i)'
  <2>1. PICK k \in DOMAIN fs : wire'[Browser][i] = fs[k]
    BY <1>1
  <2>2. Numbered(n, fs[k].seq, fs[k].entry)'
    OBVIOUS
  <2> QED
    BY <2>1, <2>2 DEF CarriedAt, Numbered
<1>4. ASSUME BrowserAgrees(m) PROVE BrowserAgrees(n)'
  <2>1. Covered(n, last_contiguous[Browser])'
    <3>1. PICK a : a = last_contiguous[Browser]
      OBVIOUS
    <3>2. Covered(n, a)' /\ a = last_contiguous'[Browser]
      BY <1>4, <3>1 DEF BrowserAgrees, BrowserKept
    <3> QED
      BY <3>2 DEF Covered
  <2>2. \A s \in DOMAIN reorder_buffer'[Browser] :
          Numbered(n, s, reorder_buffer[Browser][s])'
    BY <1>4 DEF BrowserAgrees, BrowserKept, Numbered
  <2>3. \A i \in DOMAIN wire'[Browser] : DataAt(i)' => CarriedAt(n, i)'
    BY <1>1, <1>2, <1>3, <1>4 DEF BrowserAgrees
  <2> QED
    BY <2>1, <2>2, <2>3 DEF BrowserAgrees
<1>5. ASSUME BrowserBlind(m) PROVE BrowserBlind(n)'
  <2>1. \A i \in DOMAIN wire'[Browser] : DataAt(i)' =>
          IF ResumeAfter(i)' THEN wire'[Browser][i].seq >= 2 ELSE CarriedAt(n, i)'
    BY <1>1, <1>2, <1>3, <1>5 DEF BrowserBlind
  <2>2. \E i \in DOMAIN wire'[Browser] : ResumeAt(i)'
    BY <1>1, <1>5 DEF BrowserBlind
  <2> QED
    BY <1>5, <2>1, <2>2 DEF BrowserBlind, BrowserKept
<1> QED
  BY <1>4, <1>5 DEF BrowserInv

\* New data get the numbers that follow.
Renumbered(m, n, k) ==
  /\ n \in Seq(Nat) /\ Len(n) = Len(m) + k
  /\ \A s \in 1 .. Len(m) : n[s] = m[s]
  /\ \A i \in 1 .. k : n[Len(m) + i] = Len(log[Daemon]) + i

\* There is such a numbering.
LEMMA RenumberingExists ==
  ASSUME NEW m \in Seq(Nat), NEW k \in Nat, Len(log[Daemon]) \in Nat
  PROVE  \E n : Renumbered(m, n, k)
<1> DEFINE L == Len(log[Daemon])
           add == [i \in 1 .. k |-> L + i]
<1>1. add \in [1 .. k -> Nat] /\ \A i \in 1 .. k : add[i] = L + i
  OBVIOUS
<1> HIDE DEF add
<1>2. add \in Seq(Nat) /\ Len(add) = k
  BY <1>1
<1>3. /\ m \o add \in Seq(Nat) /\ Len(m \o add) = Len(m) + Len(add)
      /\ \A i \in 1 .. Len(m) : (m \o add)[i] = m[i]
      /\ \A i \in 1 .. Len(add) : (m \o add)[Len(m) + i] = add[i]
  <2>1. m \in Seq(Nat) /\ add \in Seq(Nat)
    BY <1>2
  <2> QED
    BY ONLY <2>1, ConcatPointwise
<1>4. Renumbered(m, m \o add, k)
  BY <1>1, <1>2, <1>3 DEF Renumbered
<1> QED
  BY <1>4

\* k entries behind the first L of the log, the data numbered as they come.
LogGrows(L, k, es) ==
  /\ L \in Nat /\ k \in Nat \ {0} /\ Len(log'[Daemon]) = L + k
  /\ \A d \in 1 .. L : log'[Daemon][d] = log[Daemon][d]
  /\ \A i \in 1 .. k : log'[Daemon][L + i] = es[i]
  /\ \A d \in 1 .. L + k : log'[Daemon][d].data = d

\* The log grows by the frames of the message.
LEMMA EventGrowsLog ==
  ASSUME TypeInv, SeenInv, NEW k \in 1 .. MaxChunks, NEW pri \in Priority,
         Send(Daemon, k, pri), NEW es, es = MessageEntries(Daemon, k, pri)
  PROVE  LogGrows(Len(log[Daemon]), k, es)
<1> DEFINE L == Len(log[Daemon])
           old == log[Daemon]
           new == log'[Daemon]
<1>1. /\ k \in Nat \ {0} /\ es \in Seq(Entry) /\ Len(es) = k
      /\ log' = [log EXCEPT ![Daemon] = @ \o es]
  BY DaemonSends
<1>2. old \in Seq(Entry) /\ L \in Nat
  BY StateTypes
<1>3. new = old \o es
  BY <1>1, Ends DEF TypeInv, TypeOK, HistoryTypeOK
<1>4. \A i \in 1 .. k : es[i].data = L + i
  BY DEF MessageEntries
<1>5. \A d \in 1 .. L : old[d].data = d
  BY DEF SeenInv
<1> HIDE DEF old, new
<1>6. /\ Len(new) = Len(old) + Len(es)
      /\ \A i \in 1 .. Len(old) : new[i] = old[i]
      /\ \A i \in 1 .. Len(es) : new[Len(old) + i] = es[i]
  <2>1. old \in Seq(Entry) /\ es \in Seq(Entry)
    BY <1>1, <1>2
  <2> QED
    BY ONLY <1>3, <2>1, ConcatPointwise
<1>7. L = Len(old)
  BY DEF old
<1> HIDE DEF L
<1>8. ASSUME NEW d \in 1 .. L + k PROVE new[d].data = d
  <2>1. CASE d \in 1 .. L
    BY <1>5, <1>6, <1>7, <2>1
  <2>2. CASE d \notin 1 .. L
    <3>1. d - L \in 1 .. k /\ L + (d - L) = d
      BY <1>1, <1>2, <2>2
    <3>2. new[L + (d - L)] = es[d - L] /\ es[d - L].data = L + (d - L)
      BY <1>1, <1>4, <1>6, <1>7, <3>1
    <3> QED
      BY <3>1, <3>2
  <2> QED
    BY <2>1, <2>2
<1> QED
  BY <1>1, <1>2, <1>6, <1>7, <1>8 DEF LogGrows, L, old, new

\* A message handed over extends the numbering.
LEMMA EventKeepsDaemon ==
  ASSUME TypeInv, SeenInv, NEW k \in 1 .. MaxChunks, NEW pri \in Priority,
         Send(Daemon, k, pri), NEW es, es = MessageEntries(Daemon, k, pri),
         NEW m \in Seq(Nat), DaemonInv(m), GoneIsSeen(m), Seen' = Seen,
         NEW n, Renumbered(m, n, k)
  PROVE  /\ DaemonInv(n)' /\ GoneIsSeen(n)'
         /\ \A a : Covered(m, a) => Covered(n, a)'
         /\ \A s, e : Numbered(m, s, e) => Numbered(n, s, e)'
         /\ \A i \in 1 .. k : Numbered(n, Len(m) + i, es[i])'
         /\ SeenInv'
<1> DEFINE L == Len(log[Daemon])
           M == Len(m)
           next == next_seq[Daemon]
           buf == send_buffer[Daemon]
           new == send_buffer'[Daemon]
           ack == last_ack_received[Daemon]
<1>1. /\ L \in Nat /\ k \in Nat \ {0} /\ Len(log'[Daemon]) = L + k
      /\ \A d \in 1 .. L : log'[Daemon][d] = log[Daemon][d]
      /\ \A i \in 1 .. k : log'[Daemon][L + i] = es[i]
      /\ \A d \in 1 .. L + k : log'[Daemon][d].data = d
  <2>1. LogGrows(L, k, es)
    BY EventGrowsLog
  <2> QED
    BY ONLY <2>1 DEF LogGrows
<1>2. /\ es \in Seq(Entry) /\ Len(es) = k
      /\ next_seq' = [next_seq EXCEPT ![Daemon] = @ + k]
      /\ send_buffer' = [send_buffer EXCEPT ![Daemon] =
           Push(@, next_seq[Daemon], es, last_ack_received[Daemon])]
      /\ UNCHANGED <<last_ack_received, last_contiguous>>
  BY DaemonSends
<1>3. /\ next \in Nat \ {0} /\ IsBuffer(buf) /\ DOMAIN buf \subseteq 1 .. next - 1
      /\ ack \in Nat /\ last_contiguous[Daemon] = 0
  BY StateTypes DEF DaemonInv
<1>4. /\ M \in Nat /\ M = next - 1 /\ ack <= M
      /\ \A s \in 1 .. M : m[s] \in 1 .. L
      /\ \A s, t \in 1 .. M : s < t => m[s] < m[t]
      /\ \A s \in DOMAIN buf : s > ack /\ s \in 1 .. M /\ buf[s] = log[Daemon][m[s]]
  BY DEF DaemonInv, Numbers, Numbered
<1>5. /\ next_seq'[Daemon] = next + k /\ new = Push(buf, next, es, ack)
      /\ last_ack_received'[Daemon] = ack /\ last_contiguous'[Daemon] = 0
  BY <1>2, <1>3, Ends DEF TypeInv, TypeOK, SendTypeOK
<1>6. /\ \A s \in DOMAIN new :
           \/ s \in DOMAIN buf /\ new[s] = buf[s]
           \/ /\ s \in next .. next + Len(es) - 1
              /\ new[s] = es[s - next + 1]
      /\ \A s \in DOMAIN buf :
           buf[s].priority = "Critical" /\ s > ack => s \in DOMAIN new
      /\ \A s \in next .. next + Len(es) - 1 :
           es[s - next + 1].priority = "Critical" /\ s > ack => s \in DOMAIN new
  <2> HIDE DEF new, buf, next, ack
  <2>1. /\ IsBuffer(buf) /\ next \in Nat \ {0} /\ es \in Seq(Entry)
        /\ DOMAIN buf \subseteq 1 .. next - 1 /\ ack \in Nat
    BY <1>2, <1>3
  <2>2. new = Push(buf, next, es, ack)
    BY <1>5
  <2> QED
    BY ONLY <2>1, <2>2, PushProperties
<1> HIDE DEF new, buf, next, ack, M, L
<1>7. /\ Len(n) = M + k
      /\ \A s \in 1 .. M : n[s] = m[s]
      /\ \A i \in 1 .. k : n[M + i] = L + i
  BY DEF Renumbered, M, L
<1>8. ASSUME NEW s \in M + 1 .. M + k
      PROVE  /\ s - M \in 1 .. k /\ s - next + 1 = s - M
             /\ n[s] = L + (s - M) /\ log'[Daemon][n[s]] = es[s - M]
             /\ n[s] \in L + 1 .. L + k
  <2>1. s - M \in 1 .. k /\ M + (s - M) = s /\ s - next + 1 = s - M
    BY <1>1, <1>3, <1>4
  <2>2. n[s] = L + (s - M)
    BY <1>7, <2>1
  <2>3. n[s] \in L + 1 .. L + k
    BY <1>1, <2>1, <2>2
  <2> QED
    BY <1>1, <2>1, <2>2, <2>3
<1>9. \A s \in 1 .. M + k : s \in 1 .. M \/ s \in M + 1 .. M + k
  BY <1>1, <1>4
<1>10. \A s, e : Numbered(m, s, e) => Numbered(n, s, e)'
  <2>1. ASSUME NEW s \in 1 .. M
        PROVE  s \in 1 .. Len(n) /\ log'[Daemon][n[s]] = log[Daemon][m[s]]
    <3>1. n[s] = m[s] /\ m[s] \in 1 .. L
      BY <1>4, <1>7
    <3>2. s \in 1 .. M + k
      BY <1>1, <1>4
    <3> QED
      BY <1>1, <1>7, <3>1, <3>2
  <2> QED
    BY <2>1 DEF Numbered, M
<1>11. \A a : Covered(m, a) => Covered(n, a)'
  <2>1. SUFFICES ASSUME NEW a, Covered(m, a) PROVE Covered(n, a)'
    OBVIOUS
  <2>2. a \in 0 .. M /\ \A s \in 1 .. a : m[s] \in Seen
    BY <2>1 DEF Covered, M
  <2>3. a \in 0 .. Len(n) /\ \A s \in 1 .. a : n[s] = m[s]
    BY <1>1, <1>4, <1>7, <2>2
  <2> QED
    BY <2>2, <2>3 DEF Covered
<1>12. ASSUME NEW i \in 1 .. k PROVE Numbered(n, M + i, es[i])'
  <2>1. M + i \in M + 1 .. M + k /\ (M + i) - M = i
    BY <1>1, <1>3, <1>4
  <2>2. log'[Daemon][n[M + i]] = es[i]
    BY <1>8, <2>1
  <2>3. M + i \in 1 .. Len(n)
    BY <1>1, <1>4, <1>7
  <2> QED
    BY <2>1, <2>2, <2>3 DEF Numbered
<1>13. Numbers(n)'
  <2>1. Len(n) = next_seq'[Daemon] - 1
    BY <1>1, <1>3, <1>4, <1>5, <1>7
  <2>2. \A s \in 1 .. Len(n) : n[s] \in 1 .. L + k
    <3>1. \A s \in 1 .. M : n[s] \in 1 .. L + k
      <4>1. 1 .. L \subseteq 1 .. L + k
        BY <1>1
      <4> QED
        BY <1>4, <1>7, <4>1
    <3>2. \A s \in M + 1 .. M + k : n[s] \in 1 .. L + k
      BY <1>1, <1>8
    <3> QED
      BY <1>7, <1>9, <3>1, <3>2
  <2>3. ASSUME NEW s \in 1 .. Len(n), NEW t \in 1 .. Len(n), s < t
        PROVE  n[s] < n[t]
    <3>1. CASE t \in 1 .. M
      <4>1. s \in 1 .. M
        BY <1>4, <1>7, <2>3, <3>1
      <4> QED
        BY <1>4, <1>7, <2>3, <3>1, <4>1
    <3>2. CASE t \in M + 1 .. M + k /\ s \in 1 .. M
      <4>1. n[s] \in 1 .. L /\ n[t] \in L + 1 .. L + k
        BY <1>4, <1>7, <1>8, <3>2
      <4> QED
        BY <1>1, <4>1
    <3>3. CASE t \in M + 1 .. M + k /\ s \in M + 1 .. M + k
      <4>1. n[s] = L + (s - M) /\ n[t] = L + (t - M)
        BY <1>8, <3>3
      <4> QED
        BY <1>1, <1>4, <2>3, <3>3, <4>1
    <3> QED
      BY <1>7, <1>9, <3>1, <3>2, <3>3
  <2> QED
    BY <1>1, <2>1, <2>2, <2>3 DEF Numbers
<1>14. ASSUME NEW s \in DOMAIN new
       PROVE  s > ack /\ s \in 1 .. Len(n) /\ new[s] = log'[Daemon][n[s]]
  <2>1. CASE s \in DOMAIN buf /\ new[s] = buf[s]
    <3>1. s > ack /\ s \in 1 .. M /\ buf[s] = log[Daemon][m[s]]
      BY <1>4, <2>1
    <3>2. s \in 1 .. Len(n) /\ n[s] = m[s] /\ n[s] \in 1 .. L
      BY <1>1, <1>4, <1>7, <3>1
    <3> QED
      BY <1>1, <2>1, <3>1, <3>2
  <2>2. CASE /\ s \in next .. next + Len(es) - 1
             /\ new[s] = es[s - next + 1]
    <3>1. s \in M + 1 .. M + k
      BY <1>1, <1>2, <1>3, <1>4, <2>2
    <3>2. s \in 1 .. Len(n) /\ s > ack
      BY <1>1, <1>3, <1>4, <1>7, <3>1
    <3>3. new[s] = log'[Daemon][n[s]]
      BY <1>8, <2>2, <3>1
    <3> QED
      BY <3>2, <3>3
  <2> QED
    BY <1>6, <2>1, <2>2
<1>15. DaemonInv(n)'
  <2>1. last_ack_received'[Daemon] <= Len(n)
    BY <1>1, <1>3, <1>4, <1>5, <1>7
  <2>2. \A s \in DOMAIN send_buffer'[Daemon] :
          /\ s > last_ack_received'[Daemon] /\ s \in 1 .. Len(n)
          /\ send_buffer'[Daemon][s] = log'[Daemon][n[s]]
    BY <1>5, <1>14 DEF new
  <2> QED
    BY <1>5, <1>13, <2>1, <2>2 DEF DaemonInv, Numbered
<1>16. GoneIsSeen(n)'
  <2>1. ASSUME NEW d \in 1 .. Len(log'[Daemon]), IsCritical(d)',
               \A s \in 1 .. Len(n) : n[s] # d
        PROVE  d \in Seen
    <3>1. d \in 1 .. L
      <4>1. SUFFICES ASSUME d \in L + 1 .. L + k PROVE FALSE
        BY <1>1, <2>1
      <4>2. M + (d - L) \in 1 .. M + k /\ d - L \in 1 .. k /\ L + (d - L) = d
        BY <1>1, <1>4, <4>1
      <4>3. n[M + (d - L)] = d
        BY <1>7, <4>2
      <4> QED
        BY <1>7, <2>1, <4>2, <4>3
    <3>2. IsCritical(d)
      BY <1>1, <2>1, <3>1 DEF IsCritical
    <3>3. \A s \in 1 .. M : m[s] # d
      BY <1>1, <1>4, <1>7, <2>1
    <3> QED
      BY <3>1, <3>2, <3>3 DEF GoneIsSeen, M, L
  <2>2. ASSUME NEW s \in 1 .. Len(n), IsCritical(n[s])', s \notin DOMAIN new
        PROVE  n[s] \in Seen
    <3>1. CASE s \in 1 .. M
      <4>1. n[s] = m[s] /\ m[s] \in 1 .. L
        BY <1>4, <1>7, <3>1
      <4>2. IsCritical(m[s])
        BY <1>1, <2>2, <4>1 DEF IsCritical
      <4>3. s \notin DOMAIN buf
        <5>1. SUFFICES ASSUME s \in DOMAIN buf PROVE FALSE
          OBVIOUS
        <5>2. buf[s].priority = "Critical" /\ s > ack
          BY <1>4, <4>2, <5>1 DEF IsCritical
        <5> QED
          BY <1>6, <2>2, <5>1, <5>2
      <4> QED
        BY <3>1, <4>1, <4>2, <4>3 DEF GoneIsSeen, M, buf
    <3>2. CASE s \in M + 1 .. M + k
      <4>1. es[s - next + 1].priority = "Critical"
        BY <1>8, <2>2, <3>2 DEF IsCritical
      <4>2. s \in next .. next + Len(es) - 1 /\ s > ack
        BY <1>1, <1>2, <1>3, <1>4, <3>2
      <4> QED
        BY <1>6, <2>2, <4>1, <4>2
    <3> QED
      BY <1>7, <1>9, <3>1, <3>2
  <2> QED
    BY <2>1, <2>2 DEF GoneIsSeen, new
<1>17. SeenInv'
  <2>1. Seen' \subseteq 1 .. Len(log'[Daemon])
    <3>1. \A d \in Seen : d \in 1 .. L
      BY DEF SeenInv, L
    <3> QED
      BY <1>1, <3>1
  <2>2. NoCriticalSkipped'
    <3>1. SUFFICES ASSUME NEW d \in Seen, NEW c \in 1 .. d - 1, IsCritical(c)'
                   PROVE  c \in Seen
      BY DEF NoCriticalSkipped
    <3>2. d \in 1 .. L
      BY DEF SeenInv, L
    <3>3. c \in 1 .. L
      BY <1>1, <3>2
    <3>4. IsCritical(c)
      BY <1>1, <3>1, <3>3 DEF IsCritical
    <3> QED
      BY <3>4 DEF SeenInv, NoCriticalSkipped
  <2>3. \A d \in 1 .. Len(log'[Daemon]) : log'[Daemon][d].data = d
    BY <1>1
  <2> QED
    BY <2>1, <2>2, <2>3 DEF SeenInv
<1> QED
  BY <1>10, <1>11, <1>12, <1>15, <1>16, <1>17 DEF M

\* With a quiet reconnect a message is only sent over a resumed connection, to
\* a browser that takes it in its place.
LEMMA EventKeepsInv ==
  ASSUME QuietReconnect, TypeInv, TypeInv', IInv, EventSent
  PROVE  IInv'
<1>1. PICK k \in 1 .. MaxChunks, pri \in SendPriority :
        /\ Send(Daemon, k, pri)
        /\ wire' = [wire EXCEPT ![Browser] =
             Transmit([i \in 1 .. k |->
                         DataFrame(next_seq[Daemon] + i - 1,
                                   MessageEntries(Daemon, k, pri)[i])])]
  BY DEF EventSent
<1>2. /\ handler = "loop" /\ gate_open /\ UNCHANGED <<handler, gate_open>>
      /\ Attached
  BY DEF EventSent, linkVars, Attached
<1> DEFINE es == MessageEntries(Daemon, k, pri)
           fs == [i \in 1 .. k |-> DataFrame(next_seq[Daemon] + i - 1, es[i])]
<1>3. /\ k \in Nat \ {0} /\ es \in Seq(Entry) /\ Len(es) = k
      /\ next_seq[Daemon] \in Nat \ {0}
      /\ UNCHANGED <<last_ack_received, last_contiguous, reorder_buffer, accepted>>
  BY <1>1, DaemonSends, PriorityAssumption
<1>4. /\ wire'[Browser] = wire[Browser] \o fs /\ wire'[Daemon] = wire[Daemon]
  BY <1>1, <1>2, Ends DEF Transmit, TypeInv, TypeOK
<1> HIDE DEF es
<1>5. /\ DOMAIN fs = 1 .. k
      /\ \A i \in 1 .. k : /\ fs[i].type = "data" /\ fs[i].entry = es[i]
                           /\ fs[i].seq = (next_seq[Daemon] + i) - 1
  BY <1>3 DEF DataFrame
<1>6. fs \in Seq(DataFrames)
  <2>1. \A i \in 1 .. k : fs[i] \in DataFrames
    <3>1. \A i \in 1 .. k : es[i] \in Entry /\ next_seq[Daemon] + i - 1 \in Nat \ {0}
      BY <1>3
    <3> QED
      BY <3>1 DEF DataFrame, DataFrames
  <2>2. fs = [i \in 1 .. k |-> fs[i]]
    OBVIOUS
  <2> HIDE DEF fs
  <2>3. fs \in [1 .. k -> DataFrames]
    BY <2>1, <2>2
  <2> QED
    BY <1>3, <2>3
<1> HIDE DEF fs
<1>7. Extended(wire[Browser], wire'[Browser], fs)
  <2>1. fs \in Seq(Frame) /\ wire[Browser] \in Seq(Frame)
    BY <1>6, WireSteps, StateTypes DEF TypeInv, TypeOK
  <2> QED
    BY <1>4, <2>1, ConcatExtends
<1>8. BrowserKept /\ Seen' = Seen
  BY <1>3, SeenKept DEF BrowserKept
<1>9. ~Unresumed /\ ~Unresumed' /\ ResumeInv'
  BY <1>2 DEF Unresumed, ResumeInv
<1>10. \A i \in DOMAIN wire'[Daemon] : wire'[Daemon][i].type = "ack"
  BY <1>4, <1>9 DEF IInv, ConnectionInv
<1>11. PICK sent_fs : sent_fs = fs
  OBVIOUS
<1>12. \A i \in DOMAIN sent_fs : sent_fs[i].type = "data"
  BY <1>5, <1>11
<1>13. ConnectionInv'
  BY <1>2, <1>7, <1>9, <1>10, <1>11, <1>12, AddedKeepsConnection DEF IInv
<1>14. PICK m \in Seq(Nat) : Inv(m)
  BY DEF IInv
<1>15. PICK n : Renumbered(m, n, k)
  BY <1>3, StateTypes, RenumberingExists
<1>16. PICK xs : xs = es
  OBVIOUS
<1>17. /\ DaemonInv(n)' /\ GoneIsSeen(n)'
       /\ \A a : Covered(m, a) => Covered(n, a)'
       /\ \A s, e : Numbered(m, s, e) => Numbered(n, s, e)'
       /\ \A i \in 1 .. k : Numbered(n, Len(m) + i, xs[i])'
       /\ SeenInv'
  BY <1>1, <1>8, <1>14, <1>15, <1>16, EventKeepsDaemon, PriorityAssumption
     DEF IInv, Inv, es
<1>18. \A i \in DOMAIN sent_fs : Numbered(n, sent_fs[i].seq, sent_fs[i].entry)'
  <2>1. ASSUME NEW i \in DOMAIN sent_fs
        PROVE  Numbered(n, sent_fs[i].seq, sent_fs[i].entry)'
    <3>1. /\ i \in 1 .. k /\ sent_fs[i].entry = xs[i]
          /\ sent_fs[i].seq = Len(m) + i
      <4>1. Len(m) = next_seq[Daemon] - 1 /\ Len(m) \in Nat
        BY <1>14 DEF Inv, DaemonInv, Numbers
      <4> QED
        BY <1>3, <1>5, <1>11, <1>16, <4>1
    <3>2. Numbered(n, Len(m) + i, xs[i])'
      BY <1>17, <3>1
    <3> QED
      BY <3>1, <3>2 DEF Numbered
  <2> QED
    BY <2>1
<1>19. BrowserInv(n)'
  BY <1>2, <1>7, <1>8, <1>11, <1>12, <1>14, <1>17, <1>18, AddedKeepsBrowser DEF Inv
<1>20. AcksInv(n)'
  <2>1. \A i \in DOMAIN wire[Daemon] : Covered(m, wire[Daemon][i].ack_seq)
    BY <1>14 DEF Inv, AcksInv
  <2> QED
    BY <1>4, <1>17, <2>1 DEF AcksInv, Covered
<1>21. Inv(n)' /\ n \in Seq(Nat)
  BY <1>15, <1>17, <1>19, <1>20 DEF Inv, Renumbered
<1> QED
  BY <1>9, <1>13, <1>17, <1>21 DEF IInv

\* Steps that touch no channel end.
LEMMA ChannelKept ==
  ASSUME UNCHANGED channelVars
  PROVE  /\ DaemonKept /\ BrowserKept /\ Seen' = Seen
         /\ UNCHANGED <<send_buffer, reorder_buffer, last_contiguous, log>>
BY SeenKept DEF channelVars, sendVars, recvVars, histVars, DaemonKept, BrowserKept

\* The frames of a flush or replay are right in the present numbering.
LEMMA ReplayIsNumbered ==
  ASSUME TypeInv, NEW m, DaemonInv(m), NEW S \in SUBSET DOMAIN send_buffer[Daemon]
  PROVE  \A i \in DOMAIN InOrder(send_buffer[Daemon], S) :
           LET f == InOrder(send_buffer[Daemon], S)[i] IN
           f.type = "data" /\ f.seq \in S /\ Numbered(m, f.seq, f.entry)
<1> DEFINE fs == InOrder(send_buffer[Daemon], S)
<1>1. \A i \in DOMAIN fs : /\ fs[i].type = "data" /\ fs[i].seq \in S
                           /\ fs[i].entry = send_buffer[Daemon][fs[i].seq]
  <2> DEFINE buf == send_buffer[Daemon]
  <2>1. IsBuffer(buf) /\ Bounded(DOMAIN buf) /\ S \subseteq DOMAIN buf
    BY StateTypes
  <2> HIDE DEF buf
  <2>2. \A i \in DOMAIN InOrder(buf, S) :
           /\ InOrder(buf, S)[i].type = "data" /\ InOrder(buf, S)[i].seq \in S
           /\ InOrder(buf, S)[i].entry = buf[InOrder(buf, S)[i].seq]
    BY <2>1, InOrderProperties
  <2> QED
    BY <2>2 DEF buf
<1> HIDE DEF fs
<1>2. \A s \in S : Numbered(m, s, send_buffer[Daemon][s])
  BY DEF DaemonInv
<1> QED
  BY <1>1, <1>2 DEF fs

\* add_transport flushes the buffer to a browser that has just connected.
LEMMA AttachKeepsInv ==
  ASSUME TypeInv, TypeInv', IInv, Attach
  PROVE  IInv'
<1> DEFINE fs == InOrder(send_buffer[Daemon], FlushReplay(Daemon))
<1>1. /\ DaemonKept /\ BrowserKept /\ Seen' = Seen
      /\ UNCHANGED <<send_buffer, reorder_buffer, last_contiguous, log>>
  BY ChannelKept DEF Attach
<1>2. /\ handler = "attach" /\ handler' = "resume" /\ gate_open' = gate_open
      /\ wire'[Browser] = <<InitFrame>> \o fs /\ wire'[Daemon] = wire[Daemon]
  BY Ends DEF Attach, TypeInv, TypeOK
<1>3. FlushReplay(Daemon) \subseteq DOMAIN send_buffer[Daemon]
  BY DEF FlushReplay, Replayable
<1>4. PICK m \in Seq(Nat) : Inv(m)
  BY DEF IInv
<1>5. \A i \in DOMAIN fs : /\ fs[i].type = "data"
                           /\ fs[i].seq \in DOMAIN send_buffer[Daemon]
                           /\ Numbered(m, fs[i].seq, fs[i].entry)
  BY <1>3, <1>4, ReplayIsNumbered DEF Inv
<1>6. fs \in Seq(Frame)
  BY <1>3, StateTypes, InOrderProperties, WireSteps DEF TypeInv, TypeOK
<1> HIDE DEF fs
<1>7. \A i \in DOMAIN wire'[Browser] :
        \/ i = 1 /\ wire'[Browser][i] = InitFrame
        \/ \E j \in DOMAIN fs : wire'[Browser][i] = fs[j]
  <2>1. <<InitFrame>> \in Seq(Frame)
    BY WireSteps DEF TypeInv, TypeOK
  <2>2. Extended(<<InitFrame>>, <<InitFrame>> \o fs, fs)
    BY <1>6, <2>1, ConcatExtends
  <2>3. DOMAIN <<InitFrame>> = {1} /\ <<InitFrame>>[1] = InitFrame
    OBVIOUS
  <2> QED
    BY <1>2, <2>2, <2>3 DEF Extended
<1>8. /\ \A i \in DOMAIN wire'[Browser] : ~ResumeAt(i)'
      /\ \A i \in DOMAIN wire'[Browser] : DataAt(i)' =>
           /\ wire'[Browser][i].seq \in DOMAIN send_buffer[Daemon]
           /\ CarriedAt(m, i)'
  <2>1. \A s, e : Numbered(m, s, e) => Numbered(m, s, e)'
    BY <1>1, NumberedKept DEF DaemonKept
  <2>2. InitFrame.type = "init"
    BY DEF InitFrame
  <2>3. ASSUME NEW i \in DOMAIN wire'[Browser], NEW j \in DOMAIN fs,
               wire'[Browser][i] = fs[j]
        PROVE  ~ResumeAt(i)' /\ CarriedAt(m, i)'
               /\ wire'[Browser][i].seq \in DOMAIN send_buffer[Daemon]
    <3>1. Numbered(m, wire'[Browser][i].seq, wire'[Browser][i].entry)
      BY <1>5, <2>3
    <3>2. CarriedAt(m, i)'
      BY <1>1, <3>1 DEF CarriedAt, Numbered
    <3> QED
      BY <1>5, <2>3, <3>2 DEF ResumeAt
  <2>4. ASSUME NEW i \in DOMAIN wire'[Browser], wire'[Browser][i] = InitFrame
        PROVE  ~ResumeAt(i)' /\ ~DataAt(i)'
    BY <2>2, <2>4 DEF ResumeAt, DataAt
  <2> QED
    BY <1>7, <2>3, <2>4
<1>9. Unresumed' /\ Unresumed
  BY <1>2 DEF Unresumed, IInv, ConnectionInv
<1>10. ConnectionInv'
  BY <1>2, <1>8, <1>9 DEF IInv, ConnectionInv
<1>11. ResumeInv'
  BY <1>1, <1>2, <1>8, <1>9 DEF IInv, ResumeInv
<1>12. SeenInv'
  BY <1>1, SeenInvKept DEF IInv, DaemonKept
<1>13. DaemonInv(m)' /\ GoneIsSeen(m)'
  BY <1>1, <1>4, DaemonKeptInv DEF Inv
<1>14. \A a : Covered(m, a) => Covered(m, a)'
  BY <1>1, CoveredKept
<1>15. AcksInv(m)'
  BY <1>2, <1>4, <1>14 DEF Inv, AcksInv, Covered
<1>16. BrowserAgrees(m)'
  <2>1. BrowserAgrees(m)
    BY <1>2, <1>4 DEF Inv, BrowserInv, BrowserBlind, IInv, ConnectionInv
  <2>2. Covered(m, last_contiguous[Browser])'
    BY <1>1, <2>1 DEF BrowserAgrees, Covered
  <2>3. \A s \in DOMAIN reorder_buffer'[Browser] :
          Numbered(m, s, reorder_buffer[Browser][s])'
    BY <1>1, <2>1 DEF BrowserAgrees, Numbered
  <2> QED
    BY <1>8, <2>2, <2>3 DEF BrowserAgrees
<1>17. Inv(m)'
  BY <1>13, <1>15, <1>16 DEF Inv, BrowserInv
<1> QED
  BY <1>10, <1>11, <1>12, <1>17 DEF IInv

\* The daemon's Resume asks for everything: it has received nothing.
LEMMA SendResumeKeepsInv ==
  ASSUME TypeInv, TypeInv', IInv, SendResume
  PROVE  IInv'
<1> DEFINE r == ResumeFrame(0)
<1>1. /\ DaemonKept /\ BrowserKept /\ Seen' = Seen
      /\ UNCHANGED <<send_buffer, reorder_buffer, last_contiguous, log>>
  BY ChannelKept DEF SendResume
<1>2. PICK m \in Seq(Nat) : Inv(m)
  BY DEF IInv
<1>3. /\ handler = "resume" /\ handler' = "drain" /\ gate_open' = gate_open
      /\ wire'[Browser] = Append(wire[Browser], r) /\ wire'[Daemon] = wire[Daemon]
  BY <1>2, Ends DEF SendResume, TypeInv, TypeOK, Inv, DaemonInv
<1>4. r.type = "resume" /\ r.ack_seq = 0
  BY DEF ResumeFrame
<1>5. wire[Browser] \in Seq(Frame) /\ r \in Frame
  BY StateTypes, WireSteps DEF TypeInv, TypeOK
<1>6a. PICK N : N = Len(wire[Browser]) + 1
  OBVIOUS
<1> HIDE DEF r
<1>6. /\ N \in Nat /\ N \in DOMAIN wire'[Browser] /\ wire'[Browser][N] = r
      /\ \A i \in DOMAIN wire'[Browser] : i # N =>
           i < N /\ i \in DOMAIN wire[Browser] /\ wire'[Browser][i] = wire[Browser][i]
  BY <1>3, <1>5, <1>6a
<1>7. /\ ResumeAt(N)' /\ ~DataAt(N)'
      /\ \A i \in DOMAIN wire'[Browser] : i # N =>
           ~ResumeAt(i)' /\ ResumeAfter(i)' /\ (DataAt(i)' <=> DataAt(i))
  <2>1. ResumeAt(N)' /\ ~DataAt(N)'
    <3>1. wire'[Browser][N].type = "resume" /\ "resume" # "data"
      BY <1>4, <1>6
    <3> QED
      BY <3>1 DEF ResumeAt, DataAt
  <2>2. \A i \in DOMAIN wire[Browser] : ~ResumeAt(i)
    BY <1>3 DEF IInv, ConnectionInv
  <2>3. \A i \in DOMAIN wire'[Browser] : i # N =>
          ~ResumeAt(i)' /\ (DataAt(i)' <=> DataAt(i))
    BY <1>6, <2>2 DEF ResumeAt, DataAt
  <2>4. \A i \in DOMAIN wire'[Browser] : i # N => ResumeAfter(i)'
    BY <1>6, <2>1 DEF ResumeAfter
  <2> QED
    BY <2>1, <2>3, <2>4
<1>8. Unresumed' /\ Unresumed
  BY <1>3 DEF Unresumed, IInv, ConnectionInv
<1>9. ConnectionInv'
  <2>1. \A i \in DOMAIN wire'[Browser] : ResumeAt(i)' =>
          /\ wire'[Browser][i].ack_seq = 0
          /\ \A j \in DOMAIN wire'[Browser] : ResumeAt(j)' => j = i
    BY <1>4, <1>6, <1>7
  <2> QED
    BY <1>3, <1>8, <2>1 DEF IInv, ConnectionInv
<1>10. ResumeInv'
  <2>1. \A i \in DOMAIN wire'[Browser] :
          DataAt(i)' => /\ wire'[Browser][i].seq \in DOMAIN send_buffer'[Daemon]
                        /\ ResumeAfter(i)'
    BY <1>1, <1>6, <1>7, <1>8 DEF IInv, ResumeInv
  <2> QED
    BY <1>1, <1>3, <1>6, <1>7, <1>8, <2>1 DEF IInv, ResumeInv
<1>11. SeenInv'
  BY <1>1, SeenInvKept DEF IInv, DaemonKept
<1>12. DaemonInv(m)' /\ GoneIsSeen(m)'
  BY <1>1, <1>2, DaemonKeptInv DEF Inv
<1>13. AcksInv(m)'
  BY <1>1, <1>2, <1>3 DEF Inv, AcksInv, Covered
<1>14. BrowserAgrees(m)'
  <2>1. BrowserAgrees(m)
    BY <1>2, <1>3 DEF Inv, BrowserInv, BrowserBlind, IInv, ConnectionInv
  <2>2. Covered(m, last_contiguous[Browser])'
    BY <1>1, <2>1 DEF BrowserAgrees, Covered
  <2>3. \A s \in DOMAIN reorder_buffer'[Browser] :
          Numbered(m, s, reorder_buffer[Browser][s])'
    BY <1>1, <2>1 DEF BrowserAgrees, Numbered
  <2>4. \A i \in DOMAIN wire'[Browser] : DataAt(i)' => CarriedAt(m, i)'
    BY <1>1, <1>6, <1>7, <2>1 DEF BrowserAgrees, CarriedAt, Numbered
  <2> QED
    BY <2>2, <2>3, <2>4 DEF BrowserAgrees
<1>15. Inv(m)'
  BY <1>12, <1>13, <1>14 DEF Inv, BrowserInv
<1> QED
  BY <1>9, <1>10, <1>11, <1>15 DEF IInv

\* The other steps of the handler, the end of the connection, and stuttering.
LEMMA HandlerKeepsInv ==
  ASSUME TypeInv, IInv,
         StartConsumer \/ GateTimeout \/ Disconnect \/ UNCHANGED vars
  PROVE  IInv'
<1>1. /\ DaemonKept /\ BrowserKept /\ Seen' = Seen
      /\ UNCHANGED <<send_buffer, reorder_buffer, last_contiguous, log>>
  BY ChannelKept DEF StartConsumer, GateTimeout, Disconnect, vars
<1>2. PICK m \in Seq(Nat) : Inv(m)
  BY DEF IInv
<1>3. SeenInv' /\ DaemonInv(m)' /\ GoneIsSeen(m)'
  BY <1>1, <1>2, SeenInvKept, DaemonKeptInv DEF IInv, Inv, DaemonKept
<1>4. CASE StartConsumer \/ GateTimeout \/ UNCHANGED vars
  <2>1. /\ UNCHANGED <<wire, gate_open>>
        /\ \/ handler' = handler
           \/ handler = "drain" /\ handler' = "loop"
    BY <1>4 DEF StartConsumer, GateTimeout, vars, linkVars
  <2>2. \A i : /\ DataAt(i)' <=> DataAt(i)
               /\ ResumeAt(i)' <=> ResumeAt(i)
               /\ ResumeAfter(i)' <=> ResumeAfter(i)
               /\ CarriedAt(m, i)' <=> CarriedAt(m, i)
    BY <1>1, <2>1 DEF DataAt, ResumeAt, ResumeAfter, CarriedAt, Numbered
  <2>3. Unresumed' <=> Unresumed
    BY <2>1 DEF Unresumed
  <2>4. ConnectionInv'
    BY <2>1, <2>2, <2>3 DEF IInv, ConnectionInv
  <2>5. ResumeInv'
    BY <1>1, <2>1, <2>2, <2>3 DEF IInv, ResumeInv
  <2>6. AcksInv(m)'
    BY <1>1, <1>2, <2>1 DEF Inv, AcksInv, Covered
  <2>7. BrowserAgrees(m) => BrowserAgrees(m)'
    BY <1>1, <2>1, <2>2 DEF BrowserAgrees, Covered, Numbered
  <2>8. BrowserBlind(m) => BrowserBlind(m)'
    BY <1>1, <2>1, <2>2 DEF BrowserBlind
  <2>9. BrowserInv(m)'
    BY <1>2, <2>1, <2>7, <2>8 DEF Inv, BrowserInv
  <2>10. Inv(m)'
    BY <1>3, <2>6, <2>9 DEF Inv
  <2> QED
    BY <1>3, <2>4, <2>5, <2>10 DEF IInv
<1>5. CASE Disconnect
  <2>1. /\ handler' = "none" /\ wire'[Browser] = <<>> /\ wire'[Daemon] = <<>>
        /\ DOMAIN wire'[Browser] = {} /\ DOMAIN wire'[Daemon] = {}
    BY <1>5, Ends, EmptyBuffer DEF Disconnect
  <2>2. ConnectionInv' /\ ResumeInv'
    BY <2>1 DEF ConnectionInv, ResumeInv, Unresumed
  <2>3. Inv(m)'
    BY <1>3, <2>1 DEF Inv, AcksInv, BrowserInv
  <2> QED
    BY <1>3, <2>2, <2>3 DEF IInv
<1> QED
  BY <1>4, <1>5

\* The frames added are data frames, whatever their numbering.
LEMMA ReplayExtends ==
  ASSUME TypeInv, NEW buf, IsBuffer(buf), Bounded(DOMAIN buf),
         NEW S \in SUBSET DOMAIN buf
  PROVE  /\ InOrder(buf, S) \in Seq(Frame)
         /\ Extended(wire[Browser], wire[Browser] \o InOrder(buf, S), InOrder(buf, S))
<1>1. InOrder(buf, S) \in Seq(DataFrames)
  BY InOrderProperties
<1>2. InOrder(buf, S) \in Seq(Frame) /\ wire[Browser] \in Seq(Frame)
  BY <1>1, StateTypes, WireSteps DEF TypeInv, TypeOK
<1> QED
  BY <1>2, ConcatExtends

\* What an ack does to the daemon's end.
LEMMA AckEffect ==
  ASSUME TypeInv, NEW a \in Nat, ReceiveAck(Daemon, a)
  PROVE  /\ BrowserKept /\ Seen' = Seen
         /\ UNCHANGED <<next_seq, last_contiguous, log>>
         /\ \/ /\ a > last_ack_received[Daemon] /\ last_ack_received'[Daemon] = a
               /\ DOMAIN send_buffer'[Daemon] = {t \in DOMAIN send_buffer[Daemon] : t > a}
               /\ \A s \in DOMAIN send_buffer'[Daemon] :
                    send_buffer'[Daemon][s] = send_buffer[Daemon][s]
            \/ UNCHANGED <<last_ack_received, send_buffer>>
<1>1. UNCHANGED <<next_seq, last_contiguous, reorder_buffer, log, accepted>>
  BY DEF ReceiveAck, recvVars, histVars
<1>2. BrowserKept /\ Seen' = Seen
  BY <1>1, SeenKept DEF BrowserKept
<1>3. CASE a > last_ack_received[Daemon]
  <2>1. /\ last_ack_received' = [last_ack_received EXCEPT ![Daemon] = a]
        /\ send_buffer' = [send_buffer EXCEPT ![Daemon] = DropAcked(@, a)]
    BY <1>3 DEF ReceiveAck
  <2>2. last_ack_received'[Daemon] = a
        /\ send_buffer'[Daemon] = DropAcked(send_buffer[Daemon], a)
    BY <2>1, Ends DEF TypeInv, TypeOK, SendTypeOK
  <2> QED
    BY <1>1, <1>2, <1>3, <2>2 DEF DropAcked
<1>4. CASE ~(a > last_ack_received[Daemon])
  BY <1>1, <1>2, <1>4 DEF ReceiveAck
<1> QED
  BY <1>3, <1>4

\* An ack of what the browser was given lets go of nothing else.
LEMMA AckKeepsDaemon ==
  ASSUME TypeInv, NEW a \in Nat, ReceiveAck(Daemon, a),
         NEW m \in Seq(Nat), DaemonInv(m), GoneIsSeen(m), Covered(m, a)
  PROVE  DaemonInv(m)' /\ GoneIsSeen(m)'
<1>1. /\ Seen' = Seen
      /\ UNCHANGED <<next_seq, last_contiguous, log>>
      /\ \/ /\ a > last_ack_received[Daemon] /\ last_ack_received'[Daemon] = a
            /\ DOMAIN send_buffer'[Daemon] = {t \in DOMAIN send_buffer[Daemon] : t > a}
            /\ \A s \in DOMAIN send_buffer'[Daemon] :
                 send_buffer'[Daemon][s] = send_buffer[Daemon][s]
         \/ UNCHANGED <<last_ack_received, send_buffer>>
  BY AckEffect
<1>2. a <= Len(m) /\ \A s \in 1 .. a : m[s] \in Seen
  BY DEF Covered
<1>3. Numbers(m)'
  BY <1>1 DEF DaemonInv, Numbers
<1>4. DaemonInv(m)'
  <2>1. last_ack_received'[Daemon] <= Len(m)
    BY <1>1, <1>2 DEF DaemonInv
  <2>2. ASSUME NEW s \in DOMAIN send_buffer'[Daemon]
        PROVE  /\ s > last_ack_received'[Daemon]
               /\ Numbered(m, s, send_buffer[Daemon][s])
               /\ send_buffer'[Daemon][s] = send_buffer[Daemon][s]
    BY <1>1 DEF DaemonInv
  <2>3. \A s \in DOMAIN send_buffer'[Daemon] :
          s > last_ack_received'[Daemon] /\ Numbered(m, s, send_buffer[Daemon][s])'
    BY <1>1, <2>2 DEF Numbered
  <2> QED
    BY <1>1, <1>3, <2>1, <2>3 DEF DaemonInv
<1>5. GoneIsSeen(m)'
  <2>1. ASSUME NEW s \in 1 .. Len(m), IsCritical(m[s]),
               s \notin DOMAIN send_buffer'[Daemon]
        PROVE  m[s] \in Seen
    <3>1. CASE s \in DOMAIN send_buffer[Daemon]
      <4>1. ~(s > a)
        BY <1>1, <2>1, <3>1
      <4>2. s \in 1 .. a
        BY <4>1
      <4> QED
        BY <1>2, <4>2
    <3>2. CASE s \notin DOMAIN send_buffer[Daemon]
      BY <2>1, <3>2 DEF GoneIsSeen
    <3> QED
      BY <3>1, <3>2
  <2>2. \A d : IsCritical(d)' <=> IsCritical(d)
    BY <1>1 DEF IsCritical
  <2> QED
    BY <1>1, <2>1, <2>2 DEF GoneIsSeen
<1> QED
  BY <1>4, <1>5

\* An ack, and the frames it makes the daemon send again.
LEMMA AckKeepsInv ==
  ASSUME TypeInv, TypeInv', IInv, NEW a \in Nat, wire[Daemon] # <<>>,
         wire[Daemon][1].type = "ack", wire[Daemon][1].ack_seq = a,
         ReceiveAck(Daemon, a), handler' = handler, handler \in {"drain", "loop"},
         gate_open', wire'[Daemon] = Tail(wire[Daemon]),
         wire'[Browser] = wire[Browser] \o
                            InOrder(send_buffer[Daemon], AckReplay(Daemon, a))
  PROVE  IInv'
<1>1. PICK m \in Seq(Nat) : Inv(m)
  BY DEF IInv
<1>2. Shifted(wire[Daemon], wire'[Daemon])
  BY StateTypes, TailShifts
<1>3. Covered(m, a)
  BY <1>1, <1>2 DEF Inv, AcksInv, Shifted
<1>4. BrowserKept /\ Seen' = Seen /\ UNCHANGED <<next_seq, last_contiguous, log>>
  BY AckEffect
<1>5. DaemonInv(m)' /\ GoneIsSeen(m)'
  BY <1>1, <1>3, AckKeepsDaemon DEF Inv
<1>6. SeenInv'
  BY <1>4, SeenInvKept DEF IInv
<1>7. ~Unresumed' /\ ResumeInv'
  BY DEF Unresumed, ResumeInv
<1>8. \A i \in DOMAIN wire'[Daemon] : wire'[Daemon][i].type = "ack"
  <2>1. ASSUME NEW i \in DOMAIN wire'[Daemon] PROVE wire'[Daemon][i].type = "ack"
    <3>1. i + 1 # 1 /\ i + 1 \in DOMAIN wire[Daemon]
          /\ wire'[Daemon][i] = wire[Daemon][i + 1]
      BY <1>2, <2>1 DEF Shifted
    <3> QED
      BY <3>1 DEF IInv, ConnectionInv
  <2> QED
    BY <2>1
<1>9. AckReplay(Daemon, a) \subseteq DOMAIN send_buffer[Daemon]
  BY DEF AckReplay, Replayable
<1>10. PICK fs : fs = InOrder(send_buffer[Daemon], AckReplay(Daemon, a))
  OBVIOUS
<1>11. Extended(wire[Browser], wire'[Browser], fs)
  BY <1>9, <1>10, StateTypes, ReplayExtends
<1>12. \A k \in DOMAIN fs : fs[k].type = "data" /\ Numbered(m, fs[k].seq, fs[k].entry)
  BY <1>1, <1>9, <1>10, ReplayIsNumbered DEF Inv
<1>13. \A s, e : Numbered(m, s, e)' <=> Numbered(m, s, e)
  BY <1>4, NumberedKept
<1>14. \A k \in DOMAIN fs : Numbered(m, fs[k].seq, fs[k].entry)'
  BY <1>12, <1>13
<1>15. \A c : Covered(m, c) => Covered(m, c)'
  BY <1>4, CoveredKept
<1>16. ConnectionInv'
  BY <1>7, <1>8, <1>11, <1>12, AddedKeepsConnection DEF IInv
<1>17. BrowserInv(m)'
  BY <1>1, <1>4, <1>11, <1>12, <1>13, <1>14, <1>15, AddedKeepsBrowser DEF Inv
<1>18. AcksInv(m)'
  <2>1. \A i \in DOMAIN wire'[Daemon] : Covered(m, wire'[Daemon][i].ack_seq)
    BY <1>1, <1>2 DEF Inv, AcksInv, Shifted
  <2> QED
    BY <1>4, <2>1 DEF AcksInv, Covered
<1>19. Inv(m)'
  BY <1>5, <1>17, <1>18 DEF Inv
<1> QED
  BY <1>6, <1>7, <1>16, <1>19 DEF IInv

\* The queue to the browser once its Resume is answered.
Answered(w, buf, next) ==
  (w \o Resent(buf, 0, next)) \o
    InOrder(Renewed(buf, 0, next), Replayable(Renewed(buf, 0, next), 0))

\* The browser's Resume asks for everything: the buffer is served, or is
\* renumbered when its first frame is gone.
LEMMA ResumeEffect ==
  ASSUME TypeInv, last_contiguous[Daemon] = 0, DaemonHandleResume(0),
         NEW buf, buf = send_buffer[Daemon], NEW next, next = next_seq[Daemon]
  PROVE  /\ BrowserKept /\ Seen' = Seen /\ log'[Daemon] = log[Daemon]
         /\ last_ack_received'[Daemon] = 0 /\ last_contiguous'[Daemon] = 0
         /\ next_seq'[Daemon] = RenewedNext(buf, 0, next)
         /\ DOMAIN send_buffer'[Daemon] = DOMAIN Renewed(buf, 0, next)
         /\ \A s \in DOMAIN send_buffer'[Daemon] :
              send_buffer'[Daemon][s] = Renewed(buf, 0, next)[s] /\ s > 0
         /\ wire'[Daemon] = Tail(wire[Daemon])
         /\ wire'[Browser] = Answered(wire[Browser], buf, next)
<1> DEFINE new == Renewed(buf, 0, next)
           num == RenewedNext(buf, 0, next)
<1>0. PICK a \in Nat : a = 0
  OBVIOUS
<1>0a. DaemonHandleResume(a)
  BY <1>0
<1>b. /\ last_ack_received' = [last_ack_received EXCEPT ![Daemon] = a]
      /\ next_seq' = [next_seq EXCEPT
                        ![Daemon] = RenewedNext(send_buffer[Daemon], a, next_seq[Daemon])]
      /\ send_buffer' = [send_buffer EXCEPT ![Daemon] =
           DropAcked(Renewed(send_buffer[Daemon], a, next_seq[Daemon]), a)]
      /\ last_contiguous' = [last_contiguous EXCEPT ![Daemon] =
           IF a >= next_seq[Daemon] THEN 0
           ELSE IF IsGap(send_buffer[Daemon], a) THEN a ELSE @]
      /\ reorder_buffer' = [reorder_buffer EXCEPT ![Daemon] = reorder_buffer'[Daemon]]
      /\ UNCHANGED <<duplicate_ack_count, ack_pending, histVars>>
  BY <1>0a, DaemonResumes
<1>c. /\ wire' = [wire EXCEPT ![Daemon] = Tail(@), ![Browser] = wire'[Browser]]
      /\ wire'[Browser] =
           (wire[Browser] \o Resent(send_buffer[Daemon], a, next_seq[Daemon])) \o
           InOrder(Renewed(send_buffer[Daemon], a, next_seq[Daemon]),
                   Replayable(Renewed(send_buffer[Daemon], a, next_seq[Daemon]), a))
  BY <1>0a, DaemonResumes
<1>1. /\ last_ack_received' = [last_ack_received EXCEPT ![Daemon] = a]
      /\ next_seq' = [next_seq EXCEPT ![Daemon] = RenewedNext(buf, a, next)]
      /\ send_buffer' = [send_buffer EXCEPT
                           ![Daemon] = DropAcked(Renewed(buf, a, next), a)]
      /\ last_contiguous' = [last_contiguous EXCEPT ![Daemon] =
              IF a >= next THEN 0 ELSE IF IsGap(buf, a) THEN a ELSE @]
      /\ reorder_buffer' = [reorder_buffer EXCEPT ![Daemon] = reorder_buffer'[Daemon]]
      /\ wire' = [wire EXCEPT ![Daemon] = Tail(@), ![Browser] = wire'[Browser]]
      /\ wire'[Browser] = (wire[Browser] \o Resent(buf, a, next)) \o
           InOrder(Renewed(buf, a, next), Replayable(Renewed(buf, a, next), a))
      /\ UNCHANGED <<duplicate_ack_count, ack_pending, histVars>>
  BY <1>b, <1>c
<1> HIDE DEF new, num
<1>2. IsBuffer(buf) /\ next \in Nat \ {0} /\ DOMAIN buf \subseteq 1 .. next - 1
  BY StateTypes
<1>3. DOMAIN new \subseteq 1 .. num - 1 /\ num \in Nat
  BY <1>2, RenewedProperties DEF new, num
<1>4. \A s \in DOMAIN new : s > 0
  BY <1>3
<1>5. /\ send_buffer'[Daemon] = DropAcked(new, 0)
      /\ next_seq'[Daemon] = num /\ last_ack_received'[Daemon] = 0
  BY <1>0, <1>1, Ends DEF TypeInv, TypeOK, SendTypeOK, new, num
<1>6. /\ DOMAIN send_buffer'[Daemon] = DOMAIN new
      /\ \A s \in DOMAIN send_buffer'[Daemon] : send_buffer'[Daemon][s] = new[s] /\ s > 0
  BY <1>4, <1>5 DEF DropAcked
<1>7. last_contiguous'[Daemon] = 0 /\ last_contiguous'[Browser] = last_contiguous[Browser]
  BY <1>0, <1>1, Ends DEF TypeInv, TypeOK, ReceiveTypeOK
<1>8. /\ reorder_buffer'[Browser] = reorder_buffer[Browser]
      /\ wire'[Daemon] = Tail(wire[Daemon])
  BY <1>1, Ends DEF TypeInv, TypeOK, ReceiveTypeOK
<1>9. log' = log /\ accepted' = accepted
  BY <1>1 DEF histVars
<1>10. BrowserKept /\ Seen' = Seen
  BY <1>7, <1>8, <1>9, SeenKept DEF BrowserKept
<1> QED
  BY <1>0, <1>1, <1>5, <1>6, <1>7, <1>8, <1>9, <1>10 DEF new, num, Answered

\* The Critical entries kept, and the numbering they get.
Renumbers(m, n, order) ==
  /\ n \in Seq(Nat) /\ Len(n) = Len(order)
  /\ \A i \in 1 .. Len(order) : n[i] = m[order[i]]

\* What the new numbering is made of.
KeptInOrder(buf, order, es) ==
  /\ es \in Seq(Entry) /\ Len(es) = Len(order) /\ Len(order) \in Nat
  /\ \A i \in 1 .. Len(order) :
       order[i] \in DOMAIN buf /\ buf[order[i]].priority = "Critical"
       /\ es[i] = buf[order[i]]
  /\ \A i, j \in 1 .. Len(order) : i < j => order[i] < order[j]
  /\ \A s \in DOMAIN buf : buf[s].priority = "Critical" =>
       \E i \in 1 .. Len(order) : order[i] = s

\* CriticalEntries is such a choice.
LEMMA KeptExists ==
  ASSUME NEW buf, IsBuffer(buf), Bounded(DOMAIN buf)
  PROVE  KeptInOrder(buf, Ascending(CriticalNumbers(buf)), CriticalEntries(buf))
<1> DEFINE C == CriticalNumbers(buf)
           order == Ascending(C)
           es == CriticalEntries(buf)
<1>1. Bounded(C)
  BY BoundedIsFinite DEF CriticalNumbers
<1>2. /\ Len(order) = Cardinality(C) /\ Len(order) \in Nat
      /\ \A i \in 1 .. Cardinality(C) : order[i] \in C
      /\ \A s \in C : \E i \in 1 .. Cardinality(C) : order[i] = s
      /\ \A i, j \in 1 .. Cardinality(C) : i < j => order[i] < order[j]
  BY <1>1, AscendingProperties
<1>3. /\ es \in Seq(Entry) /\ Len(es) = Len(order)
      /\ \A i \in 1 .. Len(order) : es[i] = buf[order[i]]
  BY CriticalEntriesProperties
<1> HIDE DEF order, es
<1>4. \A s : s \in C <=> s \in DOMAIN buf /\ buf[s].priority = "Critical"
  BY DEF CriticalNumbers
<1> HIDE DEF C
<1> QED
  BY <1>2, <1>3, <1>4 DEF KeptInOrder, order, es, C

\* There is such a numbering.
LEMMA RenumbersExists ==
  ASSUME NEW m, NEW order, Len(order) \in Nat,
         \A i \in 1 .. Len(order) : m[order[i]] \in Nat
  PROVE  \E n : Renumbers(m, n, order)
<1> DEFINE K == Len(order)
           n == [i \in 1 .. K |-> m[order[i]]]
<1>1. n \in [1 .. K -> Nat] /\ \A i \in 1 .. K : n[i] = m[order[i]]
  OBVIOUS
<1> HIDE DEF n
<1>2. n \in Seq(Nat) /\ Len(n) = K
  BY <1>1
<1> QED
  BY <1>1, <1>2 DEF Renumbers

\* After a gap the buffer holds the Critical frames, numbered from one.
LEMMA GapRenumbers ==
  ASSUME NEW buf, IsBuffer(buf), Bounded(DOMAIN buf), NEW next \in Nat \ {0},
         IsGap(buf, 0), NEW order, NEW es, es = CriticalEntries(buf),
         KeptInOrder(buf, order, es)
  PROVE  /\ RenewedNext(buf, 0, next) = 1 + Len(order)
         /\ IsBuffer(Renewed(buf, 0, next))
         /\ DOMAIN Renewed(buf, 0, next) = 1 .. Len(order)
         /\ \A s \in 1 .. Len(order) : Renewed(buf, 0, next)[s] = es[s]
<1> DEFINE K == Len(order)
           new == Renewed(buf, 0, next)
<1>1. 0 < next /\ ~(0 >= next) /\ 0 + 1 = 1
  OBVIOUS
<1>2. new = Push(<<>>, 1, es, 0) /\ RenewedNext(buf, 0, next) = 1 + K
  BY <1>1 DEF Renewed, RenewedNext, KeptInOrder
<1>3. /\ es \in Seq(Entry) /\ Len(es) = K /\ K \in Nat
      /\ \A s \in 1 .. K : es[s].priority = "Critical"
  BY DEF KeptInOrder
<1> HIDE DEF new, K
<1>4. /\ IsBuffer(new)
      /\ \A s \in DOMAIN new :
           \/ s \in DOMAIN <<>> /\ new[s] = <<>>[s]
           \/ s \in 1 .. 1 + Len(es) - 1 /\ new[s] = es[s - 1 + 1]
      /\ \A s \in 1 .. 1 + Len(es) - 1 :
           es[s - 1 + 1].priority = "Critical" /\ s > 0 => s \in DOMAIN new
  <2>a. PICK none : none = <<>>
    OBVIOUS
  <2>b. PICK from \in Nat : from = 1
    OBVIOUS
  <2>c. PICK ack \in Nat : ack = 0
    OBVIOUS
  <2>1. none = <<>> /\ from = 1 /\ ack = 0
    BY <2>a, <2>b, <2>c
  <2>2. /\ IsBuffer(none) /\ from \in Nat \ {0} /\ es \in Seq(Entry)
        /\ DOMAIN none \subseteq 1 .. from - 1 /\ ack \in Nat
    BY <1>3, <2>1, EmptyBuffer
  <2>3. new = Push(none, from, es, ack)
    BY <1>2, <2>1
  <2>4. /\ IsBuffer(new)
        /\ \A s \in DOMAIN new :
             \/ s \in DOMAIN none /\ new[s] = none[s]
             \/ s \in from .. from + Len(es) - 1 /\ new[s] = es[s - from + 1]
        /\ \A s \in from .. from + Len(es) - 1 :
             es[s - from + 1].priority = "Critical" /\ s > ack => s \in DOMAIN new
    BY ONLY <2>2, <2>3, PushProperties
  <2> QED
    BY <2>1, <2>4
<1>5. 1 .. 1 + Len(es) - 1 = 1 .. K /\ \A s \in 1 .. K : s - 1 + 1 = s /\ s > 0
  BY <1>3
<1>6. \A s \in DOMAIN new : s \in 1 .. K /\ new[s] = es[s]
  BY <1>4, <1>5, EmptyBuffer
<1>7. \A s \in 1 .. K : s \in DOMAIN new
  BY <1>3, <1>4, <1>5
<1> QED
  BY <1>2, <1>4, <1>6, <1>7 DEF new, K

\* Behind the first frame to the daemon there are only acks.
LEMMA AcksRemain ==
  ASSUME TypeInv, ConnectionInv, wire[Daemon] # <<>>,
         wire'[Daemon] = Tail(wire[Daemon])
  PROVE  /\ Shifted(wire[Daemon], wire'[Daemon])
         /\ \A i \in DOMAIN wire'[Daemon] : wire'[Daemon][i].type = "ack"
<1>1. Shifted(wire[Daemon], wire'[Daemon])
  BY StateTypes, TailShifts
<1>2. ASSUME NEW i \in DOMAIN wire'[Daemon] PROVE wire'[Daemon][i].type = "ack"
  <2>1. i + 1 # 1 /\ i + 1 \in DOMAIN wire[Daemon]
        /\ wire'[Daemon][i] = wire[Daemon][i + 1]
    BY <1>1, <1>2 DEF Shifted
  <2> QED
    BY <2>1 DEF ConnectionInv
<1> QED
  BY <1>1, <1>2

\* A Resume that the buffer can serve keeps the numbering.
LEMMA ServedKeepsInv ==
  ASSUME TypeInv, TypeInv', IInv, wire[Daemon] # <<>>, DaemonHandleResume(0),
         ~IsGap(send_buffer[Daemon], 0), handler' = handler,
         handler \in {"drain", "loop"}, gate_open'
  PROVE  IInv'
<1>1. PICK m \in Seq(Nat) : Inv(m)
  BY DEF IInv
<1>2. PICK buf : buf = send_buffer[Daemon]
  OBVIOUS
<1>3. PICK next : next = next_seq[Daemon]
  OBVIOUS
<1>4. next \in Nat \ {0} /\ IsBuffer(buf) /\ Bounded(DOMAIN buf)
      /\ wire[Browser] \in Seq(Frame)
  BY <1>2, <1>3, StateTypes
<1>5. ~(0 >= next) /\ 0 < next
  BY <1>4
<1>6. Renewed(buf, 0, next) = buf /\ RenewedNext(buf, 0, next) = next
      /\ Resent(buf, 0, next) = <<>>
  BY <1>2, <1>5 DEF Renewed, RenewedNext, Resent
<1>7. /\ BrowserKept /\ Seen' = Seen /\ log'[Daemon] = log[Daemon]
      /\ last_ack_received'[Daemon] = 0 /\ last_contiguous'[Daemon] = 0
      /\ next_seq'[Daemon] = next
      /\ DOMAIN send_buffer'[Daemon] = DOMAIN buf
      /\ \A s \in DOMAIN send_buffer'[Daemon] :
           send_buffer'[Daemon][s] = buf[s] /\ s > 0
      /\ wire'[Daemon] = Tail(wire[Daemon])
      /\ wire'[Browser] = (wire[Browser] \o <<>>) \o InOrder(buf, Replayable(buf, 0))
  <2>1. last_contiguous[Daemon] = 0
    BY <1>1 DEF Inv, DaemonInv
  <2>2. BrowserKept /\ Seen' = Seen /\ log'[Daemon] = log[Daemon]
    BY <1>2, <1>3, <2>1, ResumeEffect
  <2>3. /\ last_ack_received'[Daemon] = 0 /\ last_contiguous'[Daemon] = 0
        /\ next_seq'[Daemon] = RenewedNext(buf, 0, next)
    BY <1>2, <1>3, <2>1, ResumeEffect
  <2>4. /\ DOMAIN send_buffer'[Daemon] = DOMAIN Renewed(buf, 0, next)
        /\ \A s \in DOMAIN send_buffer'[Daemon] :
             send_buffer'[Daemon][s] = Renewed(buf, 0, next)[s] /\ s > 0
    BY <1>2, <1>3, <2>1, ResumeEffect
  <2>5. /\ wire'[Daemon] = Tail(wire[Daemon])
        /\ wire'[Browser] = Answered(wire[Browser], buf, next)
    BY <1>2, <1>3, <2>1, ResumeEffect
  <2> QED
    BY <1>6, <2>2, <2>3, <2>4, <2>5 DEF Answered
<1>8. wire'[Browser] = wire[Browser] \o InOrder(buf, Replayable(buf, 0))
  <2>1. wire[Browser] \o <<>> = wire[Browser]
    BY <1>4
  <2> QED
    BY <1>7, <2>1
<1>9. PICK fs : fs = InOrder(buf, Replayable(buf, 0))
  OBVIOUS
<1>10. Replayable(buf, 0) \subseteq DOMAIN buf
  BY DEF Replayable
<1>11. Extended(wire[Browser], wire'[Browser], fs)
  BY <1>4, <1>8, <1>9, <1>10, ReplayExtends
<1>12. \A k \in DOMAIN fs : fs[k].type = "data" /\ Numbered(m, fs[k].seq, fs[k].entry)
  BY <1>1, <1>2, <1>9, <1>10, ReplayIsNumbered DEF Inv
<1>13. \A s, e : Numbered(m, s, e)' <=> Numbered(m, s, e)
  BY <1>7, NumberedKept
<1>14. \A k \in DOMAIN fs : Numbered(m, fs[k].seq, fs[k].entry)'
  BY <1>12, <1>13
<1>15. \A c : Covered(m, c) => Covered(m, c)'
  BY <1>7, CoveredKept
<1>16. SeenInv'
  BY <1>7, SeenInvKept DEF IInv
<1>17. ~Unresumed' /\ ResumeInv'
  BY DEF Unresumed, ResumeInv
<1>18. /\ Shifted(wire[Daemon], wire'[Daemon])
       /\ \A i \in DOMAIN wire'[Daemon] : wire'[Daemon][i].type = "ack"
  BY <1>7, AcksRemain DEF IInv
<1>19. ConnectionInv'
  BY <1>11, <1>12, <1>17, <1>18, AddedKeepsConnection DEF IInv
<1>20. BrowserInv(m)'
  BY <1>1, <1>7, <1>11, <1>12, <1>13, <1>14, <1>15, AddedKeepsBrowser DEF Inv
<1>21. AcksInv(m)'
  <2>1. \A i \in DOMAIN wire'[Daemon] : Covered(m, wire'[Daemon][i].ack_seq)
    BY <1>1, <1>18 DEF Inv, AcksInv, Shifted
  <2> QED
    BY <1>7, <2>1 DEF AcksInv, Covered
<1>22. Numbers(m)'
  BY <1>1, <1>3, <1>7 DEF Inv, DaemonInv, Numbers
<1>23. DaemonInv(m)'
  <2>1. Len(m) \in Nat
    BY <1>1
  <2>2. \A s \in DOMAIN send_buffer'[Daemon] : Numbered(m, s, send_buffer[Daemon][s])'
    BY <1>1, <1>2, <1>7 DEF Inv, DaemonInv, Numbered
  <2> QED
    BY <1>2, <1>7, <1>22, <2>1, <2>2 DEF DaemonInv
<1>24. GoneIsSeen(m)'
  BY <1>1, <1>2, <1>7 DEF Inv, GoneIsSeen, IsCritical
<1>25. Inv(m)'
  BY <1>20, <1>21, <1>23, <1>24 DEF Inv
<1> QED
  BY <1>16, <1>17, <1>19, <1>25 DEF IInv

\* A Resume that finds the first frame gone: what is left is renumbered.
LEMMA GapKeepsDaemon ==
  ASSUME TypeInv, TypeInv', SeenInv, NEW m \in Seq(Nat), DaemonInv(m), GoneIsSeen(m),
         NEW buf, buf = send_buffer[Daemon], NEW order, NEW es,
         KeptInOrder(buf, order, es), NEW n, Renumbers(m, n, order),
         Seen' = Seen, log'[Daemon] = log[Daemon],
         last_ack_received'[Daemon] = 0, last_contiguous'[Daemon] = 0,
         next_seq'[Daemon] = 1 + Len(order),
         DOMAIN send_buffer'[Daemon] = 1 .. Len(order),
         \A s \in 1 .. Len(order) : send_buffer'[Daemon][s] = es[s]
  PROVE  /\ DaemonInv(n)' /\ GoneIsSeen(n)'
         /\ \A i \in 1 .. Len(order) : Numbered(n, i, es[i])'
<1> DEFINE K == Len(order)
           M == Len(m)
           L == Len(log[Daemon])
<1>1. /\ K \in Nat /\ n \in Seq(Nat) /\ Len(n) = K
      /\ \A i \in 1 .. K : n[i] = m[order[i]] /\ es[i] = buf[order[i]]
      /\ \A i \in 1 .. K : order[i] \in DOMAIN buf /\ buf[order[i]].priority = "Critical"
      /\ \A i, j \in 1 .. K : i < j => order[i] < order[j]
      /\ \A s \in DOMAIN buf : buf[s].priority = "Critical" =>
           \E i \in 1 .. K : order[i] = s
  BY DEF KeptInOrder, Renumbers
<1>2. /\ M \in Nat
      /\ \A s \in 1 .. M : m[s] \in 1 .. L
      /\ \A s, t \in 1 .. M : s < t => m[s] < m[t]
      /\ \A s \in DOMAIN buf : s \in 1 .. M /\ buf[s] = log[Daemon][m[s]]
  BY DEF DaemonInv, Numbers, Numbered
<1> HIDE DEF K, M, L
<1>3. \A i \in 1 .. K : /\ order[i] \in 1 .. M /\ n[i] \in 1 .. L
                        /\ es[i] = log[Daemon][n[i]]
  <2>1. SUFFICES ASSUME NEW i \in 1 .. K
                 PROVE  /\ order[i] \in 1 .. M /\ n[i] \in 1 .. L
                        /\ es[i] = log[Daemon][n[i]]
    OBVIOUS
  <2>2. order[i] \in DOMAIN buf /\ n[i] = m[order[i]] /\ es[i] = buf[order[i]]
    BY <1>1
  <2>3. order[i] \in 1 .. M /\ buf[order[i]] = log[Daemon][m[order[i]]]
    BY <1>2, <2>2
  <2> QED
    BY <1>2, <2>2, <2>3
<1>4. \A i, j \in 1 .. K : i < j => n[i] < n[j]
  <2>1. SUFFICES ASSUME NEW i \in 1 .. K, NEW j \in 1 .. K, i < j PROVE n[i] < n[j]
    OBVIOUS
  <2>2. order[i] < order[j] /\ order[i] \in 1 .. M /\ order[j] \in 1 .. M
    BY <1>1, <1>3, <2>1
  <2>3. m[order[i]] < m[order[j]]
    BY <1>2, <2>2
  <2> QED
    BY <1>1, <2>3
<1>5. ASSUME NEW i \in 1 .. K PROVE Numbered(n, i, es[i])'
  BY <1>1, <1>3 DEF Numbered
<1>6. Numbers(n)'
  <2>1. Len(n) = next_seq'[Daemon] - 1
    BY <1>1 DEF K
  <2> QED
    BY <1>1, <1>3, <1>4, <2>1 DEF Numbers, L
<1>7. DaemonInv(n)'
  <2>1. \A s \in DOMAIN send_buffer'[Daemon] :
          s > 0 /\ s \in 1 .. Len(n) /\ send_buffer'[Daemon][s] = log'[Daemon][n[s]]
    BY <1>1, <1>3 DEF K
  <2>2. 0 <= Len(n)
    BY <1>1
  <2> QED
    BY <1>6, <2>1, <2>2 DEF DaemonInv, Numbered
<1>8. GoneIsSeen(n)'
  <2>1. \A d : IsCritical(d)' <=> IsCritical(d)
    BY DEF IsCritical
  <2>2. ASSUME NEW d \in 1 .. L, IsCritical(d), \A i \in 1 .. K : n[i] # d
        PROVE  d \in Seen
    <3>1. CASE \A s \in 1 .. M : m[s] # d
      BY <2>2, <3>1 DEF GoneIsSeen, M, L
    <3>2. CASE \E s \in 1 .. M : m[s] = d
      <4>1. PICK s \in 1 .. M : m[s] = d
        BY <3>2
      <4>2. s \notin DOMAIN buf
        <5>1. SUFFICES ASSUME s \in DOMAIN buf PROVE FALSE
          OBVIOUS
        <5>2. buf[s].priority = "Critical"
          BY <1>2, <2>2, <4>1, <5>1 DEF IsCritical
        <5>3. PICK i \in 1 .. K : order[i] = s
          BY <1>1, <5>1, <5>2
        <5> QED
          BY <1>1, <2>2, <4>1, <5>3
      <4> QED
        BY <2>2, <4>1, <4>2 DEF GoneIsSeen, M
    <3> QED
      BY <3>1, <3>2
  <2> QED
    BY <1>1, <2>1, <2>2 DEF GoneIsSeen, K, L
<1> QED
  BY <1>5, <1>7, <1>8 DEF K

\* A queue extended twice is extended by the frames of both.
LEMMA ExtendedTwice ==
  ASSUME NEW w \in Seq(Frame), NEW fs \in Seq(Frame), NEW gs \in Seq(Frame)
  PROVE  /\ Extended(w, (w \o fs) \o gs, fs \o gs)
         /\ \A i \in DOMAIN (fs \o gs) :
              \/ \E k \in DOMAIN fs : (fs \o gs)[i] = fs[k]
              \/ \E k \in DOMAIN gs : (fs \o gs)[i] = gs[k]
<1> DEFINE u == w \o fs
           v == u \o gs
           hs == fs \o gs
<1>1. u \in Seq(Frame) /\ Extended(w, u, fs)
  BY ConcatExtends, ConcatPointwise
<1> HIDE DEF u
<1>2. v \in Seq(Frame) /\ Extended(u, v, gs)
  BY <1>1, ConcatExtends, ConcatPointwise
<1>3. /\ hs \in Seq(Frame) /\ Len(fs) \in Nat /\ Len(gs) \in Nat
      /\ Len(hs) = Len(fs) + Len(gs)
      /\ \A i \in 1 .. Len(fs) : hs[i] = fs[i]
      /\ \A i \in 1 .. Len(gs) : hs[Len(fs) + i] = gs[i]
  BY ConcatPointwise
<1> HIDE DEF v, hs
<1>4. /\ DOMAIN hs = 1 .. Len(fs) + Len(gs)
      /\ DOMAIN fs = 1 .. Len(fs) /\ DOMAIN gs = 1 .. Len(gs)
  BY <1>3
<1>5. \A k \in DOMAIN fs : \E l \in DOMAIN hs : fs[k] = hs[l]
  BY <1>3, <1>4
<1>6. ASSUME NEW k \in DOMAIN gs PROVE \E l \in DOMAIN hs : gs[k] = hs[l]
  <2>1. Len(fs) + k \in DOMAIN hs /\ hs[Len(fs) + k] = gs[k]
    BY <1>3, <1>4
  <2> QED
    BY <2>1
<1>7. Extended(w, v, hs)
  <2>1. \A i \in DOMAIN w : i \in Nat /\ i \in DOMAIN v /\ v[i] = w[i]
    BY <1>1, <1>2 DEF Extended
  <2>2. ASSUME NEW i \in DOMAIN v \ DOMAIN w
        PROVE  (\A j \in DOMAIN w : j < i) /\ \E k \in DOMAIN hs : v[i] = hs[k]
    <3>1. CASE i \in DOMAIN u
      BY <1>1, <1>2, <1>5, <3>1 DEF Extended
    <3>2. CASE i \notin DOMAIN u
      BY <1>1, <1>2, <1>6, <3>2 DEF Extended
    <3> QED
      BY <3>1, <3>2
  <2> QED
    BY <2>1, <2>2 DEF Extended
<1>8. ASSUME NEW i \in DOMAIN hs
      PROVE  (\E k \in DOMAIN fs : hs[i] = fs[k]) \/ \E k \in DOMAIN gs : hs[i] = gs[k]
  <2>1. CASE i \in 1 .. Len(fs)
    BY <1>3, <1>4, <2>1
  <2>2. CASE i \notin 1 .. Len(fs)
    <3>1. i - Len(fs) \in 1 .. Len(gs) /\ Len(fs) + (i - Len(fs)) = i
      BY <1>3, <1>4, <2>2
    <3> QED
      BY <1>3, <1>4, <3>1
  <2> QED
    BY <2>1, <2>2
<1> QED
  BY <1>7, <1>8 DEF u, v, hs

\* The frames fs, of the K entries es, extend the queue w to v.
RestartSends(w, v, fs, K, es) ==
  /\ Extended(w, v, fs)
  /\ \A i \in DOMAIN fs : /\ fs[i].type = "data" /\ fs[i].seq \in 1 .. K
                          /\ fs[i].entry = es[fs[i].seq]

\* Everything a restart sends is in the new numbering.
LEMMA RestartFrames ==
  ASSUME TypeInv, NEW buf, buf = send_buffer[Daemon], NEW next, next = next_seq[Daemon],
         IsGap(buf, 0), NEW order, NEW es, es = CriticalEntries(buf),
         KeptInOrder(buf, order, es)
  PROVE  \E fs : RestartSends(wire[Browser], Answered(wire[Browser], buf, next), fs,
                              Len(order), es)
<1> DEFINE K == Len(order)
           new == Renewed(buf, 0, next)
           S == Replayable(new, 0)
           again == InOrder(new, S)
           first == Resent(buf, 0, next)
<1>1. /\ next \in Nat \ {0} /\ IsBuffer(buf) /\ Bounded(DOMAIN buf)
      /\ DOMAIN buf \subseteq 1 .. next - 1 /\ wire[Browser] \in Seq(Frame)
  BY StateTypes
<1>2. /\ IsBuffer(new) /\ DOMAIN new = 1 .. K
      /\ \A s \in 1 .. K : new[s] = es[s]
  BY <1>1, GapRenumbers
<1>3. K \in Nat /\ es \in Seq(Entry) /\ Len(es) = K
  BY DEF KeptInOrder
<1>4. S \subseteq DOMAIN new /\ Bounded(DOMAIN new)
  BY <1>2, <1>3 DEF Replayable, Bounded
<1> HIDE DEF S, new
<1>5. /\ again \in Seq(DataFrames)
      /\ \A i \in DOMAIN again : /\ again[i].type = "data" /\ again[i].seq \in S
                                 /\ again[i].entry = new[again[i].seq]
  BY <1>2, <1>4, InOrderProperties
<1>6. PICK a \in Nat : a = 0
  OBVIOUS
<1>7. /\ Resent(buf, a, next) \in Seq(DataFrames)
      /\ \A i \in DOMAIN Resent(buf, a, next) :
           /\ i \in 1 .. Len(CriticalEntries(buf))
           /\ Resent(buf, a, next)[i] = DataFrame(a + i, CriticalEntries(buf)[i])
  BY ONLY <1>1, ResentProperties
<1>8. /\ first \in Seq(DataFrames)
      /\ \A i \in DOMAIN first : i \in 1 .. K /\ first[i] = DataFrame(i, es[i])
  BY <1>3, <1>6, <1>7
<1> HIDE DEF again, first
<1>9. first \in Seq(Frame) /\ again \in Seq(Frame)
  BY <1>5, <1>8, WireSteps DEF TypeInv, TypeOK
<1>10. /\ Extended(wire[Browser], (wire[Browser] \o first) \o again, first \o again)
       /\ \A i \in DOMAIN (first \o again) :
            \/ \E k \in DOMAIN first : (first \o again)[i] = first[k]
            \/ \E k \in DOMAIN again : (first \o again)[i] = again[k]
  BY <1>1, <1>9, ExtendedTwice
<1>11. (wire[Browser] \o first) \o again = Answered(wire[Browser], buf, next)
  BY DEF Answered, first, again, S, new
<1>12. PICK fs : fs = first \o again
  OBVIOUS
<1>13. \A k \in DOMAIN first : /\ first[k].type = "data" /\ first[k].seq \in 1 .. K
                               /\ first[k].entry = es[first[k].seq]
  BY <1>8 DEF DataFrame
<1>14. \A k \in DOMAIN again : /\ again[k].type = "data" /\ again[k].seq \in 1 .. K
                               /\ again[k].entry = es[again[k].seq]
  BY <1>2, <1>4, <1>5
<1>15. \A i \in DOMAIN fs : \/ \E k \in DOMAIN first : fs[i] = first[k]
                            \/ \E k \in DOMAIN again : fs[i] = again[k]
  BY <1>10, <1>12
<1>16. \A i \in DOMAIN fs : /\ fs[i].type = "data" /\ fs[i].seq \in 1 .. K
                            /\ fs[i].entry = es[fs[i].seq]
  BY <1>13, <1>14, <1>15
<1> QED
  BY <1>10, <1>11, <1>12, <1>16 DEF RestartSends

\* A gap at the first frame: it has left the buffer.
LEMMA GapLeavesFirst ==
  ASSUME TypeInv, IsGap(send_buffer[Daemon], 0)
  PROVE  /\ 1 \notin DOMAIN send_buffer[Daemon]
         /\ \A s \in DOMAIN send_buffer[Daemon] : s >= 2
<1>1. PICK s \in DOMAIN send_buffer[Daemon] :
        \A t \in DOMAIN send_buffer[Daemon] : s <= t /\ s > 0 + 1
  BY DEF IsGap
<1>2. \A t \in DOMAIN send_buffer[Daemon] : t \in Nat
  BY StateTypes DEF IsBuffer
<1> QED
  BY <1>1, <1>2

\* At a restart the browser has nothing in order.  Either the daemon's Resume
\* is still to reach it, or there is nothing left of the old numbering.
LEMMA RestartKeepsBrowser ==
  ASSUME TypeInv, TypeInv', IInv, Unresumed, handler \in {"drain", "loop"},
         IsGap(send_buffer[Daemon], 0), BrowserKept,
         NEW fs, Extended(wire[Browser], wire'[Browser], fs), NEW n,
         \A i \in DOMAIN fs : fs[i].type = "data",
         \A i \in DOMAIN fs : Numbered(n, fs[i].seq, fs[i].entry)',
         Covered(n, 0)'
  PROVE  BrowserInv(n)'
<1> DEFINE w == wire[Browser]
           v == wire'[Browser]
<1>1. /\ 1 \notin DOMAIN send_buffer[Daemon]
      /\ \A s \in DOMAIN send_buffer[Daemon] : s >= 2
  BY GapLeavesFirst
<1>2. /\ \A s \in DOMAIN reorder_buffer[Browser] : s \in DOMAIN send_buffer[Daemon]
      /\ \A i \in DOMAIN w : DataAt(i) =>
           w[i].seq \in DOMAIN send_buffer[Daemon] /\ ResumeAfter(i)
      /\ last_contiguous[Browser] = 0
      /\ (\A i \in DOMAIN w : ~ResumeAt(i)) => DOMAIN reorder_buffer[Browser] = {}
  BY <1>1 DEF IInv, ResumeInv
<1>3. /\ \A i \in DOMAIN w :
           /\ i \in DOMAIN v /\ v[i] = w[i]
           /\ DataAt(i)' <=> DataAt(i)
           /\ ResumeAt(i)' <=> ResumeAt(i)
           /\ ResumeAfter(i)' <=> ResumeAfter(i)
      /\ \A i \in DOMAIN v \ DOMAIN w :
           /\ ~ResumeAt(i)' /\ ~ResumeAfter(i)'
           /\ \E k \in DOMAIN fs : v[i] = fs[k]
  BY FramesAdded
<1>4. ASSUME NEW i \in DOMAIN v \ DOMAIN w PROVE CarriedAt(n, i)'
  <2>1. PICK k \in DOMAIN fs : v[i] = fs[k]
    BY <1>3
  <2>2. Numbered(n, fs[k].seq, fs[k].entry)'
    OBVIOUS
  <2> QED
    BY <2>1, <2>2 DEF CarriedAt, Numbered
<1>5. CASE \E i \in DOMAIN w : ResumeAt(i)
  <2>1. \E i \in DOMAIN v : ResumeAt(i)'
    BY <1>3, <1>5
  <2>2. \A i \in DOMAIN v : DataAt(i)' =>
          IF ResumeAfter(i)' THEN v[i].seq >= 2 ELSE CarriedAt(n, i)'
    BY <1>1, <1>2, <1>3, <1>4
  <2>3. \A s \in DOMAIN reorder_buffer'[Browser] : s >= 2
    BY <1>1, <1>2 DEF BrowserKept
  <2>4. BrowserBlind(n)'
    BY <1>2, <2>1, <2>2, <2>3 DEF BrowserBlind, BrowserKept
  <2> QED
    BY <2>4 DEF BrowserInv
<1>6. CASE \A i \in DOMAIN w : ~ResumeAt(i)
  <2>1. \A i \in DOMAIN w : ~DataAt(i)
    BY <1>2, <1>6 DEF ResumeAfter
  <2>2. \A i \in DOMAIN v : DataAt(i)' => CarriedAt(n, i)'
    BY <1>3, <1>4, <2>1
  <2>3. DOMAIN reorder_buffer'[Browser] = {} /\ last_contiguous'[Browser] = 0
    BY <1>2, <1>6 DEF BrowserKept
  <2>4. Covered(n, last_contiguous[Browser])'
    BY <2>3 DEF Covered
  <2>5. BrowserAgrees(n)'
    BY <2>2, <2>3, <2>4 DEF BrowserAgrees
  <2> QED
    BY <2>5 DEF BrowserInv
<1> QED
  BY <1>5, <1>6

\* A restart of the numbering keeps the invariant.
LEMMA RestartKeepsInv ==
  ASSUME TypeInv, TypeInv', IInv, Unresumed, wire[Daemon] # <<>>,
         DaemonHandleResume(0), IsGap(send_buffer[Daemon], 0), handler' = handler,
         handler \in {"drain", "loop"}, gate_open'
  PROVE  IInv'
<1>1. PICK m \in Seq(Nat) : Inv(m)
  BY DEF IInv
<1>2. PICK buf : buf = send_buffer[Daemon]
  OBVIOUS
<1>3. PICK next : next = next_seq[Daemon]
  OBVIOUS
<1>4. PICK order : order = Ascending(CriticalNumbers(buf))
  OBVIOUS
<1>5. PICK es : es = CriticalEntries(buf)
  OBVIOUS
<1>6. /\ next \in Nat \ {0} /\ IsBuffer(buf) /\ Bounded(DOMAIN buf)
      /\ last_contiguous[Daemon] = 0 /\ IsGap(buf, 0)
  BY <1>1, <1>2, <1>3, StateTypes DEF Inv, DaemonInv
<1>7. KeptInOrder(buf, order, es)
  BY <1>4, <1>5, <1>6, KeptExists
<1>8. /\ RenewedNext(buf, 0, next) = 1 + Len(order)
      /\ DOMAIN Renewed(buf, 0, next) = 1 .. Len(order)
      /\ \A s \in 1 .. Len(order) : Renewed(buf, 0, next)[s] = es[s]
  BY <1>5, <1>6, <1>7, GapRenumbers
<1>9. BrowserKept /\ Seen' = Seen /\ log'[Daemon] = log[Daemon]
  BY <1>2, <1>3, <1>6, ResumeEffect
<1>10. /\ last_ack_received'[Daemon] = 0 /\ last_contiguous'[Daemon] = 0
       /\ next_seq'[Daemon] = RenewedNext(buf, 0, next)
  BY <1>2, <1>3, <1>6, ResumeEffect
<1>11. /\ DOMAIN send_buffer'[Daemon] = DOMAIN Renewed(buf, 0, next)
       /\ \A s \in DOMAIN send_buffer'[Daemon] :
            send_buffer'[Daemon][s] = Renewed(buf, 0, next)[s] /\ s > 0
  BY <1>2, <1>3, <1>6, ResumeEffect
<1>12. /\ wire'[Daemon] = Tail(wire[Daemon])
       /\ wire'[Browser] = Answered(wire[Browser], buf, next)
  BY <1>2, <1>3, <1>6, ResumeEffect
<1>13. /\ next_seq'[Daemon] = 1 + Len(order)
       /\ DOMAIN send_buffer'[Daemon] = 1 .. Len(order)
       /\ \A s \in 1 .. Len(order) : send_buffer'[Daemon][s] = es[s]
  BY <1>8, <1>10, <1>11
<1>14. PICK fs : RestartSends(wire[Browser], Answered(wire[Browser], buf, next), fs,
                              Len(order), es)
  BY <1>2, <1>3, <1>5, <1>6, <1>7, RestartFrames
<1>15. /\ Extended(wire[Browser], wire'[Browser], fs)
       /\ \A i \in DOMAIN fs : /\ fs[i].type = "data" /\ fs[i].seq \in 1 .. Len(order)
                               /\ fs[i].entry = es[fs[i].seq]
  BY <1>12, <1>14 DEF RestartSends
<1>16. PICK n : Renumbers(m, n, order)
  <2>1. Len(order) \in Nat /\ \A i \in 1 .. Len(order) : order[i] \in DOMAIN buf
    BY <1>7 DEF KeptInOrder
  <2>2. \A s \in DOMAIN buf : m[s] \in Nat
    BY <1>1, <1>2 DEF Inv, DaemonInv, Numbers, Numbered
  <2> QED
    BY <2>1, <2>2, RenumbersExists
<1>17. /\ DaemonInv(n)' /\ GoneIsSeen(n)'
       /\ \A i \in 1 .. Len(order) : Numbered(n, i, es[i])'
  BY <1>1, <1>2, <1>7, <1>9, <1>10, <1>13, <1>16, GapKeepsDaemon DEF IInv, Inv
<1>18. \A i \in DOMAIN fs : Numbered(n, fs[i].seq, fs[i].entry)'
  BY <1>15, <1>17 DEF Numbered
<1>19. Covered(n, 0)' /\ n \in Seq(Nat)
  <2>1. n \in Seq(Nat)
    BY <1>16 DEF Renumbers
  <2>2. 0 \in 0 .. Len(n) /\ \A s \in 1 .. 0 : FALSE
    BY <2>1
  <2> QED
    BY <2>1, <2>2 DEF Covered
<1>20. SeenInv'
  BY <1>9, SeenInvKept DEF IInv
<1>21. ~Unresumed' /\ ResumeInv'
  BY DEF Unresumed, ResumeInv
<1>22. /\ Shifted(wire[Daemon], wire'[Daemon])
       /\ \A i \in DOMAIN wire'[Daemon] : wire'[Daemon][i].type = "ack"
  BY <1>12, AcksRemain DEF IInv
<1>23. ConnectionInv'
  BY <1>15, <1>21, <1>22, AddedKeepsConnection DEF IInv
<1>24. BrowserInv(n)'
  BY <1>9, <1>15, <1>18, <1>19, RestartKeepsBrowser
<1>25. AcksInv(n)'
  <2>1. 1 \notin DOMAIN send_buffer[Daemon]
    BY GapLeavesFirst
  <2>2. \A i \in DOMAIN wire[Daemon] : wire[Daemon][i].ack_seq = 0
    BY <2>1 DEF IInv, ResumeInv
  <2>3. \A i \in DOMAIN wire'[Daemon] : wire'[Daemon][i].ack_seq = 0
    BY <1>22, <2>2 DEF Shifted
  <2> QED
    BY <1>19, <2>3 DEF AcksInv, Covered
<1>26. Inv(n)'
  BY <1>17, <1>24, <1>25 DEF Inv
<1> QED
  BY <1>19, <1>20, <1>21, <1>23, <1>26 DEF IInv

\* Whatever the daemon takes, the invariant holds after it.
LEMMA DaemonReceiveKeepsInv ==
  ASSUME TypeInv, TypeInv', IInv, DaemonReceive
  PROVE  IInv'
<1>1. /\ handler' = handler /\ handler \in {"drain", "loop"} /\ gate_open'
      /\ wire[Daemon] # <<>> /\ wire[Daemon] \in Seq(Frame)
  BY StateTypes DEF DaemonReceive
<1>2. 1 \in DOMAIN wire[Daemon] /\ wire[Daemon][1] = Head(wire[Daemon])
  BY <1>1
<1>3. CASE /\ wire[Daemon][1].type = "resume"
           /\ DaemonHandleResume(wire[Daemon][1].ack_seq)
  <2>1. wire[Daemon][1].type # "ack"
    BY <1>3
  <2>2. Unresumed /\ wire[Daemon][1] = ResumeFrame(0)
    BY <1>2, <2>1 DEF IInv, ConnectionInv
  <2>3. DaemonHandleResume(0)
    BY <1>3, <2>2 DEF ResumeFrame
  <2>4. CASE IsGap(send_buffer[Daemon], 0)
    BY <1>1, <2>2, <2>3, <2>4, RestartKeepsInv
  <2>5. CASE ~IsGap(send_buffer[Daemon], 0)
    BY <1>1, <2>3, <2>5, ServedKeepsInv
  <2> QED
    BY <2>4, <2>5
<1>4. CASE /\ wire[Daemon][1].type = "ack"
           /\ ReceiveAck(Daemon, wire[Daemon][1].ack_seq)
           /\ wire' = [wire EXCEPT
                ![Daemon] = Tail(@),
                ![Browser] = @ \o InOrder(send_buffer[Daemon],
                                   AckReplay(Daemon, wire[Daemon][1].ack_seq))]
  <2>1. wire[Daemon][1] \in Frame
    BY <1>1, <1>2
  <2>2. PICK a \in Nat : wire[Daemon][1].ack_seq = a
    BY <1>4, <2>1, FrameKinds
  <2>3. /\ wire'[Daemon] = Tail(wire[Daemon])
        /\ wire'[Browser] = wire[Browser] \o
                              InOrder(send_buffer[Daemon], AckReplay(Daemon, a))
    BY <1>4, <2>2, Ends DEF TypeInv, TypeOK
  <2>4. ReceiveAck(Daemon, a)
    BY <1>4, <2>2
  <2> QED
    BY <1>1, <1>4, <2>2, <2>3, <2>4, AckKeepsInv
<1> QED
  BY <1>2, <1>3, <1>4 DEF DaemonReceive

\* The invariant holds at first, under the empty numbering ...
LEMMA IInvInit ==
  ASSUME Init
  PROVE  IInv
<1> DEFINE m == <<>>
<1>1. /\ handler = "none" /\ ~gate_open
      /\ wire[Browser] = <<>> /\ wire[Daemon] = <<>>
  BY Ends DEF Init
<1>2. /\ next_seq[Daemon] = 1 /\ send_buffer[Daemon] = <<>>
      /\ last_ack_received[Daemon] = 0 /\ last_contiguous[Daemon] = 0
      /\ log[Daemon] = <<>> /\ accepted[Browser] = <<>>
  BY Ends DEF Init, ChannelInit
<1>3. Seen = {}
  BY <1>2 DEF Seen
<1>4. DOMAIN wire[Browser] = {} /\ DOMAIN wire[Daemon] = {}
  BY <1>1
<1>5. ConnectionInv
  BY <1>1, <1>4 DEF ConnectionInv, Unresumed
<1>6. SeenInv
  BY <1>2, <1>3 DEF SeenInv, NoCriticalSkipped
<1>7. ResumeInv
  BY <1>1 DEF ResumeInv, Unresumed
<1>8. m \in Seq(Nat) /\ Len(m) = 0
  OBVIOUS
<1> HIDE DEF m
<1>9. DaemonInv(m)
  BY <1>2, <1>8, EmptyBuffer DEF DaemonInv, Numbers
<1>10. GoneIsSeen(m)
  BY <1>2, <1>8 DEF GoneIsSeen
<1>11. BrowserInv(m) /\ AcksInv(m)
  BY <1>1, <1>4 DEF BrowserInv, AcksInv
<1>12. Inv(m)
  BY <1>9, <1>10, <1>11 DEF Inv
<1> QED
  BY <1>5, <1>6, <1>7, <1>8, <1>12 DEF IInv

\* ... and every step keeps it, if events wait for the Resume.
LEMMA IInvInductive ==
  ASSUME QuietReconnect, TypeInv, TypeInv', IInv, [Next]_vars
  PROVE  IInv'
<1>1. CASE BrowserOpen
  BY <1>1, OpenKeepsInv
<1>2. CASE BrowserReceive
  BY <1>2, ReceiveKeepsInv
<1>3. CASE BrowserTick
  BY <1>3, TickKeepsInv
<1>4. CASE EventSent
  BY <1>4, EventKeepsInv
<1>5. CASE Attach
  BY <1>5, AttachKeepsInv
<1>6. CASE SendResume
  BY <1>6, SendResumeKeepsInv
<1>7. CASE DaemonReceive
  BY <1>7, DaemonReceiveKeepsInv
<1>8. CASE StartConsumer \/ GateTimeout \/ Disconnect \/ UNCHANGED vars
  BY <1>8, HandlerKeepsInv
<1> QED
  BY <1>1, <1>2, <1>3, <1>4, <1>5, <1>6, <1>7, <1>8 DEF Next

\* So it always holds.
LEMMA IInvHolds == QuietReconnect => (Spec => [](TypeInv /\ IInv))
<1>1. Init => TypeInv /\ IInv
  BY TypeInvInductive, IInvInit
<1>2. QuietReconnect /\ TypeInv /\ IInv /\ [Next]_vars => TypeInv' /\ IInv'
  BY TypeInvInductive, IInvInductive
<1>3. SUFFICES ASSUME QuietReconnect PROVE Spec => [](TypeInv /\ IInv)
  OBVIOUS
<1>4. TypeInv /\ IInv /\ [Next]_vars => (TypeInv /\ IInv)'
  BY <1>2, <1>3
<1> QED
  BY <1>1, <1>4, PTL DEF Spec

\* A Critical frame is never lost to a reconnect, for any number of them, any
\* window, any message length: it has been given to the browser, or the send
\* buffer still holds it.
THEOREM CriticalFramesKept ==
  ASSUME QuietReconnect
  PROVE  Spec => []CriticalKept
<1>1. TypeInv /\ IInv => CriticalKept
  <2>1. SUFFICES ASSUME TypeInv, IInv, NEW d \in 1 .. Len(log[Daemon]), IsCritical(d)
                 PROVE  d \in Seen \cup Buffered
    BY DEF CriticalKept
  <2>2. PICK m \in Seq(Nat) : Inv(m)
    BY <2>1 DEF IInv
  <2>3. CASE \A s \in 1 .. Len(m) : m[s] # d
    BY <2>1, <2>2, <2>3 DEF Inv, GoneIsSeen
  <2>4. CASE \E s \in 1 .. Len(m) : m[s] = d
    <3>1. PICK s \in 1 .. Len(m) : m[s] = d
      BY <2>4
    <3>2. CASE s \in DOMAIN send_buffer[Daemon]
      <4>1. send_buffer[Daemon][s] = log[Daemon][d]
        BY <2>2, <3>1, <3>2 DEF Inv, DaemonInv, Numbered
      <4>2. log[Daemon][d].data = d
        BY <2>1 DEF IInv, SeenInv
      <4> QED
        BY <3>2, <4>1, <4>2 DEF Buffered
    <3>3. CASE s \notin DOMAIN send_buffer[Daemon]
      BY <2>1, <2>2, <3>1, <3>3 DEF Inv, GoneIsSeen
    <3> QED
      BY <3>2, <3>3
  <2> QED
    BY <2>3, <2>4
<1> QED
  BY <1>1, IInvHolds, PTL

\* The browser is given no frame before the Critical frames handed over
\* earlier, however often the link is replaced, replayed or renumbered.
THEOREM NoCriticalFrameSkipped ==
  ASSUME QuietReconnect
  PROVE  Spec => []NoCriticalSkipped
<1>1. TypeInv /\ IInv => NoCriticalSkipped
  BY DEF IInv, SeenInv
<1> QED
  BY <1>1, IInvHolds, PTL

\* No ack runs ahead of the numbers given out, also across a restart of the
\* numbering: handle_ack never drops a frame the browser was not given.
THEOREM AcksNotAhead ==
  ASSUME QuietReconnect
  PROVE  Spec => []AckNotAhead
<1>1. TypeInv /\ IInv => AckNotAhead
  <2>1. SUFFICES ASSUME TypeInv, IInv PROVE AckNotAhead
    OBVIOUS
  <2>2. PICK m \in Seq(Nat) : Inv(m)
    BY <2>1 DEF IInv
  <2>3. Len(m) \in Nat /\ next_seq[Daemon] \in Nat /\ Len(m) = next_seq[Daemon] - 1
    BY <2>1, <2>2, StateTypes DEF Inv, DaemonInv, Numbers
  <2>4. last_ack_received[Daemon] \in Nat /\ last_ack_received[Daemon] <= Len(m)
    BY <2>1, <2>2, StateTypes DEF Inv, DaemonInv
  <2>5. ASSUME NEW i \in DOMAIN wire[Daemon]
        PROVE  wire[Daemon][i].ack_seq \in 0 .. Len(m)
    BY <2>2 DEF Inv, AcksInv, Covered
  <2> QED
    BY <2>3, <2>4, <2>5 DEF AckNotAhead
<1> QED
  BY <1>1, IInvHolds, PTL

=============================================================================
