----------------------- MODULE ReliableChannel_proofs -----------------------
(***************************************************************************)
(* Lemmas about the operators ReliableChannel is built from: what each     *)
(* method does to a buffer, for any buffer and any constants.  They know   *)
(* nothing of the network and are cited by the proofs about the modules    *)
(* that compose the two ends.                                              *)
(***************************************************************************)
EXTENDS ReliableChannel, SequenceTheorems, WellFoundedInduction, TLAPS

\* The channel has two ends, and Other exchanges them.
LEMMA OtherPeer ==
  ASSUME NEW p \in Peer
  PROVE  /\ Other(p) \in Peer
         /\ Other(p) # p
         /\ Other(Other(p)) = p
         /\ \A q \in Peer : q = p \/ q = Other(p)
<1>1. PICK a \in Peer, b \in Peer : a # b /\ Peer = {a, b}
  BY PeerAssumption
<1>2. \A r \in Peer : \E q \in Peer : q # r
  BY <1>1
<1>3. \A r \in Peer : Other(r) \in Peer /\ Other(r) # r
  BY <1>2 DEF Other
<1> QED
  BY <1>1, <1>3

\* EndOfRun is defined whenever the next expected frame is held: the numbers
\* held end somewhere, so the gap-free run that starts there ends too.
LEMMA EndOfRunProperties ==
  ASSUME NEW lc \in Nat, NEW L \in Nat, NEW S, S \subseteq 1 .. L, lc + 1 \in S
  PROVE  /\ EndOfRun(lc, S) \in S
         /\ EndOfRun(lc, S) \in Nat
         /\ EndOfRun(lc, S) > lc
         /\ (lc + 1) .. EndOfRun(lc, S) \subseteq S
<1> DEFINE T == {n \in Nat : n > lc /\ n + 1 \notin S}
<1>1. T # {}
  <2>1. L \in T
    OBVIOUS
  <2> QED
    BY <2>1
<1>2. \E m \in T : \A n \in T : ~(<<n, m>> \in OpToRel(<, Nat))
  <2>1. T \subseteq Nat
    OBVIOUS
  <2> HIDE DEF T
  <2> QED
    BY <1>1, <2>1, WFMin, NatLessThanWellFounded
<1>3. PICK m \in T : \A n \in T : ~(n < m)
  BY <1>2 DEF OpToRel
<1>4. (lc + 1) .. m \subseteq S
  <2>1. SUFFICES ASSUME NEW k \in (lc + 1) .. m PROVE k \in S
    OBVIOUS
  <2>2. CASE k = lc + 1
    BY <2>2
  <2>3. CASE k # lc + 1
    <3>1. k - 1 \in Nat /\ k - 1 > lc /\ k - 1 < m
      BY <2>3
    <3>2. k - 1 \notin T
      BY <3>1, <1>3
    <3> QED
      BY <3>1, <3>2
  <2> QED
    BY <2>2, <2>3
<1>5. m \in S /\ m > lc /\ m + 1 \notin S
  BY <1>4
<1>6. \E n \in S : n > lc /\ (lc + 1) .. n \subseteq S /\ n + 1 \notin S
  BY <1>4, <1>5
<1>7. /\ EndOfRun(lc, S) \in S
      /\ EndOfRun(lc, S) > lc
      /\ (lc + 1) .. EndOfRun(lc, S) \subseteq S
  BY <1>6 DEF EndOfRun
<1>8. S \subseteq Nat
  OBVIOUS
<1> HIDE DEF T
<1> QED
  BY <1>7, <1>8

\* A message of n frames is a sequence of n entries of the given priority.
LEMMA MessageEntriesType ==
  ASSUME NEW p \in Peer, log \in [Peer -> Seq(Entry)],
         NEW n \in Nat, NEW pri \in Priority
  PROVE  /\ MessageEntries(p, n, pri) \in Seq(Entry)
         /\ Len(MessageEntries(p, n, pri)) = n
         /\ \A i \in 1 .. n : MessageEntries(p, n, pri)[i] \in Entry
<1>1. \A i \in 1 .. n : ChunkTag(i, n) \in Tag
  BY DEF ChunkTag, Tag
<1>2. Len(log[p]) \in Nat
  OBVIOUS
<1>3. \A i \in 1 .. n : MessageEntries(p, n, pri)[i] \in Entry
  BY <1>1, <1>2 DEF MessageEntries, Entry
<1>4. MessageEntries(p, n, pri)
        = [i \in 1 .. n |-> MessageEntries(p, n, pri)[i]]
  BY DEF MessageEntries
<1>5. MessageEntries(p, n, pri) \in [1 .. n -> Entry]
  BY <1>3, <1>4
<1> QED
  BY <1>3, <1>5

\* Enforcing the limit only ever removes entries, and no Critical one beyond
\* the acknowledged ones: such a frame is itself where the loop gives up.
LEMMA EnforceLimitProperties ==
  ASSUME NEW buf, IsBuffer(buf), NEW ack \in Nat
  PROVE  /\ IsBuffer(EnforceLimit(buf, ack))
         /\ DOMAIN EnforceLimit(buf, ack) \subseteq DOMAIN buf
         /\ \A s \in DOMAIN EnforceLimit(buf, ack) :
              EnforceLimit(buf, ack)[s] = buf[s]
         /\ \A s \in DOMAIN buf :
              buf[s].priority = "Critical" /\ s > ack
                => s \in DOMAIN EnforceLimit(buf, ack)
<1> DEFINE kept == {s \in DOMAIN buf :
      \/ Cardinality({t \in DOMAIN buf : t >= s}) <= MaxSendBuffer
      \/ \E t \in DOMAIN buf : t <= s /\ ~Evictable(buf[t], t, ack)}
<1>1. EnforceLimit(buf, ack) = [s \in kept |-> buf[s]]
  BY DEF EnforceLimit
<1>2. \A s \in DOMAIN buf :
        buf[s].priority = "Critical" /\ s > ack => s \in kept
  <2>1. SUFFICES ASSUME NEW s \in DOMAIN buf,
                        buf[s].priority = "Critical", s > ack
                 PROVE  \E t \in DOMAIN buf :
                          t <= s /\ ~Evictable(buf[t], t, ack)
    OBVIOUS
  <2>2. s \in Nat
    BY DEF IsBuffer
  <2> QED
    BY <2>1, <2>2 DEF Evictable
<1>3. kept \subseteq DOMAIN buf
  OBVIOUS
<1> HIDE DEF kept
<1>4. IsBuffer(EnforceLimit(buf, ack))
  BY <1>1, <1>3 DEF IsBuffer
<1> QED
  BY <1>1, <1>2, <1>3, <1>4

\* Appending entries under the numbers that follow leaves a buffer.
LEMMA AppendedIsBuffer ==
  ASSUME NEW buf, IsBuffer(buf), NEW from \in Nat \ {0}, NEW es \in Seq(Entry)
  PROVE  IsBuffer(Appended(buf, from, es))
<1> DEFINE all == DOMAIN buf \cup (from .. from + Len(es) - 1)
           at(s) == IF s \in DOMAIN buf THEN buf[s] ELSE es[s - from + 1]
<1>1. Appended(buf, from, es) = [s \in all |-> at(s)]
  BY DEF Appended
<1>2. all \subseteq Nat
  BY DEF IsBuffer
<1>3. \A s \in all : at(s) \in Entry
  <2>1. SUFFICES ASSUME NEW s \in all PROVE at(s) \in Entry
    OBVIOUS
  <2>2. CASE s \in DOMAIN buf
    BY <2>2 DEF IsBuffer
  <2>3. CASE s \notin DOMAIN buf
    <3>1. s - from + 1 \in 1 .. Len(es)
      BY <2>3
    <3> QED
      BY <2>3, <3>1, ElementOfSeq
  <2> QED
    BY <2>2, <2>3
<1> HIDE DEF all, at
<1> QED
  BY <1>1, <1>2, <1>3 DEF IsBuffer

\* Dropping what an ack covers keeps exactly the entries beyond it.
LEMMA DropAckedProperties ==
  ASSUME NEW buf, IsBuffer(buf), NEW a \in Nat
  PROVE  /\ IsBuffer(DropAcked(buf, a))
         /\ DOMAIN DropAcked(buf, a) = {s \in DOMAIN buf : s > a}
         /\ \A s \in DOMAIN DropAcked(buf, a) : DropAcked(buf, a)[s] = buf[s]
BY DEF DropAcked, IsBuffer

\* The entries of consecutive numbers, taken out of a buffer, are a sequence.
LEMMA RunProperties ==
  ASSUME NEW held, NEW lc \in Nat, NEW top \in Nat, top > lc,
         \A t \in (lc + 1) .. top : held[t] \in Entry
  PROVE  /\ [i \in 1 .. top - lc |-> held[lc + i]] \in Seq(Entry)
         /\ Len([i \in 1 .. top - lc |-> held[lc + i]]) = top - lc
<1> DEFINE run == [i \in 1 .. top - lc |-> held[lc + i]]
<1>1. \A i \in 1 .. top - lc : lc + i \in (lc + 1) .. top
  OBVIOUS
<1>2. run \in [1 .. top - lc -> Entry]
  BY <1>1
<1>3. top - lc \in Nat
  OBVIOUS
<1> HIDE DEF run
<1>4. run \in Seq(Entry) /\ Len(run) = top - lc
  BY <1>2, <1>3
<1> QED
  BY <1>4 DEF run

\* Concatenation, index by index.
LEMMA ConcatPointwise ==
  ASSUME NEW E, NEW s \in Seq(E), NEW t \in Seq(E)
  PROVE  /\ s \o t \in Seq(E)
         /\ Len(s) \in Nat
         /\ Len(s \o t) = Len(s) + Len(t)
         /\ \A i \in 1 .. Len(s) : (s \o t)[i] = s[i]
         /\ \A i \in 1 .. Len(t) : (s \o t)[Len(s) + i] = t[i]
OBVIOUS

\* For sequences, IsPrefix is agreement on every index of the shorter one.
LEMMA PrefixPointwise ==
  ASSUME NEW E, NEW s \in Seq(E), NEW t \in Seq(E), Len(s) <= Len(t),
         \A i \in 1 .. Len(s) : s[i] = t[i]
  PROVE  IsPrefix(s, t) /\ s = SubSeq(t, 1, Len(s))
<1>1. SubSeq(t, 1, Len(s)) \in Seq(E) /\ Len(SubSeq(t, 1, Len(s))) = Len(s)
      /\ \A i \in 1 .. Len(s) : SubSeq(t, 1, Len(s))[i] = t[i]
  OBVIOUS
<1>2. s = SubSeq(t, 1, Len(s))
  BY <1>1, SeqEqual
<1>3. SubSeq(s, 1, Len(s)) = s
  BY SubSeqFull
<1> QED
  BY <1>2, <1>3 DEF IsPrefix

\* Induction over the numbers, as a fact about sets of them.
LEMMA NumberInduction ==
  ASSUME NEW T, T \subseteq Nat, 0 \in T, \A n \in T : n + 1 \in T
  PROVE  T = Nat
<1>1. SUFFICES ASSUME NEW k \in Nat, k \notin T PROVE FALSE
  OBVIOUS
<1> DEFINE out == Nat \ T
<1>2. \E m \in out : \A n \in out : ~(<<n, m>> \in OpToRel(<, Nat))
  <2>1. out \subseteq Nat /\ out # {}
    BY <1>1
  <2> HIDE DEF out
  <2> QED
    BY <2>1, WFMin, NatLessThanWellFounded
<1>3. PICK m \in out : \A n \in out : ~(n < m)
  BY <1>2 DEF OpToRel
<1>4. m # 0 /\ m - 1 \in Nat /\ m - 1 < m
  OBVIOUS
<1>5. m - 1 \in T
  BY <1>3, <1>4
<1> QED
  BY <1>4, <1>5

----------------------------------------------------------------------------
(* process_chunk over a run of frames *)

\* What AcceptRun computes of a run.
ChunkFold(base, run) == FoldLeft(ProcessChunk, base, run)

\* The states it goes through, frame by frame.
ChunkSteps(st, base, run, n) ==
  /\ st[0] = base
  /\ \A k \in 1 .. n : st[k] = ProcessChunk(st[k - 1], run[k])
  /\ ChunkFold(base, run) = st[n]

\* The equation it stands for, on the indexes D.
FoldsOver(g, base, run, D) ==
  g = [s \in SUBSET D |->
         IF s = {} THEN base
         ELSE ProcessChunk(g[s \ {Max(s)}], run[Max(s)])]

\* The equation has a solution, built up index by index.
LEMMA FoldChunksDefined ==
  ASSUME NEW base, NEW run, NEW n \in Nat
  PROVE  \E g : FoldsOver(g, base, run, 1 .. n)
<1> USE DEF FoldsOver
<1> DEFINE Solves(g, k) == FoldsOver(g, base, run, 1 .. k)
           T == {k \in Nat : \E g : Solves(g, k)}
<1>1. 0 \in T
  <2>1. Solves([s \in SUBSET (1 .. 0) |-> base], 0)
    OBVIOUS
  <2> QED
    BY <2>1
<1>2. ASSUME NEW k \in T PROVE k + 1 \in T
  <2>1. PICK g : Solves(g, k)
    OBVIOUS
  <2> DEFINE h == [s \in SUBSET (1 .. k + 1) |->
                     IF k + 1 \in s THEN ProcessChunk(g[s \ {k + 1}], run[k + 1])
                     ELSE g[s]]
  <2>2. ASSUME NEW s \in SUBSET (1 .. k + 1)
        PROVE  h[s] = IF s = {} THEN base
                      ELSE ProcessChunk(h[s \ {Max(s)}], run[Max(s)])
    <3>1. CASE k + 1 \in s
      <4>1. \A y \in s : k + 1 >= y
        OBVIOUS
      <4>2. \A x \in s : (\A y \in s : x >= y) => x = k + 1
        BY <3>1, <4>1
      <4>3. Max(s) = k + 1
        BY <3>1, <4>1, <4>2 DEF Max
      <4>4. /\ s \ {k + 1} \in SUBSET (1 .. k + 1)
            /\ k + 1 \notin s \ {k + 1}
        OBVIOUS
      <4>5. h[s \ {k + 1}] = g[s \ {k + 1}]
        BY <4>4
      <4> QED
        BY <3>1, <4>3, <4>5
    <3>2. CASE k + 1 \notin s
      <4>1. s \in SUBSET (1 .. k)
        BY <3>2
      <4>2. g[s] = IF s = {} THEN base
                   ELSE ProcessChunk(g[s \ {Max(s)}], run[Max(s)])
        BY <2>1, <4>1
      <4>3. h[s] = g[s]
        BY <3>2
      <4>4. h[s \ {Max(s)}] = g[s \ {Max(s)}]
        BY <3>2
      <4> QED
        BY <4>2, <4>3, <4>4
    <3> QED
      BY <3>1, <3>2
  <2>3. Solves(h, k + 1)
    <3>1. h = [s \in SUBSET (1 .. k + 1) |-> h[s]]
      OBVIOUS
    <3> HIDE DEF h
    <3> QED
      BY <2>2, <3>1
  <2> HIDE DEF h, FoldsOver
  <2>4. k + 1 \in Nat /\ \E f : Solves(f, k + 1)
    BY <2>3
  <2> QED
    BY <2>4
<1>3. T = Nat
  <2>1. T \subseteq Nat
    OBVIOUS
  <2> HIDE DEF T
  <2> QED
    BY <1>1, <1>2, <2>1, NumberInduction
<1> QED
  BY <1>3

\* Folding process_chunk over a run goes through the run frame by frame.
LEMMA FoldChunks ==
  ASSUME NEW base, NEW n \in Nat, NEW run, DOMAIN run = 1 .. n
  PROVE  \E st : ChunkSteps(st, base, run, n)
<1> DEFINE f == CHOOSE g : FoldsOver(g, base, run, DOMAIN run)
<1>1. ChunkFold(base, run) = f[1 .. n]
  BY DEF ChunkFold, FoldLeft, MapThenFoldSet, FoldsOver
<1>2. FoldsOver(f, base, run, DOMAIN run)
  BY FoldChunksDefined
<1> HIDE DEF f
<1> DEFINE st == [k \in 0 .. n |-> f[1 .. k]]
<1>3. st[0] = base
  <2>1. {} \in SUBSET DOMAIN run /\ 1 .. 0 = {}
    OBVIOUS
  <2>2. f[{}] = base
    BY <1>2, <2>1 DEF FoldsOver
  <2> QED
    BY <2>1, <2>2
<1>4. ASSUME NEW k \in 1 .. n PROVE st[k] = ProcessChunk(st[k - 1], run[k])
  <2>0. k \in Nat /\ k >= 1 /\ k <= n /\ k - 1 \in 0 .. n /\ k \in 0 .. n
    OBVIOUS
  <2>1. 1 .. k \in SUBSET DOMAIN run /\ 1 .. k # {}
    <3>1. 1 .. k \subseteq 1 .. n /\ k \in 1 .. k
      BY <2>0
    <3> QED
      BY <3>1
  <2>2. f[1 .. k] = ProcessChunk(f[(1 .. k) \ {Max(1 .. k)}], run[Max(1 .. k)])
    BY <1>2, <2>1 DEF FoldsOver
  <2>3. /\ k \in 1 .. k
        /\ \A x \in 1 .. k : (\A y \in 1 .. k : x >= y) <=> x = k
    BY <2>0
  <2>4. Max(1 .. k) = k
    BY <2>3 DEF Max
  <2>5. (1 .. k) \ {k} = 1 .. k - 1
    BY <2>0
  <2> QED
    BY <2>0, <2>2, <2>4, <2>5
<1> HIDE DEF st
<1>5. ChunkFold(base, run) = st[n]
  BY <1>1 DEF st
<1>6. ChunkSteps(st, base, run, n)
  BY <1>3, <1>4, <1>5 DEF ChunkSteps
<1> QED
  BY <1>6

=============================================================================
