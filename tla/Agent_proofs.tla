---------------------------- MODULE Agent_proofs ----------------------------
(***************************************************************************)
(* Theorems about what reaches the agent: hive messages and the texts and  *)
(* keys of its rooms, what is said to it, and what it reads of its own     *)
(* past.                                                                   *)
(***************************************************************************)
EXTENDS HiveDelivery, RoomKeys, AgentInput, SessionMemory,
        FiniteSetTheorems, NaturalsInduction, SequenceTheorems,
        WellFoundedInduction, TLAPS

-----------------------------------------------------------------------------
(***************************************************************************)
(* The hive poll passes over no message, for any number of servers and     *)
(* messages and any size of the ring of fingerprints.                      *)
(*                                                                         *)
(* The poll passes over a message whose fingerprint is in the ring.  It is *)
(* there because a stream that marked it delivered it or still has it in   *)
(* its hands (MarksTold), or because the poll itself is about to deliver   *)
(* it.  What is left of a batch follows last_seen_id without a gap         *)
(* (BatchFollows), so moving on means moving on by one.                    *)
(***************************************************************************)

\* What the argument needs of the types: streams and handlers carry ids of
\* messages that are stored.
HiveTypes ==
  /\ hive \in Seq(Fingerprint) /\ marks \in Seq(Fingerprint)
  /\ injected \in Seq(Nat \X (Server \cup {"poll"}))
  /\ pushed \in [Server -> Seq(DOMAIN hive)]
  /\ handling \in [Server -> Nat] /\ polling \in Nat
  /\ \A s \in Server : handling[s] # 0 => handling[s] \in DOMAIN hive
  /\ seed \in Nat /\ last_seen_id \in 0 .. Len(hive)

\* What is left of a batch are the ids after last_seen_id, in order; the poll
\* decrypts the first of them.
BatchFollows ==
  /\ fetched \in Seq(DOMAIN hive)
  /\ \A i \in DOMAIN fetched : fetched[i] = last_seen_id + i
  /\ poll = "seeding" => fetched = <<>> /\ polling = 0
  /\ polling # 0 => fetched # <<>> /\ polling = Head(fetched)

\* Message k was delivered, was dropped, or is in the hands of a stream.
Handed(k) ==
  \/ \E i \in DOMAIN injected : injected[i][1] = k
  \/ k \in dropped
  \/ \E s \in Server : handling[s] = k

Told(f) == \E k \in DOMAIN hive : hive[k] = f /\ Handed(k)

\* A fingerprint is in the ring because some message of it was delivered or is
\* about to be.
MarksTold ==
  \A i \in DOMAIN marks :
    Told(marks[i]) \/ (polling # 0 /\ hive[polling] = marks[i])

HiveIInv == HiveTypes /\ BatchFollows /\ MarksTold /\ SeenIsAccounted

LEMMA ToldIsAccounted == \A m : Accounted(m) <=> Told(hive[m])
BY DEF Accounted, Told, Handed

LEMMA HiveStart == HiveInit => HiveIInv
<1> SUFFICES ASSUME HiveInit PROVE HiveIInv
  OBVIOUS
<1>1. /\ hive = <<>> /\ marks = <<>> /\ injected = <<>> /\ fetched = <<>>
      /\ pushed = [s \in Server |-> <<>>]
  BY DEF HiveInit
<1>2. DOMAIN hive = {} /\ DOMAIN marks = {} /\ DOMAIN fetched = {}
  BY <1>1
<1>3. HiveTypes
  <2>1. \A S : <<>> \in Seq(S)
    BY EmptySeq
  <2>2. pushed \in [Server -> Seq(DOMAIN hive)]
    BY <1>1, <2>1
  <2> QED
    BY <1>1, <2>1, <2>2 DEF HiveInit, HiveTypes
<1>4. BatchFollows
  BY <1>1, <1>2, EmptySeq DEF HiveInit, BatchFollows
<1> QED
  BY <1>2, <1>3, <1>4 DEF HiveIInv, MarksTold, SeenIsAccounted

(* What stays as it was *)

\* What was told stays told while the hands of the streams are emptied into
\* deliveries only.
LEMMA StaysTold ==
  ASSUME NEW f, Told(f),
         \A k \in DOMAIN hive : k \in DOMAIN hive' /\ hive'[k] = hive[k],
         \A k \in DOMAIN hive : Handed(k) => Handed(k)'
  PROVE  Told(f)'
BY DEF Told

\* A step that touches neither messages, nor deliveries, nor the poll, and takes
\* from streams at most what they carry.
LEMMA ElsewhereKeepsHive ==
  ASSUME HiveIInv, UNCHANGED <<hive, marks, handling>>, UNCHANGED pollVars,
         UNCHANGED sinkVars, pushed' \in [Server -> Seq(DOMAIN hive)]
  PROVE  HiveIInv'
BY DEF HiveIInv, HiveTypes, BatchFollows, MarksTold, Told, Handed, SeenIsAccounted,
       Accounted, pollVars, sinkVars

LEMMA InjectHands ==
  ASSUME HiveTypes, NEW k \in Nat, NEW by \in Server \cup {"poll"}, Inject(k, by)
  PROVE  /\ injected' \in Seq(Nat \X (Server \cup {"poll"}))
         /\ (\E i \in DOMAIN injected' : injected'[i][1] = k) \/ k \in dropped'
         /\ \A i \in DOMAIN injected : \E j \in DOMAIN injected' :
              injected'[j][1] = injected[i][1]
         /\ dropped \subseteq dropped'
<1>1. CASE subscriber
  <2> DEFINE e == <<k, by>>
  <2>1. injected' = Append(injected, e) /\ dropped' = dropped
    BY <1>1 DEF Inject
  <2>2. e \in Nat \X (Server \cup {"poll"}) /\ e[1] = k
    OBVIOUS
  <2> HIDE DEF e
  <2>3. /\ injected' \in Seq(Nat \X (Server \cup {"poll"}))
        /\ Len(injected') = Len(injected) + 1
        /\ \A i \in 1 .. Len(injected) : injected'[i] = injected[i]
        /\ injected'[Len(injected) + 1] = e
    BY <2>1, <2>2, AppendProperties DEF HiveTypes
  <2>4. /\ DOMAIN injected = 1 .. Len(injected) /\ Len(injected) \in Nat
        /\ DOMAIN injected' = 1 .. Len(injected) + 1
    BY <2>3, LenProperties DEF HiveTypes
  <2>5. Len(injected) + 1 \in DOMAIN injected'
    BY <2>4
  <2>6. \A i \in DOMAIN injected : i \in DOMAIN injected' /\ injected'[i] = injected[i]
    BY <2>3, <2>4
  <2> QED
    BY <2>1, <2>2, <2>3, <2>5, <2>6
<1>2. CASE ~subscriber
  BY <1>2 DEF Inject, HiveTypes
<1> QED
  BY <1>1, <1>2

\* The fingerprint of m is among the marks afterwards, and no other is new.
LEMMA MarkedOnce ==
  ASSUME HiveTypes, NEW m \in DOMAIN hive, CheckAndMark(m)
  PROVE  /\ marks' \in Seq(Fingerprint)
         /\ \A i \in DOMAIN marks' :
              marks'[i] = hive[m] \/ \E j \in DOMAIN marks : marks'[i] = marks[j]
<1>1. hive[m] \in Fingerprint
  BY ElementOfSeq, LenProperties DEF HiveTypes
<1>2. CASE marks' = marks
  BY <1>2 DEF HiveTypes
<1>3. CASE marks' = Append(marks, hive[m])
  <2>1. /\ marks' \in Seq(Fingerprint) /\ Len(marks') = Len(marks) + 1
        /\ \A i \in 1 .. Len(marks) : marks'[i] = marks[i]
        /\ marks'[Len(marks) + 1] = hive[m]
    BY <1>1, <1>3, AppendProperties DEF HiveTypes
  <2>2. /\ DOMAIN marks = 1 .. Len(marks) /\ Len(marks) \in Nat
        /\ DOMAIN marks' = 1 .. Len(marks) + 1
    BY <2>1, LenProperties DEF HiveTypes
  <2> QED
    BY <2>1, <2>2
<1> QED
  BY <1>2, <1>3 DEF CheckAndMark

LEMMA RecentIsTold ==
  ASSUME HiveIInv, polling = 0, NEW f \in Recent
  PROVE  Told(f)
BY DEF HiveIInv, MarksTold, Recent

(* The steps *)

\* A message is taken from the stream into the handler's hands, and marked.
LEMMA HandleKeepsHive ==
  ASSUME HiveIInv, NEW s \in Server, HandleHive(s)
  PROVE  HiveIInv'
<1> PICK m : m = Head(pushed[s])
  OBVIOUS
<1>1. /\ handling[s] = 0 /\ pushed[s] # <<>> /\ CheckAndMark(m)
      /\ handling' = [handling EXCEPT ![s] = m]
      /\ pushed' = [pushed EXCEPT ![s] = Tail(@)]
      /\ UNCHANGED <<hive, fetched, poll, polling, seed, last_seen_id, injected, dropped>>
  BY DEF HandleHive, pollVars, sinkVars
<1>2. pushed[s] \in Seq(DOMAIN hive)
  BY DEF HiveIInv, HiveTypes
<1>3. m \in DOMAIN hive /\ Tail(pushed[s]) \in Seq(DOMAIN hive)
  BY <1>1, <1>2, HeadTailProperties
<1>4. m \in Nat
  BY <1>3, LenProperties DEF HiveIInv, HiveTypes
<1>5. /\ marks' \in Seq(Fingerprint)
      /\ \A i \in DOMAIN marks' :
           marks'[i] = hive[m] \/ \E j \in DOMAIN marks : marks'[i] = marks[j]
  BY <1>1, <1>3, MarkedOnce DEF HiveIInv
<1>6. HiveTypes'
  <2>1. pushed' \in [Server -> Seq(DOMAIN hive')]
    BY <1>1, <1>3 DEF HiveIInv, HiveTypes
  <2> QED
    BY <1>1, <1>3, <1>4, <1>5, <2>1 DEF HiveIInv, HiveTypes
<1>7. \A k \in DOMAIN hive : Handed(k) => Handed(k)'
  <2>1. ASSUME NEW k \in DOMAIN hive, Handed(k) PROVE Handed(k)'
    <3>1. k # 0
      BY LenProperties DEF HiveIInv, HiveTypes
    <3>2. ASSUME NEW r \in Server, handling[r] = k PROVE handling'[r] = k
      BY <1>1, <3>1, <3>2 DEF HiveIInv, HiveTypes
    <3> QED
      BY <1>1, <2>1, <3>2 DEF Handed
  <2> QED
    BY <2>1
<1>8. Handed(m)'
  BY <1>1 DEF Handed, HiveIInv, HiveTypes
<1>9. \A f : Told(f) => Told(f)'
  BY <1>1, <1>7, StaysTold
<1>10. Told(hive[m])'
  BY <1>1, <1>3, <1>8 DEF Told
<1>11. MarksTold'
  BY <1>1, <1>5, <1>9, <1>10 DEF HiveIInv, MarksTold
<1>12. SeenIsAccounted'
  <2>1. ASSUME NEW n \in DOMAIN hive, Accounted(n) PROVE Accounted(n)'
    <3>1. PICK l \in DOMAIN hive : hive[l] = hive[n] /\ Handed(l)
      BY <2>1 DEF Accounted, Handed
    <3>2. Handed(l)'
      BY <1>7, <3>1
    <3> QED
      BY <1>1, <3>1, <3>2 DEF Accounted, Handed
  <2> QED
    BY <1>1, <2>1 DEF HiveIInv, SeenIsAccounted
<1>13. BatchFollows'
  BY <1>1 DEF HiveIInv, BatchFollows
<1> QED
  BY <1>6, <1>11, <1>12, <1>13 DEF HiveIInv

\* What the handler had in its hands is delivered or dropped.
LEMMA DecryptedKeepsHive ==
  ASSUME HiveIInv, NEW s \in Server, HiveDecrypted(s)
  PROVE  HiveIInv'
<1>1. /\ handling[s] # 0 /\ Inject(handling[s], s)
      /\ handling' = [handling EXCEPT ![s] = 0]
      /\ UNCHANGED <<hive, pushed, marks, fetched, poll, polling, seed, last_seen_id>>
  BY DEF HiveDecrypted, pollVars
<1>2. /\ injected' \in Seq(Nat \X (Server \cup {"poll"}))
      /\ (\E i \in DOMAIN injected' : injected'[i][1] = handling[s])
           \/ handling[s] \in dropped'
      /\ \A i \in DOMAIN injected : \E j \in DOMAIN injected' :
           injected'[j][1] = injected[i][1]
      /\ dropped \subseteq dropped'
  BY <1>1, InjectHands DEF HiveIInv, HiveTypes
<1>3. \A k \in DOMAIN hive : Handed(k) => Handed(k)'
  <2>1. ASSUME NEW k, NEW r \in Server, handling[r] = k PROVE Handed(k)'
    BY <1>1, <1>2, <2>1 DEF Handed, HiveIInv, HiveTypes
  <2> QED
    BY <1>2, <2>1 DEF Handed
<1>4. \A f : Told(f) => Told(f)'
  BY <1>1, <1>3, StaysTold
<1>5. HiveTypes'
  BY <1>1, <1>2 DEF HiveIInv, HiveTypes
<1>6. MarksTold' /\ BatchFollows'
  BY <1>1, <1>4 DEF HiveIInv, MarksTold, BatchFollows
<1>7. SeenIsAccounted'
  <2>1. ASSUME NEW m \in DOMAIN hive, Accounted(m) PROVE Accounted(m)'
    BY <1>1, <1>3, <2>1 DEF Accounted, Handed
  <2> QED
    BY <1>1, <2>1 DEF HiveIInv, SeenIsAccounted
<1> QED
  BY <1>5, <1>6, <1>7 DEF HiveIInv

\* The poll begins where it looked: nothing is behind it.
LEMMA SeedKeepsHive ==
  ASSUME HiveIInv, PollSeeds
  PROVE  HiveIInv'
<1>1. /\ poll = "seeding" /\ poll' = "waiting" /\ seed' = last_seen_id' /\ seed' \in Nat
      /\ UNCHANGED <<hive, marks, fetched, polling, pushed, handling, injected, dropped>>
  BY LenProperties DEF PollSeeds, streamVars, sinkVars, HiveIInv, HiveTypes
<1>2. fetched = <<>> /\ polling = 0
  BY <1>1 DEF HiveIInv, BatchFollows
<1>3. DOMAIN fetched = {}
  BY <1>2
<1>4. HiveTypes' /\ BatchFollows'
  <2>1. last_seen_id' \in 0 .. Len(hive')
    BY <1>1, LenProperties DEF PollSeeds, HiveIInv, HiveTypes
  <2>2. HiveTypes'
    BY <1>1, <2>1 DEF HiveIInv, HiveTypes
  <2>3. fetched' \in Seq(DOMAIN hive') /\ fetched' = <<>> /\ polling' = 0
    BY <1>1, <1>2, EmptySeq
  <2> QED
    BY <1>1, <1>3, <2>2, <2>3 DEF BatchFollows
<1>5. MarksTold'
  BY <1>1 DEF HiveIInv, MarksTold, Told, Handed
<1>6. SeenIsAccounted'
  <2>1. \A m \in DOMAIN hive : m \in Nat
    BY LenProperties DEF HiveIInv, HiveTypes
  <2> QED
    BY <1>1, <2>1 DEF SeenIsAccounted
<1> QED
  BY <1>4, <1>5, <1>6 DEF HiveIInv

LEMMA FetchKeepsHive ==
  ASSUME HiveIInv, PollFetches
  PROVE  HiveIInv'
<1>1. /\ poll = "waiting" /\ poll' = "batch" /\ fetched' = Missed /\ Missed # <<>>
      /\ UNCHANGED <<hive, marks, polling, seed, last_seen_id, pushed, handling, injected,
                     dropped>>
  BY DEF PollFetches, streamVars, sinkVars
<1> DEFINE n == Lesser(PollLimit, Len(hive) - last_seen_id)
<1>2. Len(hive) \in Nat /\ last_seen_id \in Nat /\ DOMAIN hive = 1 .. Len(hive)
  BY LenProperties DEF HiveIInv, HiveTypes
<1>3. n \in Int /\ n <= Len(hive) - last_seen_id
  BY <1>2, HiveDeliveryAssumption DEF Lesser
<1>4. Missed = [i \in 1 .. n |-> last_seen_id + i]
  BY DEF Missed
<1> HIDE DEF n
<1>5. \A i \in 1 .. n : last_seen_id + i \in DOMAIN hive
  BY <1>2, <1>3
<1>6. CASE n \in Nat
  <2>1. Missed \in Seq(DOMAIN hive) /\ DOMAIN Missed = 1 .. n
    BY <1>4, <1>5, <1>6
  <2>2. \A i \in DOMAIN Missed : Missed[i] = last_seen_id + i
    BY <1>4, <2>1
  <2>3. polling # 0 => polling = Head(Missed)
    <3>1. ASSUME polling # 0 PROVE polling = Head(Missed)
      <4>1. fetched # <<>> /\ polling = Head(fetched) /\ fetched \in Seq(DOMAIN hive)
        BY <3>1 DEF HiveIInv, BatchFollows
      <4>2. 1 \in DOMAIN fetched /\ Head(fetched) = fetched[1]
        BY <4>1, HeadTailProperties, EmptySeq, LenProperties
      <4>3. polling = last_seen_id + 1
        BY <4>1, <4>2 DEF HiveIInv, BatchFollows
      <4>4. 1 \in DOMAIN Missed /\ Head(Missed) = Missed[1]
        <5>1. n # 0
          <6>1. 1 .. 0 = {}
            OBVIOUS
          <6> QED
            BY <1>1, <1>4, <6>1
        <5> QED
          BY <1>1, <1>6, <2>1, <5>1, HeadTailProperties
      <4> QED
        BY <2>2, <4>3, <4>4
    <3> QED
      BY <3>1
  <2> QED
    BY <1>1, <2>1, <2>2, <2>3
    DEF HiveIInv, HiveTypes, BatchFollows, MarksTold, Told, Handed, SeenIsAccounted, Accounted
<1>7. CASE n \notin Nat
  <2>1. 1 .. n = {}
    BY <1>3, <1>7
  <2>2. Missed = <<>>
    BY <1>4, <2>1
  <2> QED
    BY <1>1, <2>2
<1> QED
  BY <1>6, <1>7

\* The rest of a batch follows the id passed over.
LEMMA RestFollows ==
  ASSUME HiveIInv, fetched # <<>>, NextOfBatch, PassesOver(Head(fetched))
  PROVE  /\ Head(fetched) \in DOMAIN hive /\ Head(fetched) = last_seen_id + 1
         /\ last_seen_id' = last_seen_id + 1
         /\ fetched' \in Seq(DOMAIN hive)
         /\ \A i \in DOMAIN fetched' : fetched'[i] = last_seen_id' + i
         /\ poll' # "seeding"
<1>1. fetched \in Seq(DOMAIN hive) /\ last_seen_id \in Nat
  BY DEF HiveIInv, HiveTypes, BatchFollows
<1>2. /\ Len(fetched) \in Nat \ {0} /\ DOMAIN fetched = 1 .. Len(fetched)
      /\ Head(fetched) = fetched[1] /\ Head(fetched) \in DOMAIN hive
  BY <1>1, HeadTailProperties, EmptySeq, LenProperties
<1>3. /\ fetched' \in Seq(DOMAIN hive) /\ Len(fetched') = Len(fetched) - 1
      /\ \A i \in 1 .. Len(fetched) - 1 : fetched'[i] = fetched[i + 1]
  BY <1>1, HeadTailProperties DEF NextOfBatch
<1>4. DOMAIN fetched' = 1 .. Len(fetched) - 1
  BY <1>3, LenProperties
<1>5. Head(fetched) = last_seen_id + 1 /\ last_seen_id' = last_seen_id + 1
  BY <1>1, <1>2 DEF HiveIInv, BatchFollows, PassesOver, Greater
<1>6. ASSUME NEW i \in DOMAIN fetched' PROVE fetched'[i] = last_seen_id' + i
  <2>1. i + 1 \in DOMAIN fetched /\ i \in Nat /\ fetched'[i] = fetched[i + 1]
    BY <1>2, <1>3, <1>4
  <2>2. fetched[i + 1] = last_seen_id + (i + 1)
    BY <2>1 DEF HiveIInv, BatchFollows
  <2> QED
    BY <1>1, <1>5, <2>1, <2>2
<1> QED
  BY <1>2, <1>3, <1>5, <1>6 DEF NextOfBatch

\* The id the poll moves on to is the next one: what it has behind it afterwards
\* is that id and what it had before.
LEMMA OneMoreSeen ==
  ASSUME HiveIInv, UNCHANGED <<hive, seed>>, last_seen_id' = last_seen_id + 1,
         \A k \in DOMAIN hive : Accounted(k) => Accounted(k)',
         NEW n, n = last_seen_id + 1, Accounted(n)'
  PROVE  SeenIsAccounted'
<1>1. \A m \in DOMAIN hive : m \in Nat
  BY LenProperties DEF HiveIInv, HiveTypes
<1>2. ASSUME NEW m \in DOMAIN hive, seed < m, m <= last_seen_id + 1
      PROVE  Accounted(m)'
  <2>1. CASE m = last_seen_id + 1
    BY <2>1
  <2>2. CASE m # last_seen_id + 1
    <3>1. m <= last_seen_id
      BY <1>1, <1>2, <2>2 DEF HiveIInv, HiveTypes
    <3> QED
      BY <1>2, <3>1 DEF HiveIInv, SeenIsAccounted
  <2> QED
    BY <2>1, <2>2
<1> QED
  BY <1>2 DEF SeenIsAccounted

\* A message is taken, and marked, or passed over because the ring knows it.
LEMMA CheckKeepsHive ==
  ASSUME HiveIInv, PollChecks
  PROVE  HiveIInv'
<1> PICK m : m = Head(fetched)
  OBVIOUS
<1>1. /\ polling = 0 /\ fetched # <<>> /\ CheckAndMark(m)
      /\ UNCHANGED <<hive, seed, pushed, handling, injected, dropped>>
  BY DEF PollChecks, streamVars, sinkVars
<1>2. m \in DOMAIN hive
  BY <1>1, HeadTailProperties DEF HiveIInv, BatchFollows
<1>3. m \in Nat \ {0}
  BY <1>2, LenProperties DEF HiveIInv, HiveTypes
<1>4. /\ marks' \in Seq(Fingerprint)
      /\ \A i \in DOMAIN marks' :
           marks'[i] = hive[m] \/ \E j \in DOMAIN marks : marks'[i] = marks[j]
  BY <1>1, <1>2, MarkedOnce DEF HiveIInv
<1>5. \A f : Told(f) => Told(f)'
  BY <1>1 DEF Told, Handed
<1>6. \A k : Accounted(k) => Accounted(k)'
  BY <1>1 DEF Accounted
<1>7. CASE PollTakes(m)
  <2>1. polling' = m /\ UNCHANGED <<poll, fetched, last_seen_id>>
    BY <1>7 DEF PollChecks
  <2>2. MarksTold'
    BY <1>1, <1>3, <1>4, <1>5, <2>1 DEF HiveIInv, MarksTold
  <2>3. poll # "seeding"
    BY DEF PollChecks
  <2>4. HiveTypes' /\ BatchFollows'
    BY <1>1, <1>3, <1>4, <2>1, <2>3 DEF HiveIInv, HiveTypes, BatchFollows
  <2>5. SeenIsAccounted'
    BY <1>1, <1>6, <2>1 DEF HiveIInv, SeenIsAccounted
  <2> QED
    BY <2>2, <2>4, <2>5 DEF HiveIInv
<1>8. CASE ~PollTakes(m)
  <2>1. NextOfBatch /\ PassesOver(m) /\ UNCHANGED polling /\ marks' = marks
    BY <1>8 DEF PollChecks, PollTakes, CheckAndMark
  <2>2. /\ m = last_seen_id + 1 /\ last_seen_id' = last_seen_id + 1
        /\ fetched' \in Seq(DOMAIN hive)
        /\ \A i \in DOMAIN fetched' : fetched'[i] = last_seen_id' + i
        /\ poll' # "seeding"
    BY <1>1, <2>1, RestFollows
  <2>3. Told(hive[m])
    BY <1>1, <1>8, RecentIsTold DEF PollTakes
  <2>4. Accounted(m)'
    BY <1>6, <2>3, ToldIsAccounted
  <2>5. SeenIsAccounted'
    BY <1>1, <1>6, <2>2, <2>4, OneMoreSeen
  <2>6. MarksTold'
    BY <1>1, <1>5, <2>1 DEF HiveIInv, MarksTold
  <2>7. HiveTypes' /\ BatchFollows'
    BY <1>1, <1>4, <2>1, <2>2 DEF HiveIInv, HiveTypes, BatchFollows
  <2> QED
    BY <2>5, <2>6, <2>7 DEF HiveIInv
<1> QED
  BY <1>7, <1>8

\* What the poll has decrypted is delivered or dropped, and then seen.
LEMMA PolledKeepsHive ==
  ASSUME HiveIInv, PollDecrypted
  PROVE  HiveIInv'
<1> PICK n : n = polling
  OBVIOUS
<1>1. /\ n # 0 /\ Inject(n, "poll") /\ polling' = 0
      /\ PassesOver(n) /\ NextOfBatch
      /\ UNCHANGED <<hive, marks, seed, pushed, handling>>
  BY DEF PollDecrypted, streamVars, PassesOver
<1>2. fetched # <<>> /\ n = Head(fetched)
  BY <1>1 DEF HiveIInv, BatchFollows
<1>3. /\ n \in DOMAIN hive
      /\ n = last_seen_id + 1 /\ last_seen_id' = last_seen_id + 1
      /\ fetched' \in Seq(DOMAIN hive)
      /\ \A i \in DOMAIN fetched' : fetched'[i] = last_seen_id' + i
      /\ poll' # "seeding"
  BY <1>1, <1>2, RestFollows
<1>4. /\ injected' \in Seq(Nat \X (Server \cup {"poll"}))
      /\ (\E i \in DOMAIN injected' : injected'[i][1] = n) \/ n \in dropped'
      /\ \A i \in DOMAIN injected : \E j \in DOMAIN injected' :
           injected'[j][1] = injected[i][1]
      /\ dropped \subseteq dropped'
  BY <1>1, InjectHands DEF HiveIInv, HiveTypes
<1>5. \A k : Handed(k) => Handed(k)'
  BY <1>1, <1>4 DEF Handed
<1>6. Handed(n)'
  BY <1>4 DEF Handed
<1>7. \A f : Told(f) => Told(f)'
  BY <1>1, <1>5, StaysTold
<1>8. MarksTold'
  <2>1. ASSUME NEW i \in DOMAIN marks PROVE Told(marks[i])'
    <3>1. CASE Told(marks[i])
      <4>1. PICK f : f = marks[i]
        OBVIOUS
      <4>2. Told(f)'
        BY <1>7, <3>1, <4>1
      <4> QED
        BY <1>1, <4>1, <4>2 DEF Told
    <3>2. CASE hive[n] = marks[i]
      BY <1>1, <1>3, <1>6, <3>2 DEF Told
    <3> QED
      BY <3>1, <3>2 DEF HiveIInv, MarksTold
  <2> QED
    BY <1>1, <2>1 DEF MarksTold
<1>9. \A k \in DOMAIN hive : Accounted(k) => Accounted(k)'
  <2>1. ASSUME NEW k \in DOMAIN hive, Accounted(k) PROVE Accounted(k)'
    <3>1. PICK l \in DOMAIN hive : hive[l] = hive[k] /\ Handed(l)
      BY <2>1 DEF Accounted, Handed
    <3>2. Handed(l)'
      BY <1>5, <3>1
    <3> QED
      BY <1>1, <3>1, <3>2 DEF Accounted, Handed
  <2> QED
    BY <2>1
<1>10. Accounted(n)'
  BY <1>1, <1>3, <1>6 DEF Accounted, Handed
<1>11. SeenIsAccounted'
  BY <1>1, <1>3, <1>9, <1>10, OneMoreSeen
<1>12. last_seen_id' \in 0 .. Len(hive)
  BY <1>3, LenProperties DEF HiveIInv, HiveTypes
<1>13. HiveTypes' /\ BatchFollows'
  BY <1>1, <1>3, <1>4, <1>12 DEF HiveIInv, HiveTypes, BatchFollows
<1> QED
  BY <1>8, <1>11, <1>13 DEF HiveIInv

\* The messages that are there keep their ids.
LEMMA SentKeepsHive ==
  ASSUME HiveIInv, NEW t \in Fingerprint, MessageSent(t)
  PROVE  HiveIInv'
<1>1. /\ hive' = Append(hive, t)
      /\ UNCHANGED <<handling, marks, poll, fetched, polling, seed, last_seen_id, injected,
                     dropped>>
  BY DEF MessageSent, pollVars, sinkVars
<1>2. /\ hive' \in Seq(Fingerprint) /\ Len(hive') = Len(hive) + 1
      /\ \A i \in 1 .. Len(hive) : hive'[i] = hive[i]
  BY <1>1, AppendProperties DEF HiveIInv, HiveTypes
<1>3. /\ DOMAIN hive = 1 .. Len(hive) /\ Len(hive) \in Nat
      /\ DOMAIN hive' = 1 .. Len(hive) + 1
  BY <1>2, LenProperties DEF HiveIInv, HiveTypes
<1>4. /\ DOMAIN hive \subseteq DOMAIN hive' /\ Len(hive) + 1 \in DOMAIN hive'
      /\ \A k \in DOMAIN hive : hive'[k] = hive[k]
  BY <1>2, <1>3
<1>5. \A q \in Seq(DOMAIN hive) : q \in Seq(DOMAIN hive')
  <2>1. ASSUME NEW q \in Seq(DOMAIN hive) PROVE q \in Seq(DOMAIN hive')
    <3>1. /\ Len(q) \in Nat /\ q = [i \in 1 .. Len(q) |-> q[i]]
          /\ \A i \in 1 .. Len(q) : q[i] \in DOMAIN hive'
      BY <1>4, LenProperties, ElementOfSeq
    <3> QED
      BY <3>1
  <2> QED
    BY <2>1
<1>6. pushed' \in [Server -> Seq(DOMAIN hive')]
  <2>1. PICK S \in SUBSET Server :
          pushed' = [s \in Server |-> IF s \in S THEN Append(pushed[s], Len(hive) + 1)
                                                 ELSE pushed[s]]
    BY DEF MessageSent
  <2>2. \A s \in Server : pushed[s] \in Seq(DOMAIN hive')
    BY <1>5 DEF HiveIInv, HiveTypes
  <2>3. \A s \in Server : Append(pushed[s], Len(hive) + 1) \in Seq(DOMAIN hive')
    BY <1>4, <2>2, AppendProperties
  <2> QED
    BY <2>1, <2>2, <2>3
<1>7. HiveTypes'
  BY <1>1, <1>2, <1>4, <1>6 DEF HiveIInv, HiveTypes
<1>8. BatchFollows'
  BY <1>1, <1>5 DEF HiveIInv, BatchFollows
<1>9. \A f : Told(f) => Told(f)'
  BY <1>1, <1>4, StaysTold DEF Handed
<1>10. polling # 0 => polling \in DOMAIN hive
  BY HeadTailProperties DEF HiveIInv, BatchFollows
<1>11. MarksTold'
  BY <1>1, <1>4, <1>9, <1>10 DEF HiveIInv, MarksTold
<1>12. ASSUME NEW m \in DOMAIN hive', seed < m, m <= last_seen_id
       PROVE  Accounted(m)'
  <2>1. CASE m \in DOMAIN hive
    <3>1. Accounted(m)
      BY <1>12, <2>1 DEF HiveIInv, SeenIsAccounted
    <3> QED
      BY <1>1, <1>4, <2>1, <3>1 DEF Accounted
  <2>2. CASE m \notin DOMAIN hive
    BY <1>3, <1>12, <2>2 DEF HiveIInv, HiveTypes
  <2> QED
    BY <2>1, <2>2
<1>13. SeenIsAccounted'
  BY <1>1, <1>12 DEF SeenIsAccounted
<1> QED
  BY <1>7, <1>8, <1>11, <1>13 DEF HiveIInv

LEMMA HiveSteps == HiveIInv /\ [HiveNext]_hiveVars => HiveIInv'
<1> SUFFICES ASSUME HiveIInv, [HiveNext]_hiveVars
             PROVE  HiveIInv'
  OBVIOUS
<1>0. pushed \in [Server -> Seq(DOMAIN hive)]
  BY DEF HiveIInv, HiveTypes
<1>1. ASSUME NEW s \in Server, StreamOpens(s) \/ Reconnects(s)
      PROVE  HiveIInv'
  BY <1>0, <1>1, ElsewhereKeepsHive DEF StreamOpens, Reconnects
<1>2. ASSUME NEW s \in Server, TransientFailure(s) \/ PermanentFailure(s)
      PROVE  HiveIInv'
  BY <1>0, <1>2, ElsewhereKeepsHive DEF TransientFailure, PermanentFailure
<1>3. ASSUME NEW s \in Server, CleanClose(s)
      PROVE  HiveIInv'
  <2>1. pushed' \in [Server -> Seq(DOMAIN hive)]
    BY <1>0, <1>3, EmptySeq DEF CleanClose
  <2> QED
    BY <1>3, <2>1, ElsewhereKeepsHive DEF CleanClose
<1>4. ASSUME NEW s \in Server, HandleHive(s) \/ HiveDecrypted(s)
      PROVE  HiveIInv'
  BY <1>4, HandleKeepsHive, DecryptedKeepsHive
<1>5. CASE PollRuns
  BY <1>5, SeedKeepsHive, FetchKeepsHive, CheckKeepsHive, PolledKeepsHive DEF PollRuns
<1>6. ASSUME NEW t \in Fingerprint, MessageSent(t)
      PROVE  HiveIInv'
  BY <1>6, SentKeepsHive
<1>7. CASE SubscriberChanges
  BY <1>0, <1>7, ElsewhereKeepsHive DEF SubscriberChanges, streamVars
<1>8. CASE UNCHANGED hiveVars
  BY <1>0, <1>8, ElsewhereKeepsHive DEF hiveVars, pollVars, sinkVars
<1> QED
  BY <1>1, <1>2, <1>3, <1>4, <1>5, <1>6, <1>7, <1>8 DEF HiveNext

\* The poll passes over no message: what it has behind it was delivered, dropped
\* because no MCP process was subscribed, or is in the hands of a stream, for any
\* number of servers and messages and any size of the ring of fingerprints.
THEOREM SeenAccounted == HiveSpec => []SeenIsAccounted
<1>1. HiveInit => HiveIInv
  BY HiveStart
<1>2. HiveIInv /\ [HiveNext]_hiveVars => HiveIInv'
  BY HiveSteps
<1>3. HiveIInv => SeenIsAccounted
  BY DEF HiveIInv
<1> QED
  BY <1>1, <1>2, <1>3, PTL DEF HiveSpec

\* A sequence over a set is one over a larger set.
LEMMA SeqWidens ==
  ASSUME NEW S, NEW T, S \subseteq T, NEW q \in Seq(S)
  PROVE  q \in Seq(T)
<1>1. q \in [1 .. Len(q) -> T] /\ Len(q) \in Nat
  BY ElementOfSeq, LenProperties
<1> QED  BY <1>1, SeqDef

\* What the argument about the poll does not say of the state.
HiveRest ==
  /\ Len(hive) <= MaxHive
  /\ pull \in [Server -> {"connecting", "open", "waiting", "ended"}]
  /\ backoff \in [Server -> [current : 1..MaxDelay, consecutive_failures : Nat]]
  /\ permanent_failures \in [Server -> 0..MaxPermanent]
  /\ \A s \in Server : pull[s] = "ended" \/ permanent_failures[s] < MaxPermanent
  /\ poll \in {"seeding", "waiting", "batch"} /\ (fetched # <<>> <=> poll = "batch")
  /\ seed \in Ids /\ subscriber \in BOOLEAN
  /\ injected \in Seq((DOMAIN hive) \X (Server \cup {"poll"}))
  /\ dropped \subseteq DOMAIN hive

LEMMA HiveTypesFollow == HiveIInv /\ HiveRest => HiveTypeOK
<1> SUFFICES ASSUME HiveIInv, HiveRest  PROVE HiveTypeOK
  OBVIOUS
<1>1. Len(hive) \in Nat /\ DOMAIN hive = 1..Len(hive) /\ Len(hive) <= MaxHive /\ MaxHive \in Nat
  BY HiveDeliveryAssumption, LenProperties DEF HiveIInv, HiveTypes, HiveRest
<1>2. 1..Len(hive) \subseteq Ids /\ 0 \in Ids /\ \A k \in 0..Len(hive) : k \in Ids
  BY <1>1 DEF Ids
<1>3. last_seen_id \in Ids
  BY <1>2 DEF HiveIInv, HiveTypes
<1>4. handling \in [Server -> Ids]
  BY <1>1, <1>2 DEF HiveIInv, HiveTypes
<1>5. polling \in Ids
  <2>1. polling # 0 => Head(fetched) \in DOMAIN hive /\ polling = Head(fetched)
    BY HeadTailProperties DEF HiveIInv, BatchFollows
  <2> QED  BY <1>1, <1>2, <2>1
<1>6. /\ hive \in Seq(Fingerprint) /\ marks \in Seq(Fingerprint)
      /\ \A s \in Server : pushed[s] \in Seq(1..Len(hive))
      /\ fetched \in Seq(1..Len(hive))
  BY <1>1 DEF HiveIInv, HiveTypes, BatchFollows
<1>7. permanent_failures \in [Server -> 0..MaxPermanent]
  BY DEF HiveRest
<1>8. /\ injected \in Seq((1..Len(hive)) \X (Server \cup {"poll"}))
      /\ dropped \subseteq 1..Len(hive)
  BY <1>1 DEF HiveRest
<1> QED
  BY <1>1, <1>3, <1>4, <1>5, <1>6, <1>7, <1>8 DEF HiveRest, HiveTypeOK

LEMMA HiveInitRest == HiveInit => HiveRest
<1> SUFFICES ASSUME HiveInit  PROVE HiveRest
  OBVIOUS
<1>1. /\ Len(<<>>) = 0 /\ \A S : <<>> \in Seq(S)
      /\ MaxHive \in Nat /\ MaxPermanent \in Nat \ {0} /\ MaxDelay \in Nat \ {0}
  BY EmptySeq, HiveDeliveryAssumption
<1>2. InitialBackoff \in [current : 1..MaxDelay, consecutive_failures : Nat]
  BY <1>1 DEF InitialBackoff
<1>3. Len(hive) <= MaxHive /\ injected \in Seq((DOMAIN hive) \X (Server \cup {"poll"}))
  BY <1>1 DEF HiveInit
<1>4. 0 \in Ids /\ 0 \in 0..MaxPermanent /\ 0 < MaxPermanent
  BY <1>1 DEF Ids
<1>5. /\ permanent_failures \in [Server -> 0..MaxPermanent]
      /\ \A s \in Server : permanent_failures[s] < MaxPermanent
      /\ backoff \in [Server -> [current : 1..MaxDelay, consecutive_failures : Nat]]
  BY <1>2, <1>4 DEF HiveInit
<1> QED  BY <1>3, <1>4, <1>5 DEF HiveInit, HiveRest

\* A delivery is of a message that is there.
LEMMA InjectTyped ==
  ASSUME HiveRest, NEW m \in DOMAIN hive, NEW by \in Server \cup {"poll"}, Inject(m, by)
  PROVE  /\ injected' \in Seq((DOMAIN hive) \X (Server \cup {"poll"}))
         /\ dropped' \subseteq DOMAIN hive
<1> DEFINE Copy == (DOMAIN hive) \X (Server \cup {"poll"})
<1>1. <<m, by>> \in Copy
  OBVIOUS
<1>2. injected \in Seq(Copy) /\ dropped \subseteq DOMAIN hive
  BY DEF HiveRest
<1> HIDE DEF Copy
<1>3. Append(injected, <<m, by>>) \in Seq(Copy)
  BY <1>1, <1>2, AppendProperties
<1>4. injected' \in Seq(Copy) /\ dropped' \subseteq DOMAIN hive
  BY <1>2, <1>3 DEF Inject
<1> QED  BY <1>4 DEF Copy

LEMMA HiveRestStays == HiveIInv /\ HiveRest /\ [HiveNext]_hiveVars => HiveRest'
<1> SUFFICES ASSUME HiveIInv, HiveRest, [HiveNext]_hiveVars  PROVE HiveRest'
  OBVIOUS
<1>1. /\ MaxHive \in Nat /\ MaxPermanent \in Nat \ {0} /\ MaxDelay \in Nat \ {0}
      /\ Len(hive) \in Nat /\ DOMAIN hive = 1..Len(hive)
  BY HiveDeliveryAssumption, LenProperties DEF HiveIInv, HiveTypes
<1> DEFINE Copies(S) == Seq(S \X (Server \cup {"poll"}))
           StreamRest == /\ pull \in [Server -> {"connecting", "open", "waiting", "ended"}]
                         /\ backoff \in [Server -> [current : 1..MaxDelay,
                                                      consecutive_failures : Nat]]
                         /\ permanent_failures \in [Server -> 0..MaxPermanent]
                         /\ \A s \in Server :
                              pull[s] = "ended" \/ permanent_failures[s] < MaxPermanent
           PollRest == /\ poll \in {"seeding", "waiting", "batch"}
                       /\ (fetched # <<>> <=> poll = "batch")
           SinkRest == injected \in Copies(DOMAIN hive) /\ dropped \subseteq DOMAIN hive
           OtherRest == Len(hive) <= MaxHive /\ seed \in Ids /\ subscriber \in BOOLEAN
<1>2. StreamRest /\ PollRest /\ SinkRest /\ OtherRest
  BY DEF HiveRest
<1>3. SUFFICES StreamRest' /\ PollRest' /\ SinkRest' /\ OtherRest'
  BY DEF HiveRest
<1>4. CASE UNCHANGED hiveVars
  BY <1>2, <1>4 DEF hiveVars
<1>5. ASSUME NEW s \in Server, StreamOpens(s) \/ Reconnects(s)
      PROVE  StreamRest' /\ PollRest' /\ SinkRest' /\ OtherRest'
  BY <1>1, <1>2, <1>5 DEF StreamOpens, Reconnects, pollVars, sinkVars
<1>6. \A s \in Server : /\ NextDelay(backoff[s]) \in [current : 1..MaxDelay,
                                                       consecutive_failures : Nat]
                         /\ NextDelayMax(backoff[s]) \in [current : 1..MaxDelay,
                                                          consecutive_failures : Nat]
                         /\ InitialBackoff \in [current : 1..MaxDelay,
                                                consecutive_failures : Nat]
  BY <1>1, <1>2 DEF NextDelay, NextDelayMax, InitialBackoff, Lesser
<1>7. ASSUME NEW s \in Server, TransientFailure(s) \/ PermanentFailure(s) \/ CleanClose(s)
      PROVE  StreamRest' /\ PollRest' /\ SinkRest' /\ OtherRest'
  <2>1. StreamRest'
    <3>1. CASE TransientFailure(s)
      BY <1>1, <1>2, <1>6, <3>1 DEF TransientFailure, Retry
    <3>2. CASE PermanentFailure(s)
      <4>1. PICK p : p = permanent_failures[s] + 1
        OBVIOUS
      <4>2. pull[s] # "ended" /\ p \in 0..MaxPermanent
        <5>1. pull[s] # "ended"
          BY <3>2 DEF PermanentFailure
        <5>2. permanent_failures[s] \in Nat /\ permanent_failures[s] < MaxPermanent
          BY <1>1, <1>2, <5>1
        <5> QED  BY <1>1, <4>1, <5>1, <5>2
      <4>3. CASE p >= MaxPermanent
        BY <1>1, <1>2, <1>6, <3>2, <4>1, <4>2, <4>3 DEF PermanentFailure, Retry
      <4>4. CASE ~(p >= MaxPermanent)
        <5>1. /\ pull' = [pull EXCEPT ![s] = "waiting"]
              /\ backoff' = [backoff EXCEPT ![s] = NextDelayMax(backoff[s])]
              /\ permanent_failures' = [permanent_failures EXCEPT ![s] = p]
          BY <3>2, <4>1, <4>4 DEF PermanentFailure, Retry
        <5>2. p \in 0..MaxPermanent /\ p < MaxPermanent
          BY <1>1, <4>2, <4>4
        <5> QED  BY <1>2, <1>6, <5>1, <5>2
      <4> QED  BY <4>3, <4>4
    <3>3. CASE CleanClose(s)
      BY <1>1, <1>2, <1>6, <3>3 DEF CleanClose, Retry
    <3> QED  BY <1>7, <3>1, <3>2, <3>3
  <2>2. UNCHANGED <<hive, poll, fetched, seed, subscriber, injected, dropped>>
    BY <1>7 DEF TransientFailure, PermanentFailure, CleanClose, pollVars, sinkVars
  <2> QED  BY <1>2, <2>1, <2>2
<1>8. ASSUME NEW s \in Server, HandleHive(s)
      PROVE  StreamRest' /\ PollRest' /\ SinkRest' /\ OtherRest'
  BY <1>2, <1>8 DEF HandleHive, pollVars, sinkVars
<1>9. ASSUME NEW s \in Server, HiveDecrypted(s)
      PROVE  StreamRest' /\ PollRest' /\ SinkRest' /\ OtherRest'
  <2>1. handling[s] \in DOMAIN hive /\ Inject(handling[s], s)
    BY <1>9 DEF HiveDecrypted, HiveIInv, HiveTypes
  <2>2. SinkRest' /\ UNCHANGED hive
    BY <1>9, <2>1, InjectTyped DEF HiveDecrypted
  <2> QED  BY <1>2, <1>9, <2>2 DEF HiveDecrypted, pollVars
<1>10. CASE PollSeeds
  <2>1. seed' \in Ids
    <3>1. 0 \in Ids /\ Len(hive) \in Ids
      BY <1>1, <1>2 DEF Ids
    <3> QED  BY <1>10, <3>1 DEF PollSeeds
  <2>2. fetched = <<>> /\ PollRest'
    BY <1>2, <1>10 DEF PollSeeds
  <2> QED  BY <1>2, <1>10, <2>1, <2>2 DEF PollSeeds, streamVars, sinkVars
<1>11. CASE PollFetches
  BY <1>2, <1>11 DEF PollFetches, streamVars, sinkVars
<1>12. NextOfBatch => PollRest'
  BY DEF NextOfBatch
<1>13. CASE PollChecks
  <2>1. PollRest'
    BY <1>2, <1>12, <1>13 DEF PollChecks
  <2> QED  BY <1>2, <1>13, <2>1 DEF PollChecks, streamVars, sinkVars
<1>14. CASE PollDecrypted
  <2>1. polling \in DOMAIN hive /\ Inject(polling, "poll")
    BY <1>14, HeadTailProperties DEF PollDecrypted, HiveIInv, BatchFollows
  <2>2. SinkRest' /\ UNCHANGED hive
    BY <1>14, <2>1, InjectTyped DEF PollDecrypted
  <2> QED  BY <1>2, <1>12, <1>14, <2>2 DEF PollDecrypted, streamVars
<1>15. ASSUME NEW t \in Fingerprint, MessageSent(t)
       PROVE  StreamRest' /\ PollRest' /\ SinkRest' /\ OtherRest'
  <2>1. hive' = Append(hive, t) /\ Len(hive) < MaxHive
    BY <1>15 DEF MessageSent
  <2>2. Len(Append(hive, t)) = Len(hive) + 1 /\ DOMAIN Append(hive, t) = 1..Len(hive) + 1
    BY <1>1, AppendProperties, LenProperties DEF HiveIInv, HiveTypes
  <2>3. Len(Append(hive, t)) <= MaxHive /\ DOMAIN hive \subseteq DOMAIN Append(hive, t)
    BY <1>1, <2>1, <2>2
  <2>4. /\ (DOMAIN hive) \X (Server \cup {"poll"})
              \subseteq (DOMAIN Append(hive, t)) \X (Server \cup {"poll"})
    BY <2>3
  <2>5. injected \in Copies(DOMAIN Append(hive, t))
    BY <1>2, <2>4, SeqWidens
  <2>6. UNCHANGED <<pull, backoff, permanent_failures, poll, fetched, seed, subscriber,
                    injected, dropped>>
    BY <1>15 DEF MessageSent, pollVars, sinkVars
  <2>7. SinkRest'
    BY <1>2, <2>1, <2>3, <2>5, <2>6
  <2>8. Len(hive') <= MaxHive
    BY <2>1, <2>3, Zenon
  <2>9. OtherRest'
    BY <1>2, <2>6, <2>8, Zenon
  <2>10. StreamRest' /\ PollRest'
    BY <1>2, <2>6
  <2> QED  BY <2>7, <2>9, <2>10, Zenon
<1>16. CASE SubscriberChanges
  BY <1>2, <1>16 DEF SubscriberChanges, streamVars, pollVars, sinkVars
<1> HIDE DEF StreamRest, PollRest, SinkRest, OtherRest
<1> QED
  BY <1>4, <1>5, <1>7, <1>8, <1>9, <1>10, <1>11, <1>13, <1>14, <1>15, <1>16
  DEF HiveNext, PollRuns

\* The streams, the poll and the deliveries keep to their types (puller.rs): a loop
\* gives up at MAX_PERMANENT_FAILURES and no later, and its delay stays bounded.
THEOREM HiveTyped == HiveSpec => []HiveTypeOK
<1>1. HiveIInv /\ HiveRest /\ [HiveNext]_hiveVars => HiveIInv' /\ HiveRest'
  BY HiveSteps, HiveRestStays
<1>2. HiveInit => HiveIInv /\ HiveRest
  BY HiveStart, HiveInitRest
<1> QED  BY <1>1, <1>2, HiveTypesFollow, PTL DEF HiveSpec

-----------------------------------------------------------------------------
(***************************************************************************)
(* A destroyed key does not come back, for any number of members and       *)
(* events, while one server's stream brings them.                          *)
(*                                                                         *)
(* A stream's events come in order, so a key its handler is storing was    *)
(* distributed behind every destruction it has handled (StoresLater).  Our *)
(* own key is no event's.  With a second stream the handler of one may     *)
(* still be storing a key whose destruction the other has handled.         *)
(***************************************************************************)

OneStream == \A r, s \in RoomServer : r = s

RoomEvents == [type : {"keys", "text", "destroy"}, from : Member \cup {Me},
               key : Nat \cup {NoKey}, expires : BOOLEAN]

Position == {"idle", "fetching", "store_key", "store_meta", "members_read", "members_write",
             "delete_key", "delete_meta", "ack", "send_keys"}

\* What the argument needs of the types.
RoomTypes ==
  /\ room \in Seq(RoomEvents)
  /\ stream \in [RoomServer -> Seq(Nat)]
  /\ at \in [Task -> Position] /\ on \in [Task -> Nat]
  /\ then \in [Task -> {"idle", "ack"}]
  /\ gone \subseteq Nat \ {0}

\* The events to come are numbered upwards and beyond the one being handled.
StreamAscends ==
  \A s \in RoomServer :
    /\ on[s] <= Len(room)
    /\ \A i \in 1 .. Len(stream[s]) : on[s] < stream[s][i] /\ stream[s][i] <= Len(room)
    /\ \A i, j \in 1 .. Len(stream[s]) : i < j => stream[s][i] < stream[s][j]

\* Requests and the timer handle no events.
OthersHandleNone == \A t \in Task \ RoomServer : on[t] = 0

\* A key being stored was distributed behind all destructions handled.
StoresLater ==
  \A s \in RoomServer, g \in gone :
    g < on[s] \/ (g = on[s] /\ at[s] \notin {"fetching", "store_key"})

RoomIInv ==
  RoomTypes /\ StreamAscends /\ OthersHandleNone /\ StoresLater /\ DestroyedStaysGone

LEMMA RoomStart == RoomInit => RoomIInv
<1> SUFFICES ASSUME RoomInit PROVE RoomIInv
  OBVIOUS
<1>1. room = <<>> /\ stream = [s \in RoomServer |-> <<>>]
  BY DEF RoomInit
<1>2. RoomTypes
  <2>1. room \in Seq(RoomEvents) /\ stream \in [RoomServer -> Seq(Nat)]
    BY <1>1, EmptySeq
  <2> QED
    BY <2>1 DEF RoomInit, RoomTypes, Position
<1>3. Len(room) = 0 /\ \A s \in RoomServer : 1 .. Len(stream[s]) = {} /\ on[s] = 0
  <2>1. \A s \in RoomServer : stream[s] = <<>> /\ on[s] = 0
    BY <1>1 DEF RoomInit, Task
  <2>2. Len(room) = 0 /\ \A s \in RoomServer : Len(stream[s]) = 0
    BY <1>1, <2>1, EmptySeq
  <2>3. 1 .. 0 = {}
    OBVIOUS
  <2> QED
    BY <2>1, <2>2, <2>3
<1>4. StreamAscends
  <2>1. ASSUME NEW s \in RoomServer
        PROVE  /\ on[s] <= Len(room)
               /\ \A i \in 1 .. Len(stream[s]) : FALSE
    BY <1>3
  <2> QED
    BY <2>1 DEF StreamAscends
<1> QED
  BY <1>2, <1>4
  DEF RoomInit, RoomIInv, OthersHandleNone, StoresLater, DestroyedStaysGone, Task

(* What the steps do to the invariant *)

\* A step of one task that handles no other event and stores and destroys nothing.
LEMMA TaskKeepsRoom ==
  ASSUME RoomIInv, NEW t \in Task, NEW next \in Position, at' = [at EXCEPT ![t] = next],
         next \in {"fetching", "store_key"} =>
           t \notin RoomServer \/ at[t] \in {"fetching", "store_key"},
         UNCHANGED <<room, stream, on, gone>>, key_file' \in {key_file, NoKey},
         then' \in [Task -> {"idle", "ack"}]
  PROVE  RoomIInv'
<1>1. NoKey \notin gone
  BY RoomKeysAssumption DEF RoomIInv, RoomTypes
<1>2. RoomTypes' /\ StreamAscends' /\ OthersHandleNone'
  BY DEF RoomIInv, RoomTypes, StreamAscends, OthersHandleNone, Position
<1>3. StoresLater'
  BY DEF RoomIInv, RoomTypes, StoresLater, Task
<1>4. DestroyedStaysGone'
  BY <1>1 DEF RoomIInv, DestroyedStaysGone
<1> QED
  BY <1>2, <1>3, <1>4 DEF RoomIInv

\* An event comes behind all others.
LEMMA PushKeepsStreams ==
  ASSUME RoomIInv, NEW e \in RoomEvents, Push(e), UNCHANGED on
  PROVE  /\ room' \in Seq(RoomEvents) /\ stream' \in [RoomServer -> Seq(Nat)]
         /\ StreamAscends'
<1> DEFINE n == Len(room) + 1
<1>1. /\ room' \in Seq(RoomEvents) /\ Len(room') = n /\ n \in Nat /\ Len(room) \in Nat
  BY AppendProperties, LenProperties DEF Push, RoomIInv, RoomTypes
<1>2. stream \in [RoomServer -> Seq(Nat)] /\ on \in [Task -> Nat]
  BY DEF RoomIInv, RoomTypes
<1>3. CASE stream' = stream
  BY <1>1, <1>2, <1>3 DEF RoomIInv, StreamAscends, Task
<1>4. CASE stream' = [s \in RoomServer |-> Append(stream[s], n)]
  <2> HIDE DEF n
  <2>1. ASSUME NEW s \in RoomServer
        PROVE  /\ stream'[s] \in Seq(Nat) /\ Len(stream'[s]) = Len(stream[s]) + 1
               /\ \A i \in 1 .. Len(stream[s]) : stream'[s][i] = stream[s][i]
               /\ stream'[s][Len(stream[s]) + 1] = n
               /\ Len(stream[s]) \in Nat
    <3>1. stream[s] \in Seq(Nat) /\ stream'[s] = Append(stream[s], n)
      BY <1>2, <1>4
    <3> QED
      BY <1>1, <3>1, AppendProperties, LenProperties
  <2>2. ASSUME NEW s \in RoomServer, NEW i \in 1 .. Len(stream[s])
        PROVE  stream[s][i] \in Nat /\ on[s] < stream[s][i] /\ stream[s][i] < n
    <3>1. stream[s][i] \in Nat
      BY <1>2, ElementOfSeq
    <3>2. on[s] < stream[s][i] /\ stream[s][i] <= Len(room)
      BY DEF RoomIInv, StreamAscends
    <3> QED
      BY <1>1, <3>1, <3>2 DEF n
  <2>3. ASSUME NEW s \in RoomServer
        PROVE  on[s] \in Nat /\ on[s] < n /\ on[s] <= n
    BY <1>1, <1>2 DEF RoomIInv, StreamAscends, Task, n
  <2>4. ASSUME NEW s \in RoomServer, NEW i \in 1 .. Len(stream'[s])
        PROVE  on[s] < stream'[s][i] /\ stream'[s][i] <= n
    <3>1. CASE i = Len(stream[s]) + 1
      BY <1>1, <2>1, <2>3, <3>1
    <3>2. CASE i # Len(stream[s]) + 1
      <4>1. i \in 1 .. Len(stream[s]) /\ stream'[s][i] = stream[s][i]
        BY <2>1, <3>2
      <4> QED
        BY <1>1, <2>2, <4>1
    <3> QED
      BY <3>1, <3>2
  <2>5. ASSUME NEW s \in RoomServer, NEW i \in 1 .. Len(stream'[s]),
               NEW j \in 1 .. Len(stream'[s]), i < j
        PROVE  stream'[s][i] < stream'[s][j]
    <3>1. i \in 1 .. Len(stream[s]) /\ stream'[s][i] = stream[s][i]
      BY <2>1, <2>5
    <3>2. CASE j = Len(stream[s]) + 1
      BY <2>1, <2>2, <3>1, <3>2
    <3>3. CASE j # Len(stream[s]) + 1
      <4>1. j \in 1 .. Len(stream[s])
        BY <2>1, <3>3
      <4>2. stream'[s][j] = stream[s][j]
        BY <2>1, <4>1
      <4> QED
        BY <2>5, <3>1, <4>1, <4>2 DEF RoomIInv, StreamAscends
    <3> QED
      BY <3>2, <3>3
  <2>6. StreamAscends'
    BY <1>1, <2>3, <2>4, <2>5 DEF StreamAscends
  <2>7. stream' \in [RoomServer -> Seq(Nat)]
    BY <1>4, <2>1
  <2> QED
    BY <1>1, <2>6, <2>7
<1> QED
  BY <1>1, <1>3, <1>4 DEF Push

\* So nothing but the streams is concerned.
LEMMA PushKeepsRoom ==
  ASSUME RoomIInv, NEW e \in RoomEvents, Push(e), UNCHANGED <<on, gone, key_file>>,
         then' \in [Task -> {"idle", "ack"}],
         at' \in [Task -> Position], \A s \in RoomServer : at'[s] = at[s]
  PROVE  RoomIInv'
<1>1. RoomTypes' /\ StreamAscends'
  BY PushKeepsStreams DEF RoomIInv, RoomTypes
<1>2. OthersHandleNone' /\ StoresLater' /\ DestroyedStaysGone'
  BY DEF RoomIInv, OthersHandleNone, StoresLater, DestroyedStaysGone
<1> QED
  BY <1>1, <1>2 DEF RoomIInv

\* The next event of a stream is behind all it has brought.
LEMMA EventKeepsRoom ==
  ASSUME OneStream, RoomIInv, NEW s \in RoomServer, RoomEvent(s)
  PROVE  RoomIInv'
<1>0. s \in Task
  BY DEF Task
<1>1. /\ stream[s] # <<>> /\ on' = [on EXCEPT ![s] = Head(stream[s])]
      /\ stream' = [stream EXCEPT ![s] = Tail(@)] /\ UNCHANGED <<room, gone, key_file>>
  BY DEF RoomEvent
<1>2. at' \in [Task -> Position] /\ then' \in [Task -> {"idle", "ack"}]
  BY DEF RoomEvent, KeysArrive, DestroyArrives, TextArrives, RoomIInv, RoomTypes, Position
<1>3. stream[s] \in Seq(Nat) /\ on \in [Task -> Nat]
  BY DEF RoomIInv, RoomTypes
<1>4. /\ Len(stream[s]) \in Nat \ {0} /\ Head(stream[s]) = stream[s][1]
      /\ Head(stream[s]) \in Nat
  BY <1>1, <1>3, EmptySeq, LenProperties, HeadTailProperties
<1>5. /\ Tail(stream[s]) \in Seq(Nat) /\ Len(Tail(stream[s])) = Len(stream[s]) - 1
      /\ \A i \in 1 .. Len(stream[s]) - 1 : Tail(stream[s])[i] = stream[s][i + 1]
  BY <1>1, <1>3, HeadTailProperties
<1>6. on[s] < Head(stream[s]) /\ Head(stream[s]) <= Len(room)
  BY <1>4 DEF RoomIInv, StreamAscends
<1>7. on'[s] = Head(stream[s]) /\ stream'[s] = Tail(stream[s])
  BY <1>0, <1>1, <1>3 DEF RoomIInv, RoomTypes
<1>8. RoomTypes'
  BY <1>1, <1>2, <1>4, <1>5 DEF RoomIInv, RoomTypes
<1>9. StreamAscends'
  <2>1. ASSUME NEW i \in 1 .. Len(stream'[s])
        PROVE  on'[s] < stream'[s][i] /\ stream'[s][i] <= Len(room)
    <3>1. i + 1 \in 1 .. Len(stream[s]) /\ 1 < i + 1 /\ 1 \in 1 .. Len(stream[s])
          /\ stream'[s][i] = stream[s][i + 1]
      BY <1>4, <1>5, <1>7
    <3> QED
      BY <1>4, <1>7, <3>1 DEF RoomIInv, StreamAscends
  <2>2. ASSUME NEW i \in 1 .. Len(stream'[s]), NEW j \in 1 .. Len(stream'[s]), i < j
        PROVE  stream'[s][i] < stream'[s][j]
    <3>1. i + 1 \in 1 .. Len(stream[s]) /\ stream'[s][i] = stream[s][i + 1]
      BY <1>4, <1>5, <1>7
    <3>2. j + 1 \in 1 .. Len(stream[s]) /\ stream'[s][j] = stream[s][j + 1]
      BY <1>4, <1>5, <1>7
    <3>3. i + 1 < j + 1
      BY <2>2
    <3> QED
      BY <3>1, <3>2, <3>3 DEF RoomIInv, StreamAscends
  <2>3. \A r \in RoomServer : r = s
    BY DEF OneStream
  <2> QED
    BY <1>1, <1>6, <1>7, <2>1, <2>2, <2>3 DEF StreamAscends
<1>10. OthersHandleNone'
  BY <1>1, <1>3 DEF RoomIInv, OthersHandleNone, Position
<1>11. StoresLater'
  <2>1. ASSUME NEW g \in gone PROVE g < on'[s]
    <3>1. g \in Nat /\ on[s] \in Nat /\ g <= on[s]
      <4>1. g \in Nat /\ on[s] \in Nat
        BY <1>0, <1>3 DEF RoomIInv, RoomTypes
      <4>2. g < on[s] \/ g = on[s]
        BY DEF RoomIInv, StoresLater
      <4> QED
        BY <4>1, <4>2
    <3> QED
      BY <1>4, <1>6, <1>7, <3>1
  <2> QED
    BY <1>1, <2>1 DEF StoresLater, OneStream
<1>12. DestroyedStaysGone'
  BY <1>1 DEF RoomIInv, DestroyedStaysGone
<1> QED
  BY <1>8, <1>9, <1>10, <1>11, <1>12 DEF RoomIInv

\* What is stored is no destroyed key: an event's is later, our own is no event's.
LEMMA StoreKeepsRoom ==
  ASSUME RoomIInv, NEW t \in Task, StoreKey(t)
  PROVE  RoomIInv'
<1>1. /\ at[t] = "store_key" /\ at' = [at EXCEPT ![t] = "store_meta"] /\ key_file' = on[t]
      /\ UNCHANGED <<room, stream, on, then, gone>>
  BY DEF StoreKey, Step
<1>2. on[t] \notin gone
  <2>1. CASE t \in RoomServer
    BY <1>1, <2>1 DEF RoomIInv, RoomTypes, StoresLater
  <2>2. CASE t \notin RoomServer
    BY <2>2 DEF RoomIInv, RoomTypes, OthersHandleNone, Position
  <2> QED
    BY <2>1, <2>2
<1>3. RoomTypes' /\ StreamAscends' /\ OthersHandleNone'
  BY <1>1 DEF RoomIInv, RoomTypes, StreamAscends, OthersHandleNone, Position
<1>4. StoresLater'
  BY <1>1 DEF RoomIInv, RoomTypes, StoresLater, Task
<1>5. DestroyedStaysGone'
  BY <1>1, <1>2 DEF DestroyedStaysGone
<1> QED
  BY <1>3, <1>4, <1>5 DEF RoomIInv

\* A destruction condemns what was distributed before it, and the key is gone.
LEMMA DeleteKeepsRoom ==
  ASSUME OneStream, RoomIInv, NEW t \in Task, DeleteKeyFile(t)
  PROVE  RoomIInv'
<1>1. /\ at[t] = "delete_key" /\ at' = [at EXCEPT ![t] = "delete_meta"] /\ key_file' = NoKey
      /\ gone' = gone \cup Condemned(t) /\ UNCHANGED <<room, stream, on, then>>
  BY DEF DeleteKeyFile, Step
<1>2. on[t] \in Nat /\ at \in [Task -> Position]
  BY DEF RoomIInv, RoomTypes
<1>3. \A g \in Condemned(t) : g \in Nat \ {0} /\ g <= on[t] /\ t \in RoomServer
  BY <1>2 DEF Condemned
<1>4. RoomTypes'
  BY <1>1, <1>3 DEF RoomIInv, RoomTypes, Position
<1>5. StreamAscends' /\ OthersHandleNone'
  BY <1>1 DEF RoomIInv, StreamAscends, OthersHandleNone, Position
<1>6. StoresLater'
  <2>1. ASSUME NEW s \in RoomServer, NEW g \in gone
        PROVE  g < on[s] \/ (g = on[s] /\ at'[s] \notin {"fetching", "store_key"})
    BY <1>1, <1>2, <2>1 DEF RoomIInv, StoresLater, Task
  <2>2. ASSUME NEW s \in RoomServer, NEW g \in Condemned(t)
        PROVE  g < on[s] \/ (g = on[s] /\ at'[s] \notin {"fetching", "store_key"})
    <3>1. s = t
      BY <1>3 DEF OneStream
    <3>2. at'[s] = "delete_meta"
      BY <1>1, <1>2, <3>1
    <3> QED
      BY <1>2, <1>3, <3>1, <3>2
  <2> QED
    BY <1>1, <2>1, <2>2 DEF StoresLater
<1>7. DestroyedStaysGone'
  BY <1>1, <1>4, RoomKeysAssumption DEF RoomTypes, DestroyedStaysGone
<1> QED
  BY <1>4, <1>5, <1>6, <1>7 DEF RoomIInv

----------------------------------------------------------------------------

LEMMA RoomSteps ==
  ASSUME OneStream, RoomIInv, [RoomNext]_roomVars
  PROVE  RoomIInv'
<1>1. ASSUME NEW t \in Task, StoreKey(t) \/ DeleteKeyFile(t)
      PROVE  RoomIInv'
  BY <1>1, StoreKeepsRoom, DeleteKeepsRoom
<1>2. ASSUME NEW t \in Task,
             \/ PublicKeyFetched(t) \/ PublicKeyFails(t) \/ StoreMeta(t) \/ FindsExpired(t)
             \/ DeleteMetaFile(t) \/ MembersRead(t) \/ MembersWrite(t) \/ Acknowledge(t)
      PROVE  RoomIInv'
  <2>1. UNCHANGED <<room, stream, on, gone, key_file>>
    BY <1>2
    DEF PublicKeyFetched, PublicKeyFails, StoreMeta, FindsExpired, DeleteMetaFile,
        MembersRead, MembersWrite, Acknowledge
  <2>2. PICK next : /\ at' = [at EXCEPT ![t] = next]
                    /\ \/ next = "store_key" /\ at[t] = "fetching"
                       \/ next \in {"idle", "send_keys", "members_read", "members_write",
                                    "delete_key"}
                       \/ next = then[t]
    BY <1>2
    DEF PublicKeyFetched, PublicKeyFails, StoreMeta, FindsExpired, DeleteMetaFile,
        MembersRead, MembersWrite, Acknowledge, Step
  <2>3. then[t] \in {"idle", "ack"} /\ then' \in [Task -> {"idle", "ack"}]
    BY <1>2
    DEF PublicKeyFetched, PublicKeyFails, StoreMeta, FindsExpired, DeleteMetaFile,
        MembersRead, MembersWrite, Acknowledge, RoomIInv, RoomTypes
  <2> QED
    BY <2>1, <2>2, <2>3, TaskKeepsRoom DEF Position
<1>3. ASSUME NEW s \in RoomServer, RoomEvent(s)
      PROVE  RoomIInv'
  BY <1>3, EventKeepsRoom
<1>4. CASE CreateRoom
  <2>1. /\ "http" \in Task /\ "http" \notin RoomServer
        /\ on["http"] = 0 /\ on \in [Task -> Nat]
    BY RoomKeysAssumption DEF Task, RoomIInv, RoomTypes, OthersHandleNone, Position
  <2>2. /\ at' = [at EXCEPT !["http"] = "fetching"] /\ on' = on
        /\ UNCHANGED <<room, stream, gone, key_file>> /\ then' \in [Task -> {"idle", "ack"}]
    BY <1>4, <2>1 DEF CreateRoom, Step, RoomIInv, RoomTypes
  <2> QED
    BY <2>1, <2>2, TaskKeepsRoom DEF Position
<1>5. CASE SendKeys \/ DestroyKey
  <2>1. PICK e \in RoomEvents : Push(e)
    BY <1>5 DEF SendKeys, DestroyKey, Event, RoomEvents
  <2>2. /\ UNCHANGED <<on, gone, key_file>> /\ at' \in [Task -> Position]
        /\ then' \in [Task -> {"idle", "ack"}]
        /\ \A s \in RoomServer : at'[s] = at[s]
    BY <1>5, RoomKeysAssumption DEF SendKeys, DestroyKey, Step, RoomIInv, RoomTypes, Task,
       Position
  <2> QED
    BY <2>1, <2>2, PushKeepsRoom
<1>6. CASE OthersDistribute \/ OthersSend \/ OthersDestroy
  <2>1. Len(room) + 1 \in Nat /\ \A i \in DOMAIN room : room[i].key \in Nat \cup {NoKey}
    <3>1. Len(room) \in Nat /\ \A i \in DOMAIN room : room[i] \in RoomEvents
      BY LenProperties, ElementOfSeq DEF RoomIInv, RoomTypes
    <3> QED
      BY <3>1 DEF RoomEvents
  <2>2. PICK e \in RoomEvents : Push(e)
    <3>1. CASE OthersDistribute
      BY <2>1, <3>1 DEF OthersDistribute, Event, RoomEvents
    <3>2. CASE OthersSend
      BY <2>1, <3>2 DEF OthersSend, Event, RoomEvents
    <3>3. CASE OthersDestroy
      BY <3>3 DEF OthersDestroy, Event, RoomEvents
    <3> QED
      BY <1>6, <3>1, <3>2, <3>3
  <2>3. /\ UNCHANGED <<on, gone, key_file, at>> /\ at \in [Task -> Position]
        /\ then' \in [Task -> {"idle", "ack"}]
    BY <1>6 DEF OthersDistribute, OthersSend, OthersDestroy, RoomIInv, RoomTypes
  <2> QED
    BY <2>2, <2>3, PushKeepsRoom
<1>7. CASE TimePasses \/ UNCHANGED roomVars
  BY <1>7
  DEF TimePasses, roomVars, RoomIInv, RoomTypes, StreamAscends, OthersHandleNone, StoresLater,
      DestroyedStaysGone
<1> QED
  BY <1>1, <1>2, <1>3, <1>4, <1>5, <1>6, <1>7 DEF RoomNext, TaskRuns

\* While one stream brings the events of the room, no key that was distributed
\* before a key_destroy is on disk again once that is handled, whatever requests,
\* timers and events do to the two files.
THEOREM DestroyedGone ==
  ASSUME OneStream
  PROVE  RoomSpec => []DestroyedStaysGone
<1>1. RoomInit => RoomIInv
  BY RoomStart
<1>2. RoomIInv /\ [RoomNext]_roomVars => RoomIInv'
  BY RoomSteps
<1>3. RoomIInv => DestroyedStaysGone
  BY DEF RoomIInv
<1> QED
  BY <1>1, <1>2, <1>3, PTL DEF RoomSpec

\* With its types: the room is no longer than its bound, and what a task handles
\* is one of its events, or none.
RoomTyped ==
  /\ RoomTypeOK /\ Len(room) <= MaxRoomEvents
  /\ stream \in [RoomServer -> Seq(DOMAIN room)] /\ on \in [Task -> (DOMAIN room) \cup {0}]

LEMMA RoomInitTyped == RoomInit => RoomTyped
<1> SUFFICES ASSUME RoomInit  PROVE RoomTyped
  OBVIOUS
<1>1. /\ Len(<<>>) = 0 /\ MaxRoomEvents \in Nat /\ \A S : <<>> \in Seq(S)
  BY EmptySeq, RoomKeysAssumption
<1>2. 0 \in Keys /\ Len(room) <= MaxRoomEvents
  BY <1>1 DEF RoomInit, Keys
<1>3. NoMeta \in Metas
  BY DEF NoMeta, Metas
<1> QED  BY <1>1, <1>2, <1>3 DEF RoomInit, RoomTyped, RoomTypeOK

LEMMA RoomKeepsTypes == RoomTyped /\ [RoomNext]_roomVars => RoomTyped'
<1> SUFFICES ASSUME RoomTyped, [RoomNext]_roomVars  PROVE RoomTyped'
  OBVIOUS
<1> DEFINE AnEvent == [type : {"keys", "text", "destroy"}, from : Member \cup {Me},
                       key : Keys \cup {NoKey}, expires : BOOLEAN]
           Positions == {"idle", "fetching", "store_key", "store_meta", "members_read",
                         "members_write", "delete_key", "delete_meta", "ack", "send_keys"}
           RoomPart == room \in Seq(AnEvent) /\ Len(room) <= MaxRoomEvents
           WayPart == /\ stream \in [RoomServer -> Seq(DOMAIN room)]
                      /\ on \in [Task -> (DOMAIN room) \cup {0}]
           TaskPart == at \in [Task -> Positions] /\ then \in [Task -> {"idle", "ack"}]
           FilePart == /\ held \in [RoomServer -> Metas]
                       /\ key_file \in Keys \cup {NoKey} /\ meta_file \in Metas
           KeyPart == expired \subseteq Keys /\ gone \subseteq Keys
                        /\ excused \subseteq Keys \cup {NoKey}
           Parts == RoomPart /\ WayPart /\ TaskPart /\ FilePart /\ KeyPart
<1>1. Parts
  BY DEF RoomTyped, RoomTypeOK
<1>2. /\ MaxRoomEvents \in Nat /\ Len(room) \in Nat /\ DOMAIN room = 1..Len(room)
      /\ RoomServer \subseteq Task
  BY <1>1, LenProperties, RoomKeysAssumption DEF Task
<1>3. /\ DOMAIN room \subseteq Keys /\ 0 \in Keys
      /\ \A t \in Task : on[t] \in Keys
      /\ \A i \in DOMAIN room : room[i] \in AnEvent
  <2>1. DOMAIN room \subseteq Keys /\ 0 \in Keys
    BY <1>1, <1>2 DEF Keys
  <2>2. \A i \in DOMAIN room : room[i] \in AnEvent
    BY <1>1, <1>2, ElementOfSeq
  <2> QED  BY <1>1, <2>1, <2>2
<1>4. ASSUME Parts'  PROVE RoomTyped'
  <2>1. /\ Len(room') \in Nat /\ DOMAIN room' = 1..Len(room')
    BY <1>4, LenProperties
  <2>2. Len(room') <= MaxRoomEvents
    BY <1>4
  <2>3. DOMAIN room' \subseteq Keys /\ 0 \in Keys
    BY <1>2, <2>1, <2>2 DEF Keys
  <2>4. on' \in [Task -> Keys]
    BY <1>4, <2>3
  <2> QED  BY <1>4, <2>4 DEF RoomTyped, RoomTypeOK
<1> HIDE DEF AnEvent
<1>5. ASSUME UNCHANGED roomVars  PROVE Parts'
  BY <1>1, <1>5 DEF roomVars
<1>6. ASSUME NEW t \in Task, StoreKey(t)  PROVE Parts'
  BY <1>1, <1>3, <1>6 DEF StoreKey, Step
<1>7. ASSUME NEW t \in Task, StoreMeta(t)  PROVE Parts'
  <2>1. Meta(From(t), Expires(t)) \in Metas
    BY <1>1, <1>3 DEF Meta, From, Expires, Metas, AnEvent
  <2> QED  BY <1>1, <1>7, <2>1 DEF StoreMeta, Step
<1>8. ASSUME NEW s \in RoomServer, MembersRead(s) \/ MembersWrite(s)  PROVE Parts'
  <2>1. [meta_file EXCEPT !.exists = TRUE] \in Metas /\ NoMeta \in Metas /\ s \in Task
    BY <1>1, <1>2 DEF Metas, NoMeta
  <2>2. TaskPart' /\ RoomPart' /\ WayPart' /\ KeyPart'
    BY <1>1, <1>8, <2>1 DEF MembersRead, MembersWrite, Step
  <2>3. CASE MembersRead(s)
    <3>1. FilePart'
      BY <1>1, <2>1, <2>3 DEF MembersRead
    <3> QED  BY <2>2, <3>1
  <2>4. CASE MembersWrite(s)
    <3>1. FilePart'
      BY <1>1, <2>1, <2>4 DEF MembersWrite
    <3> QED  BY <2>2, <3>1
  <2> QED  BY <1>8, <2>3, <2>4
<1>9. ASSUME NEW t \in Task, DeleteKeyFile(t)  PROVE Parts'
  <2>1. Condemned(t) \subseteq Keys
    <3>1. ASSUME NEW k \in 1..on[t]  PROVE k \in Keys
      BY <1>2, <1>3 DEF Keys
    <3> QED  BY <3>1 DEF Condemned
  <2> QED  BY <1>1, <1>9, <2>1 DEF DeleteKeyFile, Step
<1>10. ASSUME NEW t \in Task, DeleteMetaFile(t)  PROVE Parts'
  <2>1. NoMeta \in Metas
    BY DEF Metas, NoMeta
  <2> QED  BY <1>1, <1>10, <2>1 DEF DeleteMetaFile, Step
<1>11. ASSUME NEW s \in RoomServer, RoomEvent(s)  PROVE Parts'
  <2>1. /\ Head(stream[s]) \in DOMAIN room /\ Tail(stream[s]) \in Seq(DOMAIN room)
    <3>1. stream[s] \in Seq(DOMAIN room) /\ stream[s] # <<>>
      BY <1>1, <1>11 DEF RoomEvent
    <3> QED  BY <3>1, HeadTailProperties
  <2>2. PICK e \in AnEvent : KeysArrive(s, e) \/ DestroyArrives(s, e) \/ TextArrives(s, e)
    BY <1>3, <1>11, <2>1 DEF RoomEvent
  <2>3. WayPart' /\ UNCHANGED <<room, held, key_file, meta_file, expired, gone>>
    BY <1>1, <1>2, <1>11, <2>1 DEF RoomEvent
  <2>4. e.key \in Keys \cup {NoKey}
    BY DEF AnEvent
  <2>5. TaskPart' /\ excused' \subseteq Keys \cup {NoKey}
    BY <1>1, <2>2, <2>4 DEF KeysArrive, DestroyArrives, TextArrives
  <2> QED  BY <1>1, <2>3, <2>5
<1>12. ASSUME NEW t \in Task, PublicKeyFetched(t) \/ PublicKeyFails(t)  PROVE Parts'
  BY <1>1, <1>3, <1>12 DEF PublicKeyFetched, PublicKeyFails, Step
<1>13. ASSUME NEW s \in RoomServer, Acknowledge(s)  PROVE Parts'
  BY <1>1, <1>2, <1>13 DEF Acknowledge, Step
<1>14. ASSUME NEW e \in AnEvent, Push(e), UNCHANGED on  PROVE RoomPart' /\ WayPart'
  <2>1. room' = Append(room, e) /\ Len(room) < MaxRoomEvents
    BY <1>14 DEF Push
  <2>2. /\ Append(room, e) \in Seq(AnEvent) /\ Len(Append(room, e)) = Len(room) + 1
        /\ DOMAIN Append(room, e) = 1..(Len(room) + 1)
    BY <1>1, <1>2, AppendProperties, LenProperties
  <2>3. /\ Len(Append(room, e)) <= MaxRoomEvents
        /\ DOMAIN room \subseteq DOMAIN Append(room, e)
        /\ Len(room) + 1 \in DOMAIN Append(room, e)
    BY <1>2, <2>1, <2>2
  <2>4. RoomPart'
    BY <2>1, <2>2, <2>3, Zenon
  <2>5. PICK D : D = DOMAIN Append(room, e)
    OBVIOUS
  <2>6. \A s \in RoomServer : stream[s] \in Seq(D)
    BY <1>1, <2>3, <2>5, SeqWidens
  <2>7. \A s \in RoomServer : Append(stream[s], Len(room) + 1) \in Seq(D)
    BY <2>3, <2>5, <2>6, AppendProperties
  <2>8. stream' \in [RoomServer -> Seq(D)]
    BY <1>1, <1>14, <2>6, <2>7 DEF Push
  <2>9. on' \in [Task -> D \cup {0}]
    BY <1>1, <1>14, <2>3, <2>5
  <2> QED  BY <2>1, <2>4, <2>5, <2>8, <2>9
<1>15. ASSUME CreateRoom  PROVE Parts'
  BY <1>1, <1>15 DEF CreateRoom, Step
<1>16. \A type \in {"keys", "text", "destroy"}, from \in Member \cup {Me},
          key \in Keys \cup {NoKey}, x \in BOOLEAN : Event(type, from, key, x) \in AnEvent
  BY DEF Event, AnEvent
<1>17. ASSUME SendKeys \/ DestroyKey  PROVE Parts'
  <2>1. RoomPart' /\ WayPart'
    BY <1>3, <1>14, <1>16, <1>17 DEF SendKeys, DestroyKey
  <2> QED  BY <1>1, <1>17, <2>1 DEF SendKeys, DestroyKey, Step
<1>18. ASSUME NEW t \in Task, FindsExpired(t)  PROVE Parts'
  BY <1>1, <1>18 DEF FindsExpired, Step
<1>19. ASSUME OthersDistribute \/ OthersSend \/ OthersDestroy  PROVE Parts'
  <2>1. PICK e \in AnEvent : Push(e)
    <3>1. ASSUME NEW m \in Member, NEW x \in BOOLEAN,
                 Push(Event("keys", m, Len(room) + 1, x))
          PROVE  Event("keys", m, Len(room) + 1, x) \in AnEvent
      <4>1. Len(room) + 1 \in Keys
        BY <1>2, <3>1 DEF Push, Keys
      <4> QED  BY <1>16, <4>1
    <3>2. ASSUME NEW i \in DOMAIN room  PROVE room[i].key \in Keys \cup {NoKey}
      BY <1>3 DEF AnEvent
    <3>3. CASE OthersDistribute
      BY <3>1, <3>3 DEF OthersDistribute
    <3>4. CASE OthersSend
      BY <1>16, <3>2, <3>4 DEF OthersSend
    <3>5. CASE OthersDestroy
      BY <1>16, <3>5 DEF OthersDestroy
    <3> QED  BY <1>19, <3>3, <3>4, <3>5
  <2>2. RoomPart' /\ WayPart'
    BY <1>14, <1>19, <2>1 DEF OthersDistribute, OthersSend, OthersDestroy
  <2> QED  BY <1>1, <1>19, <2>2 DEF OthersDistribute, OthersSend, OthersDestroy
<1>20. ASSUME TimePasses  PROVE Parts'
  BY <1>1, <1>3, <1>20 DEF TimePasses
<1> HIDE DEF Parts
<1> QED
  BY <1>4, <1>5, <1>6, <1>7, <1>8, <1>9, <1>10, <1>11, <1>12, <1>13, <1>15, <1>17, <1>18,
     <1>19, <1>20
  DEF RoomNext, TaskRuns

\* The events of a room, what handles them and the files they leave keep to their
\* types (puller.rs), for streams of ours and others' that interleave in any way.
THEOREM RoomStatesTyped == RoomSpec => []RoomTypeOK
<1>1. RoomSpec => []RoomTyped
  BY RoomInitTyped, RoomKeepsTypes, PTL DEF RoomSpec
<1>2. RoomTyped => RoomTypeOK
  BY DEF RoomTyped
<1> QED  BY <1>1, <1>2, PTL

-----------------------------------------------------------------------------
(***************************************************************************)
(* A text under the room's latest key is read, for any number of members   *)
(* and events, while one server's stream brings them.                      *)
(*                                                                         *)
(* The stream leaves nothing out (StreamWhole), so the event of a text's   *)
(* key was handled before the text; once it is, the key is on disk unless  *)
(* it could not be had, was deleted, or gave way to a later one            *)
(* (OthersKeyKept).  Our own key is written over others' and others' over  *)
(* ours, but there is no room with both (OursAlone).                       *)
(***************************************************************************)

\* Event i distributes a key.
KeyEvent(i) == i \in 1 .. Len(room) /\ room[i].type = "keys"

\* Our own key is 0, another's the number of its event; a text is in the clear
\* or under a key distributed before it.
KeysNumbered ==
  \A i \in 1 .. Len(room) :
    /\ room[i].type = "keys" => room[i].key = IF room[i].from = Me THEN 0 ELSE i
    /\ room[i].type = "text" /\ room[i].key # NoKey =>
         \E j \in 1 .. i - 1 : KeyEvent(j) /\ room[j].key = room[i].key

\* In a room of ours nobody else distributes keys, nor while it is created.
OursAlone ==
  /\ \A i, j \in 1 .. Len(room) :
       KeyEvent(i) /\ KeyEvent(j) /\ room[i].key = 0 => room[j].key = 0
  /\ Creating => \A i \in 1 .. Len(room) : ~KeyEvent(i)

\* A stream brings what others send and nothing else, and leaves nothing out.
StreamWhole ==
  \A s \in RoomServer :
    /\ \A j \in 1 .. Len(stream[s]) : room[stream[s][j]].from # Me
    /\ \A i \in 1 .. Len(room) : room[i].from # Me /\ on[s] < i =>
         \E j \in 1 .. Len(stream[s]) : stream[s][j] = i

TakesKey(t) == at[t] \in {"fetching", "store_key"}

\* A stream's handler stores the key of the event it handles; the timer none.
StoresItsKey ==
  /\ \A s \in RoomServer : TakesKey(s) => KeyEvent(on[s]) /\ room[on[s]].key = on[s]
  /\ ~TakesKey("timer")

\* A key distributed by others is on disk once its event is handled, unless it
\* is not to be had or a later one has come.
OthersKeyKept ==
  \A s \in RoomServer : \A i \in 1 .. on[s] :
    KeyEvent(i) /\ room[i].key = i =>
      \/ i = key_file
      \/ i \in excused
      \/ \E j \in i + 1 .. on[s] : KeyEvent(j)
      \/ i = on[s] /\ TakesKey(s)

\* So is ours, from the moment it is stored.
OwnKeyKept ==
  (\E i \in 1 .. Len(room) : KeyEvent(i) /\ room[i].key = 0)
    \/ at["http"] \in {"store_meta", "send_keys"}
  => key_file = 0 \/ 0 \in excused

Readings == Nat \X {"clear", "missing", "failed", "notice"}

Excusable(e) == room[e].key \in excused \/ Superseded(room[e].key, e)

ReadOrExcused(x) ==
  x[2] \in {"missing", "failed"} => x[1] \in 1 .. Len(room) /\ Excusable(x[1])

TextsExcused ==
  /\ texts \in Seq(Readings)
  /\ \A i \in 1 .. Len(texts) : ReadOrExcused(texts[i])

KeysIInv ==
  /\ KeysNumbered /\ OursAlone /\ StreamWhole /\ StoresItsKey
  /\ OthersKeyKept /\ OwnKeyKept /\ TextsExcused

LEMMA KeysStart == RoomInit => KeysIInv
<1> SUFFICES ASSUME RoomInit PROVE KeysIInv
  OBVIOUS
<1>1. room = <<>> /\ texts = <<>> /\ stream = [s \in RoomServer |-> <<>>]
      /\ at = [t \in Task |-> "idle"] /\ on = [t \in Task |-> 0]
  BY DEF RoomInit
<1>2. Len(room) = 0 /\ Len(texts) = 0 /\ texts \in Seq(Readings) /\ 1 .. 0 = {}
  BY <1>1, EmptySeq
<1>3. \A s \in RoomServer : on[s] = 0 /\ at[s] = "idle"
  BY <1>1 DEF Task
<1>4. at["http"] = "idle" /\ at["timer"] = "idle"
  BY <1>1 DEF Task
<1>5. \A i : ~KeyEvent(i)
  BY <1>2 DEF KeyEvent
<1>6. \A i : i \notin 1 .. Len(room) /\ i \notin 1 .. Len(texts)
  BY <1>2
<1>7. \A s \in RoomServer : \A i : i \notin 1 .. on[s] /\ i \notin 1 .. Len(stream[s])
  BY <1>1, <1>3, EmptySeq
<1>8. KeysNumbered /\ OursAlone /\ OwnKeyKept
  BY <1>4, <1>5, <1>6 DEF KeysNumbered, OursAlone, OwnKeyKept
<1>9. StreamWhole /\ OthersKeyKept
  BY <1>6, <1>7 DEF StreamWhole, OthersKeyKept
<1>10. StoresItsKey
  BY <1>3, <1>4 DEF StoresItsKey, TakesKey
<1>11. TextsExcused
  BY <1>2, <1>6 DEF TextsExcused
<1> QED
  BY <1>8, <1>9, <1>10, <1>11 DEF KeysIInv

\* What was excusable stays it, and what is heard does not change.
LEMMA TextsStayExcused ==
  ASSUME TextsExcused, Len(room) \in Nat, Len(room') \in Nat, Len(room) <= Len(room'),
         DOMAIN room = 1 .. Len(room), DOMAIN room' = 1 .. Len(room'),
         \A i \in 1 .. Len(room) : room'[i] = room[i],
         excused \subseteq excused', texts' = texts
  PROVE  TextsExcused'
<1>1. ASSUME NEW e \in 1 .. Len(room), Excusable(e)
      PROVE  e \in 1 .. Len(room') /\ Excusable(e)'
  BY <1>1 DEF Excusable, Superseded
<1>2. ASSUME NEW x, ReadOrExcused(x)
      PROVE  ReadOrExcused(x)'
  BY <1>1, <1>2 DEF ReadOrExcused
<1>3. ASSUME NEW i \in 1 .. Len(texts'), NEW x, x = texts'[i]
      PROVE  ReadOrExcused(x)'
  BY <1>2, <1>3 DEF TextsExcused
<1> QED
  BY <1>3 DEF TextsExcused, ReadOrExcused, Excusable, Superseded

\* One more text, of which only the last has to be shown.
LEMMA OneMoreText ==
  ASSUME TextsExcused, NEW x \in Readings, texts' = Append(texts, x), room' = room,
         excused \subseteq excused', ReadOrExcused(x)'
  PROVE  TextsExcused'
<1>1. texts \in Seq(Readings)
  BY DEF TextsExcused
<1>2. /\ texts' \in Seq(Readings) /\ Len(texts') = Len(texts) + 1 /\ Len(texts) \in Nat
      /\ texts'[Len(texts) + 1] = x
      /\ \A i \in 1 .. Len(texts) : texts'[i] = texts[i]
  BY <1>1, AppendProperties, LenProperties
<1>3. ASSUME NEW y, ReadOrExcused(y)
      PROVE  ReadOrExcused(y)'
  BY <1>3 DEF ReadOrExcused, Excusable, Superseded
<1>4. ASSUME NEW i \in 1 .. Len(texts'), NEW y, y = texts'[i]
      PROVE  ReadOrExcused(y)'
  <2>1. CASE i = Len(texts) + 1
    <3>1. x = y
      BY <1>2, <1>4, <2>1
    <3> QED
      BY <3>1
  <2>2. CASE i # Len(texts) + 1
    <3>1. i \in 1 .. Len(texts) /\ y = texts[i]
      BY <1>2, <1>4, <2>2
    <3>2. ReadOrExcused(y)
      BY <3>1 DEF TextsExcused
    <3> QED
      BY <1>3, <3>2
  <2> QED
    BY <2>1, <2>2
<1> QED
  BY <1>2, <1>4 DEF TextsExcused, ReadOrExcused, Excusable, Superseded

\* A step of one task that handles no other event and leaves the key alone.
LEMMA TaskKeepsKeys ==
  ASSUME RoomIInv, KeysIInv, NEW t \in Task, NEW next \in Position,
         at' = [at EXCEPT ![t] = next], UNCHANGED <<room, stream, on, key_file>>,
         excused \subseteq excused', TextsExcused',
         t \in RoomServer /\ TakesKey(t) =>
           next \in {"fetching", "store_key"} \/ on[t] \in excused',
         next \in {"fetching", "store_key"} => TakesKey(t) \/ t = "http",
         t = "http" /\ next \in {"fetching", "store_key", "store_meta", "send_keys"} =>
           Creating \/ room = <<>>,
         t = "http" /\ next \in {"store_meta", "send_keys"} =>
           at["http"] \in {"store_meta", "send_keys"}
  PROVE  KeysIInv'
<1>1. at \in [Task -> Position]
  BY DEF RoomIInv, RoomTypes
<1>2. "http" \in Task /\ "timer" \in Task /\ "http" \notin RoomServer /\ "timer" # "http"
      /\ "timer" \notin RoomServer /\ RoomServer \subseteq Task
  BY RoomKeysAssumption DEF Task
<1>3. \A i : KeyEvent(i) => KeyEvent(i)'
  BY DEF KeyEvent
<1>4. \A i : KeyEvent(i)' => KeyEvent(i)
  BY DEF KeyEvent
<1>5. KeysNumbered'
  BY <1>3 DEF KeysIInv, KeysNumbered
<1>6. OursAlone'
  <2>1. Creating' => Creating \/ room = <<>>
    BY <1>1, <1>2 DEF Creating
  <2>2. room = <<>> => \A i : ~KeyEvent(i)
    BY EmptySeq DEF KeyEvent
  <2> QED
    BY <1>4, <2>1, <2>2 DEF KeysIInv, OursAlone
<1>7. StreamWhole'
  BY DEF KeysIInv, StreamWhole
<1>8. \A r \in Task : r # t => at'[r] = at[r]
  BY <1>1
<1>9. \A r \in RoomServer \cup {"timer"} : TakesKey(r)' => TakesKey(r)
  BY <1>1, <1>2, <1>8 DEF TakesKey
<1>10. \A r \in RoomServer : TakesKey(r) => TakesKey(r)' \/ on[r] \in excused'
  BY <1>1, <1>2, <1>8 DEF TakesKey
<1>11. StoresItsKey'
  BY <1>3, <1>9 DEF KeysIInv, StoresItsKey
<1>12. OthersKeyKept'
  BY <1>3, <1>4, <1>10 DEF KeysIInv, OthersKeyKept
<1>13. OwnKeyKept'
  <2>1. at'["http"] \in {"store_meta", "send_keys"} =>
          at["http"] \in {"store_meta", "send_keys"}
    BY <1>1, <1>2
  <2> QED
    BY <1>4, <2>1 DEF KeysIInv, OwnKeyKept
<1> QED
  BY <1>5, <1>6, <1>7, <1>11, <1>12, <1>13 DEF KeysIInv

\* A stored key is the latest distributed, or ours and the only one.
LEMMA StoreKeepsKeys ==
  ASSUME OneStream, RoomIInv, KeysIInv, NEW t \in Task, StoreKey(t)
  PROVE  KeysIInv'
<1>1. /\ at[t] = "store_key" /\ at' = [at EXCEPT ![t] = "store_meta"] /\ key_file' = on[t]
      /\ UNCHANGED <<room, stream, on, texts, excused>>
  BY DEF StoreKey, Step
<1>2. at \in [Task -> Position] /\ on \in [Task -> Nat]
      /\ \A r \in Task \ RoomServer : on[r] = 0
  BY DEF RoomIInv, RoomTypes, OthersHandleNone
<1>3. "http" \in Task /\ "timer" \in Task /\ "http" \notin RoomServer /\ "timer" # "http"
      /\ "timer" \notin RoomServer /\ RoomServer \subseteq Task
      /\ Task = RoomServer \cup {"http", "timer"}
  BY RoomKeysAssumption DEF Task
<1>4. \A i : KeyEvent(i) => KeyEvent(i)'
  BY <1>1 DEF KeyEvent
<1>5. \A i : KeyEvent(i)' => KeyEvent(i)
  BY <1>1 DEF KeyEvent
<1>6. KeysNumbered' /\ StreamWhole' /\ TextsExcused'
  BY <1>1, <1>4 DEF KeysIInv, KeysNumbered, StreamWhole, TextsExcused, ReadOrExcused,
     Excusable, Superseded
<1>7. \A r \in Task : at'[r] = at[r] \/ r = t
  BY <1>1, <1>2
<1>8. at'[t] = "store_meta"
  BY <1>1, <1>2
<1>9. OursAlone'
  <2>1. Creating' => Creating
    BY <1>1, <1>3, <1>7 DEF Creating
  <2> QED
    BY <1>1, <1>5, <2>1 DEF KeysIInv, OursAlone
<1>10. StoresItsKey'
  BY <1>1, <1>3, <1>4, <1>7, <1>8 DEF KeysIInv, StoresItsKey, TakesKey
<1>11. t # "timer"
  BY <1>1 DEF KeysIInv, StoresItsKey, TakesKey
<1>12. CASE t \in RoomServer
  <2>1. KeyEvent(on[t]) /\ room[on[t]].key = on[t] /\ on[t] \in 1 .. Len(room)
    BY <1>1, <1>12 DEF KeysIInv, StoresItsKey, TakesKey, KeyEvent
  <2>2. on[t] \in Nat \ {0}
    BY <2>1, <1>2
  <2>3. OthersKeyKept'
    <3> SUFFICES ASSUME NEW s \in RoomServer, NEW i \in 1 .. on[s]
                 PROVE  i = on[t] \/ \E j \in i + 1 .. on[s] : KeyEvent(j)'
      BY <1>1 DEF OthersKeyKept
    <3>1. s = t
      BY <1>12 DEF OneStream
    <3>2. i # on[t] => on[t] \in i + 1 .. on[s]
      BY <2>2, <3>1
    <3> QED
      BY <1>4, <2>1, <3>2
  <2>4. ~ \E i \in 1 .. Len(room) : KeyEvent(i) /\ room[i].key = 0
    BY <2>1, <2>2 DEF KeysIInv, OursAlone
  <2>5. ~Creating
    BY <2>1 DEF KeysIInv, OursAlone
  <2>6. OwnKeyKept'
    BY <1>1, <1>3, <1>5, <1>7, <1>12, <2>4, <2>5 DEF OwnKeyKept, Creating
  <2> QED
    BY <1>6, <1>9, <1>10, <2>3, <2>6 DEF KeysIInv
<1>13. CASE t = "http"
  <2>1. Creating
    BY <1>1, <1>13 DEF Creating
  <2>2. \A i : ~KeyEvent(i)
    BY <2>1 DEF KeysIInv, OursAlone, KeyEvent
  <2>3. OthersKeyKept'
    BY <1>5, <2>2 DEF OthersKeyKept
  <2>4. key_file' = 0
    BY <1>1, <1>2, <1>3, <1>13
  <2>5. OwnKeyKept'
    BY <2>4 DEF OwnKeyKept
  <2> QED
    BY <1>6, <1>9, <1>10, <2>3, <2>5 DEF KeysIInv
<1> QED
  BY <1>3, <1>11, <1>12, <1>13

\* A key that is deleted is excused.
LEMMA DeleteKeepsKeys ==
  ASSUME RoomIInv, KeysIInv, NEW t \in Task, DeleteKeyFile(t)
  PROVE  KeysIInv'
<1>1. /\ at[t] = "delete_key" /\ at' = [at EXCEPT ![t] = "delete_meta"] /\ key_file' = NoKey
      /\ excused' = excused \cup {key_file} /\ UNCHANGED <<room, stream, on, texts>>
  BY DEF DeleteKeyFile, Step
<1>2. at \in [Task -> Position]
  BY DEF RoomIInv, RoomTypes
<1>3. "http" \in Task /\ "timer" \in Task /\ RoomServer \subseteq Task
  BY DEF Task
<1>4. \A i : KeyEvent(i) => KeyEvent(i)'
  BY <1>1 DEF KeyEvent
<1>5. \A i : KeyEvent(i)' => KeyEvent(i)
  BY <1>1 DEF KeyEvent
<1>6. KeysNumbered' /\ StreamWhole'
  BY <1>1, <1>4 DEF KeysIInv, KeysNumbered, StreamWhole
<1>7. TextsExcused'
  BY <1>1 DEF KeysIInv, TextsExcused, ReadOrExcused, Excusable, Superseded
<1>8. \A r \in Task : at'[r] = at[r] \/ (at[r] = "delete_key" /\ at'[r] = "delete_meta")
  BY <1>1, <1>2
<1>9. OursAlone'
  <2>1. Creating' => Creating
    BY <1>3, <1>8 DEF Creating
  <2> QED
    BY <1>1, <1>5, <2>1 DEF KeysIInv, OursAlone
<1>10. \A r \in Task : TakesKey(r)' <=> TakesKey(r)
  BY <1>8 DEF TakesKey
<1>11. StoresItsKey'
  BY <1>1, <1>3, <1>4, <1>10 DEF KeysIInv, StoresItsKey
<1>12. OthersKeyKept'
  BY <1>1, <1>3, <1>4, <1>5, <1>10 DEF KeysIInv, OthersKeyKept
<1>13. OwnKeyKept'
  BY <1>1, <1>3, <1>5, <1>8 DEF KeysIInv, OwnKeyKept
<1> QED
  BY <1>6, <1>7, <1>9, <1>11, <1>12, <1>13 DEF KeysIInv

\* An event comes behind those that were handled.
LEMMA PushKeepsKeys ==
  ASSUME RoomIInv, KeysIInv, NEW e \in RoomEvents, Push(e),
         UNCHANGED <<on, key_file, texts, excused>>,
         \A t \in Task : t # "http" => at'[t] = at[t], Creating' => Creating,
         at'["http"] \in {"store_meta", "send_keys"} =>
           at["http"] \in {"store_meta", "send_keys"},
         e.type = "keys" => ~Creating',
         e.type = "keys" /\ e.from = Me =>
           e.key = 0 /\ Creating /\ at["http"] = "send_keys",
         e.type = "keys" /\ e.from # Me =>
           e.key = Len(room) + 1 /\ \A i \in 1 .. Len(room) : KeyEvent(i) => room[i].key # 0,
         e.type = "text" /\ e.key # NoKey =>
           \E j \in 1 .. Len(room) : KeyEvent(j) /\ room[j].key = e.key
  PROVE  KeysIInv'
<1> DEFINE n == Len(room) + 1
<1>1. room \in Seq(RoomEvents) /\ room' = Append(room, e)
  BY DEF Push, RoomIInv, RoomTypes
<1>2. /\ Len(room) \in Nat /\ Len(room') = n /\ n \in Nat
      /\ DOMAIN room = 1 .. Len(room) /\ DOMAIN room' = 1 .. Len(room')
      /\ room' \in Seq(RoomEvents)
      /\ \A i \in 1 .. Len(room) : room'[i] = room[i]
      /\ room'[n] = e
  BY <1>1, AppendProperties, LenProperties
<1>3. "http" \in Task /\ "timer" \in Task /\ "http" \notin RoomServer /\ "timer" # "http"
      /\ "timer" \notin RoomServer /\ RoomServer \subseteq Task
  BY RoomKeysAssumption DEF Task
<1> HIDE DEF n
<1>4. 1 .. Len(room') = (1 .. Len(room)) \cup {n} /\ Len(room) < n /\ n \notin 1 .. Len(room)
  BY <1>2 DEF n
<1>5. \A i : KeyEvent(i)' <=> KeyEvent(i) \/ (i = n /\ e.type = "keys")
  BY <1>2, <1>4 DEF KeyEvent
<1>6. KeysNumbered'
  <2>1. ASSUME NEW i \in 1 .. Len(room), KeysNumbered
        PROVE  /\ room'[i].type = "keys" => room'[i].key = IF room'[i].from = Me THEN 0 ELSE i
               /\ room'[i].type = "text" /\ room'[i].key # NoKey =>
                    \E j \in 1 .. i - 1 : KeyEvent(j)' /\ room'[j].key = room'[i].key
    <3>1. room'[i] = room[i] /\ \A j \in 1 .. i - 1 : room'[j] = room[j]
      BY <1>2
    <3> QED
      BY <1>5, <2>1, <3>1 DEF KeysNumbered
  <2>2. /\ e.type = "keys" => e.key = IF e.from = Me THEN 0 ELSE n
        /\ e.type = "text" /\ e.key # NoKey =>
             \E j \in 1 .. n - 1 : KeyEvent(j)' /\ room'[j].key = e.key
    <3>1. n - 1 = Len(room)
      BY <1>2 DEF n
    <3> QED
      BY <1>2, <1>5, <3>1 DEF n
  <2> QED
    BY <1>2, <1>4, <2>1, <2>2 DEF KeysNumbered, KeysIInv
<1>7. OursAlone'
  <2>1. CASE e.type # "keys"
    <3>1. \A i : KeyEvent(i) => i \in 1 .. Len(room) /\ room'[i] = room[i]
      BY <1>2 DEF KeyEvent
    <3>2. \A i : KeyEvent(i)' => KeyEvent(i)
      BY <1>5, <2>1
    <3>3. /\ \A i, j \in 1 .. Len(room) :
               KeyEvent(i) /\ KeyEvent(j) /\ room[i].key = 0 => room[j].key = 0
          /\ Creating => \A i : ~KeyEvent(i)
      BY <3>1 DEF KeysIInv, OursAlone
    <3> QED
      BY <3>1, <3>2, <3>3 DEF OursAlone
  <2>2. CASE e.type = "keys" /\ e.from = Me
    <3>1. \A i : ~KeyEvent(i)
      BY <2>2 DEF KeysIInv, OursAlone, KeyEvent
    <3>2. \A i : KeyEvent(i)' => i = n
      BY <1>5, <3>1
    <3>3. room'[n].key = 0 /\ ~Creating'
      BY <1>2, <2>2
    <3> QED
      BY <3>2, <3>3 DEF OursAlone
  <2>3. CASE e.type = "keys" /\ e.from # Me
    <3>1. \A i \in 1 .. Len(room') : KeyEvent(i)' => room'[i].key # 0
      BY <1>2, <1>4, <1>5, <2>3 DEF n
    <3> QED
      BY <2>3, <3>1 DEF OursAlone
  <2> QED
    BY <2>1, <2>2, <2>3
<1>8. \A s \in RoomServer : /\ stream[s] \in Seq(Nat) /\ on[s] \in Nat /\ on[s] <= Len(room)
                            /\ \A j \in 1 .. Len(stream[s]) : stream[s][j] \in 1 .. Len(room)
  <2> SUFFICES ASSUME NEW s \in RoomServer
               PROVE  /\ stream[s] \in Seq(Nat) /\ on[s] \in Nat /\ on[s] <= Len(room)
                      /\ \A j \in 1 .. Len(stream[s]) : stream[s][j] \in 1 .. Len(room)
    OBVIOUS
  <2>1. stream[s] \in Seq(Nat) /\ on[s] \in Nat
    BY <1>3 DEF RoomIInv, RoomTypes
  <2>2. \A j \in 1 .. Len(stream[s]) : stream[s][j] \in Nat
    BY <2>1, ElementOfSeq
  <2>3. /\ on[s] <= Len(room)
        /\ \A j \in 1 .. Len(stream[s]) : on[s] < stream[s][j] /\ stream[s][j] <= Len(room)
    BY DEF RoomIInv, StreamAscends
  <2> QED
    BY <1>2, <2>1, <2>2, <2>3
<1>9. StreamWhole'
  <2> SUFFICES ASSUME NEW s \in RoomServer
               PROVE  /\ \A j \in 1 .. Len(stream'[s]) : room'[stream'[s][j]].from # Me
                      /\ \A i \in 1 .. Len(room') : room'[i].from # Me /\ on[s] < i =>
                           \E j \in 1 .. Len(stream'[s]) : stream'[s][j] = i
    BY DEF StreamWhole
  <2>1. /\ \A j \in 1 .. Len(stream[s]) : room'[stream[s][j]].from # Me
        /\ \A i \in 1 .. Len(room) : room'[i].from # Me /\ on[s] < i =>
             \E j \in 1 .. Len(stream[s]) : stream[s][j] = i
    BY <1>2, <1>8 DEF KeysIInv, StreamWhole
  <2>2. CASE e.from = Me
    <3>1. stream' = stream
      BY <2>2 DEF Push
    <3> QED
      BY <1>2, <1>4, <2>1, <2>2, <3>1
  <2>3. CASE e.from # Me
    <3>1. stream'[s] = Append(stream[s], n)
      BY <2>3 DEF Push, n
    <3>2. /\ Len(stream'[s]) = Len(stream[s]) + 1 /\ Len(stream[s]) \in Nat
          /\ stream'[s][Len(stream[s]) + 1] = n
          /\ \A j \in 1 .. Len(stream[s]) : stream'[s][j] = stream[s][j]
      BY <1>2, <1>8, <3>1, AppendProperties, LenProperties
    <3>3. 1 .. Len(stream'[s]) = (1 .. Len(stream[s])) \cup {Len(stream[s]) + 1}
      BY <3>2
    <3>4. \A j \in 1 .. Len(stream'[s]) : room'[stream'[s][j]].from # Me
      BY <1>2, <2>1, <2>3, <3>2, <3>3
    <3>5. ASSUME NEW i \in 1 .. Len(room'), room'[i].from # Me, on[s] < i
          PROVE  \E j \in 1 .. Len(stream'[s]) : stream'[s][j] = i
      <4>1. CASE i = n
        BY <3>2, <3>3, <4>1
      <4>2. CASE i # n
        <5>1. i \in 1 .. Len(room)
          BY <1>4, <4>2
        <5>2. PICK j \in 1 .. Len(stream[s]) : stream[s][j] = i
          BY <2>1, <3>5, <5>1
        <5> QED
          BY <3>2, <3>3, <5>2
      <4> QED
        BY <4>1, <4>2
    <3> QED
      BY <3>4, <3>5
  <2> QED
    BY <2>2, <2>3
<1>10. \A t \in RoomServer \cup {"timer"} : TakesKey(t)' <=> TakesKey(t)
  BY <1>3 DEF TakesKey
<1>11. StoresItsKey'
  <2>1. \A i : KeyEvent(i) => room'[i] = room[i]
    BY <1>2 DEF KeyEvent
  <2> QED
    BY <1>5, <1>10, <2>1 DEF KeysIInv, StoresItsKey
<1>12. OthersKeyKept'
  <2> SUFFICES ASSUME NEW s \in RoomServer, NEW i \in 1 .. on[s], KeyEvent(i)',
                      room'[i].key = i
               PROVE  \/ i = key_file
                      \/ i \in excused
                      \/ \E j \in i + 1 .. on[s] : KeyEvent(j)'
                      \/ i = on[s] /\ TakesKey(s)'
    BY DEF OthersKeyKept
  <2>1. i \in 1 .. Len(room)
    BY <1>2, <1>8
  <2>2. KeyEvent(i) /\ room[i].key = i
    BY <1>2, <1>4, <1>5, <2>1
  <2> QED
    BY <1>5, <1>10, <2>2 DEF KeysIInv, OthersKeyKept
<1>13. OwnKeyKept'
  <2>1. CASE e.type = "keys" /\ e.from = Me
    BY <2>1 DEF KeysIInv, OwnKeyKept
  <2>2. CASE ~(e.type = "keys" /\ e.from = Me)
    <3>1. ASSUME NEW i \in 1 .. Len(room'), KeyEvent(i)', room'[i].key = 0
          PROVE  i \in 1 .. Len(room) /\ KeyEvent(i) /\ room[i].key = 0
      <4>1. i # n
        <5> SUFFICES ASSUME i = n PROVE FALSE
          OBVIOUS
        <5>1. e.type = "keys" /\ e.key = 0
          BY <1>2, <1>4, <1>5, <3>1 DEF KeyEvent
        <5>2. e.key = n /\ n # 0
          BY <1>2, <2>2, <5>1 DEF n
        <5> QED
          BY <5>1, <5>2
      <4> QED
        BY <1>2, <1>4, <1>5, <3>1, <4>1
    <3> QED
      BY <3>1 DEF KeysIInv, OwnKeyKept
  <2> QED
    BY <2>1, <2>2
<1>14. TextsExcused'
  BY <1>2, <1>4, TextsStayExcused DEF KeysIInv, n
<1> QED
  BY <1>6, <1>7, <1>9, <1>11, <1>12, <1>13, <1>14 DEF KeysIInv

\* The next event: all others sent before it has been handled.
LEMMA NextEvent ==
  ASSUME RoomIInv, KeysIInv, NEW s \in RoomServer, stream[s] # <<>>
  PROVE  /\ Head(stream[s]) \in 1 .. Len(room) /\ on[s] < Head(stream[s]) /\ on[s] \in Nat
         /\ room[Head(stream[s])].from # Me
         /\ \A i \in 1 .. Len(room) : room[i].from # Me /\ i < Head(stream[s]) => i <= on[s]
         /\ \A j \in 1 .. Len(Tail(stream[s])) : room[Tail(stream[s])[j]].from # Me
         /\ \A i \in 1 .. Len(room) : room[i].from # Me /\ Head(stream[s]) < i =>
              \E j \in 1 .. Len(Tail(stream[s])) : Tail(stream[s])[j] = i
<1> DEFINE q == stream[s]
<1>1. q \in Seq(Nat) /\ on[s] \in Nat /\ Len(room) \in Nat
  BY LenProperties DEF RoomIInv, RoomTypes, Task
<1>2. /\ Len(q) \in Nat \ {0} /\ Head(q) = q[1] /\ Head(q) \in Nat
      /\ Len(Tail(q)) = Len(q) - 1
      /\ \A i \in 1 .. Len(q) - 1 : Tail(q)[i] = q[i + 1]
  BY <1>1, EmptySeq, LenProperties, HeadTailProperties
<1>3. \A i, j \in 1 .. Len(q) : i < j => q[i] < q[j]
  BY DEF RoomIInv, StreamAscends
<1>4. on[s] < q[1] /\ q[1] <= Len(room) /\ 1 \in 1 .. Len(q)
  BY <1>2 DEF RoomIInv, StreamAscends
<1>5. /\ \A j \in 1 .. Len(q) : room[q[j]].from # Me
      /\ \A i \in 1 .. Len(room) : room[i].from # Me /\ on[s] < i =>
           \E j \in 1 .. Len(q) : q[j] = i
  BY DEF KeysIInv, StreamWhole
<1>6. \A j \in 1 .. Len(q) : q[j] \in Nat
  BY <1>1, ElementOfSeq
<1> HIDE DEF q
<1>7. \A i \in 1 .. Len(room) : room[i].from # Me /\ i < Head(q) => i <= on[s]
  <2> SUFFICES ASSUME NEW i \in 1 .. Len(room), room[i].from # Me, i < Head(q), ~(i <= on[s])
               PROVE  FALSE
    OBVIOUS
  <2>1. PICK j \in 1 .. Len(q) : q[j] = i
    BY <1>1, <1>5
  <2>2. j # 1 => q[1] < q[j]
    BY <1>2, <1>3, <1>4
  <2> QED
    BY <1>1, <1>2, <2>1, <2>2
<1>8. \A j \in 1 .. Len(Tail(q)) : room[Tail(q)[j]].from # Me
  <2> SUFFICES ASSUME NEW j \in 1 .. Len(Tail(q)) PROVE room[Tail(q)[j]].from # Me
    OBVIOUS
  <2>1. j + 1 \in 1 .. Len(q) /\ Tail(q)[j] = q[j + 1]
    BY <1>2
  <2> QED
    BY <1>5, <2>1
<1>9. \A i \in 1 .. Len(room) : room[i].from # Me /\ Head(q) < i =>
        \E j \in 1 .. Len(Tail(q)) : Tail(q)[j] = i
  <2> SUFFICES ASSUME NEW i \in 1 .. Len(room), room[i].from # Me, Head(q) < i
               PROVE  \E j \in 1 .. Len(Tail(q)) : Tail(q)[j] = i
    OBVIOUS
  <2>1. PICK j \in 1 .. Len(q) : q[j] = i
    BY <1>1, <1>2, <1>4, <1>5
  <2>2. j # 1
    BY <1>2, <2>1
  <2>3. j - 1 \in 1 .. Len(Tail(q)) /\ j - 1 \in 1 .. Len(q) - 1 /\ (j - 1) + 1 = j
    BY <1>2, <2>2
  <2>4. Tail(q)[j - 1] = q[j]
    BY <1>2, <2>3
  <2> QED
    BY <2>1, <2>3, <2>4
<1> QED
  BY <1>1, <1>2, <1>4, <1>5, <1>7, <1>8, <1>9 DEF q

\* An event handled leaves no key behind that others distributed before it.
LEMMA EventKeepsKeys ==
  ASSUME OneStream, RoomIInv, KeysIInv, NEW s \in RoomServer, RoomEvent(s)
  PROVE  KeysIInv'
<1>0. PICK n : n = Head(stream[s])
  OBVIOUS
<1>1. /\ at[s] = "idle" /\ stream[s] # <<>> /\ on' = [on EXCEPT ![s] = n]
      /\ stream' = [stream EXCEPT ![s] = Tail(@)] /\ UNCHANGED <<room, key_file>>
      /\ KeysArrive(s, room[n]) \/ DestroyArrives(s, room[n]) \/ TextArrives(s, room[n])
  BY <1>0 DEF RoomEvent
<1>2. /\ n \in 1 .. Len(room) /\ on[s] < n /\ on[s] \in Nat /\ room[n].from # Me
      /\ \A i \in 1 .. Len(room) : room[i].from # Me /\ i < n => i <= on[s]
  BY <1>0, <1>1, NextEvent
<1>3. /\ \A j \in 1 .. Len(Tail(stream[s])) : room[Tail(stream[s])[j]].from # Me
      /\ \A i \in 1 .. Len(room) : room[i].from # Me /\ n < i =>
           \E j \in 1 .. Len(Tail(stream[s])) : Tail(stream[s])[j] = i
  BY <1>0, <1>1, NextEvent
<1>4. at \in [Task -> Position] /\ on \in [Task -> Nat] /\ stream \in [RoomServer -> Seq(Nat)]
      /\ Len(room) \in Nat
  BY LenProperties DEF RoomIInv, RoomTypes
<1>5. "http" \in Task /\ "timer" \in Task /\ "http" \notin RoomServer /\ "timer" # "http"
      /\ "timer" \notin RoomServer /\ s \in Task
  BY RoomKeysAssumption DEF Task
<1>6. \A r \in RoomServer : r = s
  BY DEF OneStream
<1>7. on'[s] = n /\ stream'[s] = Tail(stream[s])
  BY <1>1, <1>4, <1>5
<1>8. \A i : KeyEvent(i)' <=> KeyEvent(i)
  BY <1>1 DEF KeyEvent
<1>9. \A t \in Task : t # s => at'[t] = at[t]
  BY <1>1, <1>4 DEF KeysArrive, DestroyArrives, TextArrives
<1>10. \/ /\ room[n].type = "keys" /\ at'[s] = "fetching" /\ UNCHANGED <<excused, texts>>
       \/ /\ room[n].type = "keys" /\ at'[s] = "idle" /\ UNCHANGED texts
          /\ excused' = excused \cup {room[n].key}
       \/ /\ room[n].type # "keys" /\ at'[s] \in {"idle", "delete_key"} /\ UNCHANGED excused
          /\ texts' = texts \/ TextArrives(s, room[n])
  BY <1>1, <1>4, <1>5 DEF KeysArrive, DestroyArrives, TextArrives
<1>11. room[n].type = "keys" => KeyEvent(n) /\ room[n].key = n
  BY <1>2 DEF KeyEvent, KeysIInv, KeysNumbered
<1>12. KeysNumbered'
  BY <1>1, <1>8 DEF KeysIInv, KeysNumbered
<1>13. OursAlone'
  <2>1. Creating' => Creating
    BY <1>5, <1>9 DEF Creating
  <2> QED
    BY <1>1, <1>8, <2>1 DEF KeysIInv, OursAlone
<1>14. StreamWhole'
  BY <1>1, <1>3, <1>6, <1>7 DEF StreamWhole
<1>15. StoresItsKey'
  <2>1. TakesKey(s)' => KeyEvent(n) /\ room[n].key = n
    BY <1>10, <1>11 DEF TakesKey
  <2>2. ~TakesKey("timer")'
    BY <1>5, <1>9 DEF KeysIInv, StoresItsKey, TakesKey
  <2> QED
    BY <1>1, <1>6, <1>7, <1>8, <2>1, <2>2 DEF StoresItsKey
<1>16. \A i \in 1 .. n - 1 : KeyEvent(i) /\ room[i].key = i =>
         i = key_file \/ i \in excused \/ \E j \in i + 1 .. n : KeyEvent(j)
  <2> SUFFICES ASSUME NEW i \in 1 .. n - 1, KeyEvent(i), room[i].key = i
               PROVE  i = key_file \/ i \in excused \/ \E j \in i + 1 .. n : KeyEvent(j)
    OBVIOUS
  <2>1. i \in 1 .. Len(room) /\ i < n /\ i # 0 /\ room[i].type = "keys"
    BY <1>2 DEF KeyEvent
  <2>2. room[i].from # Me
    BY <2>1 DEF KeysIInv, KeysNumbered
  <2>3. i \in 1 .. on[s]
    BY <1>2, <2>1, <2>2
  <2>4. ~TakesKey(s)
    BY <1>1 DEF TakesKey
  <2>5. i = key_file \/ i \in excused \/ \E j \in i + 1 .. on[s] : KeyEvent(j)
    BY <2>3, <2>4 DEF KeysIInv, OthersKeyKept
  <2>6. \A j \in i + 1 .. on[s] : j \in i + 1 .. n
    BY <1>2, <2>1
  <2> QED
    BY <2>5, <2>6
<1>17. excused \subseteq excused'
  BY <1>10
<1>18. OthersKeyKept'
  <2> SUFFICES ASSUME NEW i \in 1 .. n, KeyEvent(i), room[i].key = i
               PROVE  \/ i = key_file \/ i \in excused' \/ \E j \in i + 1 .. n : KeyEvent(j)
                      \/ i = n /\ TakesKey(s)'
    BY <1>1, <1>6, <1>7, <1>8 DEF OthersKeyKept
  <2>1. CASE i = n
    BY <1>10, <2>1 DEF KeyEvent, TakesKey
  <2>2. CASE i # n
    <3>1. i \in 1 .. n - 1
      BY <1>2, <2>2
    <3> QED
      BY <1>16, <1>17, <3>1
  <2> QED
    BY <2>1, <2>2
<1>19. OwnKeyKept'
  BY <1>1, <1>5, <1>8, <1>9, <1>17 DEF KeysIInv, OwnKeyKept
<1>20. TextsExcused'
  <2>1. CASE texts' = texts
    <3>1. DOMAIN room = 1 .. Len(room) /\ Len(room) <= Len(room)
      BY <1>4, LenProperties DEF RoomIInv, RoomTypes
    <3> QED
      BY <1>1, <1>4, <1>17, <2>1, <3>1, TextsStayExcused DEF KeysIInv
  <2>2. CASE TextArrives(s, room[n])
    <3>0. PICK k : k = room[n].key
      OBVIOUS
    <3>1. PICK x : /\ x = <<n, CASE k = NoKey \/ k = key_file -> "clear"
                                 [] k # NoKey /\ key_file = NoKey -> "missing"
                                 [] OTHER -> "failed">>
                   /\ texts' = Append(texts, x)
      BY <1>0, <2>2, <3>0 DEF TextArrives
    <3>2. x \in Readings /\ x[1] = n
          /\ (x[2] \in {"missing", "failed"} => k # NoKey /\ k # key_file)
      BY <1>2, <3>1 DEF Readings
    <3>3. room[n].type = "text"
      BY <2>2 DEF TextArrives
    <3>4. ASSUME k # NoKey, k # key_file
          PROVE  k \in excused \/ Superseded(k, n)
      <4>1. PICK i \in 1 .. n - 1 : KeyEvent(i) /\ room[i].key = k
        BY <1>2, <3>0, <3>3, <3>4 DEF KeysIInv, KeysNumbered
      <4>2. i \in 1 .. Len(room) /\ i # 0 /\ room[i].type = "keys"
        BY <4>1 DEF KeyEvent
      <4>3. CASE k = 0
        BY <3>4, <4>1, <4>2, <4>3 DEF KeysIInv, OwnKeyKept
      <4>4. CASE k # 0
        <5>1. k = i
          BY <4>1, <4>2, <4>4 DEF KeysIInv, KeysNumbered
        <5>2. k \in excused \/ \E j \in i + 1 .. n : KeyEvent(j)
          BY <1>16, <3>4, <4>1, <5>1
        <5>3. ASSUME NEW j \in i + 1 .. n, KeyEvent(j)
              PROVE  Superseded(k, n)
          <6>1. j \in DOMAIN room /\ j # n /\ room[j].type = "keys" /\ j > i /\ j < n
            BY <1>2, <3>3, <4>2, <5>3, LenProperties DEF KeyEvent, RoomIInv, RoomTypes
          <6>2. room[j].key \in {0, j}
            BY <5>3 DEF KeyEvent, KeysIInv, KeysNumbered
          <6>3. room[j].key # k
            BY <4>2, <5>1, <6>1, <6>2
          <6> QED
            BY <5>1, <6>1, <6>3 DEF Superseded
        <5> QED
          BY <5>2, <5>3
      <4> QED
        BY <4>3, <4>4
    <3>5. ReadOrExcused(x)'
      <4>1. Superseded(k, n) => Superseded(k, n)'
        BY <1>1 DEF Superseded
      <4> QED
        BY <1>1, <1>2, <1>17, <3>0, <3>2, <3>4, <4>1 DEF ReadOrExcused, Excusable
    <3> QED
      BY <1>1, <1>17, <3>1, <3>2, <3>5, OneMoreText DEF KeysIInv
  <2> QED
    BY <1>10, <2>1, <2>2
<1> QED
  BY <1>12, <1>13, <1>14, <1>15, <1>18, <1>19, <1>20 DEF KeysIInv

LEMMA QuietTaskKeepsKeys ==
  ASSUME RoomIInv, KeysIInv, NEW t \in Task,
         \/ PublicKeyFetched(t) \/ PublicKeyFails(t) \/ StoreMeta(t) \/ FindsExpired(t)
         \/ DeleteMetaFile(t) \/ MembersRead(t) \/ MembersWrite(t)
         \/ t \in RoomServer /\ Acknowledge(t)
  PROVE  KeysIInv'
<1>1. UNCHANGED <<room, stream, on, key_file>> /\ excused \subseteq excused'
  BY DEF PublicKeyFetched, PublicKeyFails, StoreMeta, FindsExpired, DeleteMetaFile,
     MembersRead, MembersWrite, Acknowledge
<1>2. TextsExcused'
  <2>1. texts' = texts \/ (\E e : e = on[t] /\ texts' = Append(texts, <<e, "notice">>))
    BY DEF PublicKeyFetched, PublicKeyFails, StoreMeta, FindsExpired, DeleteMetaFile,
       MembersRead, MembersWrite, Acknowledge
  <2>2. on[t] \in Nat
    BY DEF RoomIInv, RoomTypes
  <2>3. CASE texts' = texts
    <3>1. DOMAIN room = 1 .. Len(room) /\ Len(room) \in Nat /\ Len(room) <= Len(room)
      BY LenProperties DEF RoomIInv, RoomTypes
    <3> QED
      BY <1>1, <2>3, <3>1, TextsStayExcused DEF KeysIInv
  <2>4. CASE \E e : e = on[t] /\ texts' = Append(texts, <<e, "notice">>)
    <3>1. PICK x : x = <<on[t], "notice">> /\ texts' = Append(texts, x)
      BY <2>4
    <3>2. x \in Readings /\ x[2] \notin {"missing", "failed"}
      BY <2>2, <3>1 DEF Readings
    <3>3. ReadOrExcused(x)'
      BY <3>2 DEF ReadOrExcused
    <3> QED
      BY <1>1, <3>1, <3>2, <3>3, OneMoreText DEF KeysIInv
  <2> QED
    BY <2>1, <2>3, <2>4
<1>3. PICK next : at' = [at EXCEPT ![t] = next]
  BY DEF PublicKeyFetched, PublicKeyFails, StoreMeta, FindsExpired, DeleteMetaFile,
     MembersRead, MembersWrite, Acknowledge, Step
<1>4. at \in [Task -> Position] /\ then[t] \in {"idle", "ack"} /\ at'[t] = next
  BY <1>3 DEF RoomIInv, RoomTypes
<1>5. "http" \notin RoomServer /\ "timer" \notin RoomServer
  BY RoomKeysAssumption
<1>6. CASE PublicKeyFetched(t)
  <2>1. at[t] = "fetching" /\ next = "store_key"
    BY <1>4, <1>6 DEF PublicKeyFetched, Step
  <2> QED
    BY <1>1, <1>2, <1>3, <2>1, TaskKeepsKeys DEF Position, TakesKey, Creating
<1>7. CASE PublicKeyFails(t)
  <2>1. next = "idle" /\ on[t] \in excused'
    BY <1>4, <1>7 DEF PublicKeyFails, Step
  <2> QED
    BY <1>1, <1>2, <1>3, <2>1, TaskKeepsKeys DEF Position
<1>8. CASE StoreMeta(t)
  <2>1. at[t] = "store_meta" /\ next \in {"send_keys", "members_read"}
    BY <1>4, <1>8 DEF StoreMeta, Step
  <2> QED
    BY <1>1, <1>2, <1>3, <2>1, TaskKeepsKeys DEF Position, TakesKey, Creating
<1>9. CASE \/ FindsExpired(t) \/ DeleteMetaFile(t) \/ MembersRead(t) \/ MembersWrite(t)
           \/ t \in RoomServer /\ Acknowledge(t)
  <2>1. /\ at[t] \notin {"fetching", "store_key"}
        /\ next \in {"idle", "ack", "delete_key", "members_write"}
    BY <1>4, <1>9 DEF FindsExpired, DeleteMetaFile, MembersRead, MembersWrite, Acknowledge,
       Step
  <2> QED
    BY <1>1, <1>2, <1>3, <2>1, TaskKeepsKeys DEF Position, TakesKey
<1> QED
  BY <1>6, <1>7, <1>8, <1>9

LEMMA CreateKeepsKeys ==
  ASSUME RoomIInv, KeysIInv, CreateRoom
  PROVE  KeysIInv'
<1>1. "http" \in Task /\ "http" \notin RoomServer /\ on["http"] = 0 /\ on \in [Task -> Nat]
  BY RoomKeysAssumption DEF Task, RoomIInv, RoomTypes, OthersHandleNone
<1>2. /\ room = <<>> /\ at' = [at EXCEPT !["http"] = "fetching"] /\ on' = on
      /\ UNCHANGED <<room, stream, key_file, excused, texts>>
  BY <1>1 DEF CreateRoom, Step
<1>3. TextsExcused'
  <2>1. DOMAIN room = 1 .. Len(room) /\ Len(room) \in Nat /\ Len(room) <= Len(room)
    BY LenProperties DEF RoomIInv, RoomTypes
  <2> QED
    BY <1>2, <2>1, TextsStayExcused DEF KeysIInv
<1> QED
  BY <1>1, <1>2, <1>3, TaskKeepsKeys DEF Position

LEMMA OwnPushKeepsKeys ==
  ASSUME RoomIInv, KeysIInv, SendKeys \/ DestroyKey
  PROVE  KeysIInv'
<1>1. "http" \in Task /\ at \in [Task -> Position]
  BY DEF Task, RoomIInv, RoomTypes
<1>2. CASE SendKeys
  <2>1. PICK e : e = Event("keys", Me, 0, FALSE)
    OBVIOUS
  <2>2. e \in RoomEvents /\ e.type = "keys" /\ e.from = Me /\ e.key = 0
    BY <2>1 DEF Event, RoomEvents
  <2>3. /\ Push(e) /\ UNCHANGED <<on, key_file, texts, excused>>
        /\ at["http"] = "send_keys" /\ at' = [at EXCEPT !["http"] = "idle"]
    BY <1>2, <2>1 DEF SendKeys, Step
  <2>4. /\ at'["http"] = "idle" /\ \A t \in Task : t # "http" => at'[t] = at[t]
    BY <1>1, <2>3
  <2>5. Creating /\ ~Creating'
    BY <2>3, <2>4 DEF Creating
  <2> QED
    BY <2>2, <2>3, <2>4, <2>5, PushKeepsKeys
<1>3. CASE DestroyKey
  <2>1. PICK e : e = Event("destroy", Me, NoKey, FALSE)
    OBVIOUS
  <2>2. e \in RoomEvents /\ e.type = "destroy"
    BY <2>1 DEF Event, RoomEvents
  <2>3. /\ Push(e) /\ UNCHANGED <<on, key_file, texts, excused>>
        /\ at' = [at EXCEPT !["http"] = "delete_key"]
    BY <1>3, <2>1 DEF DestroyKey, Step
  <2>4. /\ at'["http"] = "delete_key" /\ \A t \in Task : t # "http" => at'[t] = at[t]
    BY <1>1, <2>3
  <2>5. Creating' => Creating
    BY <2>4 DEF Creating
  <2> QED
    BY <2>2, <2>3, <2>4, <2>5, PushKeepsKeys
<1> QED
  BY <1>2, <1>3

LEMMA OthersPushKeepsKeys ==
  ASSUME RoomIInv, KeysIInv, OthersDistribute \/ OthersSend \/ OthersDestroy
  PROVE  KeysIInv'
<1>1. /\ UNCHANGED <<on, key_file, texts, excused, at>>
  BY DEF OthersDistribute, OthersSend, OthersDestroy
<1>2. /\ Len(room) \in Nat /\ DOMAIN room = 1 .. Len(room)
      /\ \A i \in DOMAIN room : room[i] \in RoomEvents
  BY LenProperties, ElementOfSeq DEF RoomIInv, RoomTypes
<1>3. \A m \in Member : m # Me
  BY RoomKeysAssumption
<1>4. (Creating' <=> Creating)
  BY <1>1 DEF Creating
<1>5. CASE OthersDistribute
  <2>1. PICK m \in Member : \E x \in BOOLEAN : Push(Event("keys", m, Len(room) + 1, x))
    BY <1>5 DEF OthersDistribute
  <2>2. PICK x \in BOOLEAN : Push(Event("keys", m, Len(room) + 1, x))
    BY <2>1
  <2>3. PICK e : e = Event("keys", m, Len(room) + 1, x)
    OBVIOUS
  <2>4. e \in RoomEvents /\ e.type = "keys" /\ e.from = m /\ e.key = Len(room) + 1
    BY <1>2, <2>3 DEF Event, RoomEvents
  <2>5. ~Creating /\ \A i \in 1 .. Len(room) : KeyEvent(i) => room[i].key # 0
    BY <1>2, <1>5 DEF OthersDistribute, Ours, KeyEvent, KeysIInv, KeysNumbered
  <2> QED
    BY <1>1, <1>3, <1>4, <2>2, <2>3, <2>4, <2>5, PushKeepsKeys
<1>6. CASE OthersSend
  <2> DEFINE K == {NoKey} \cup {room[i].key : i \in {j \in DOMAIN room : room[j].type = "keys"}}
  <2>1. PICK m \in Member : \E k \in K : Push(Event("text", m, k, FALSE))
    BY <1>6 DEF OthersSend
  <2>2. PICK k \in K : Push(Event("text", m, k, FALSE))
    BY <2>1
  <2>3. PICK e : e = Event("text", m, k, FALSE)
    OBVIOUS
  <2>4. k # NoKey => \E j \in 1 .. Len(room) : KeyEvent(j) /\ room[j].key = k
    BY <1>2 DEF KeyEvent
  <2>5. k \in Nat \cup {NoKey}
    BY <1>2, <2>4 DEF RoomEvents
  <2>6. e \in RoomEvents /\ e.type = "text" /\ e.key = k
    BY <2>3, <2>5 DEF Event, RoomEvents
  <2> QED
    BY <1>1, <1>4, <2>2, <2>3, <2>4, <2>6, PushKeepsKeys
<1>7. CASE OthersDestroy
  <2>1. PICK m \in Member : Push(Event("destroy", m, NoKey, FALSE))
    BY <1>7 DEF OthersDestroy
  <2>2. PICK e : e = Event("destroy", m, NoKey, FALSE)
    OBVIOUS
  <2>3. e \in RoomEvents /\ e.type = "destroy"
    BY <2>2 DEF Event, RoomEvents
  <2> QED
    BY <1>1, <1>4, <2>1, <2>2, <2>3, PushKeepsKeys
<1> QED
  BY <1>5, <1>6, <1>7

LEMMA KeysSteps ==
  ASSUME OneStream, RoomIInv, KeysIInv, [RoomNext]_roomVars
  PROVE  KeysIInv'
<1>1. ASSUME NEW t \in Task, TaskRuns(t) \/ FindsExpired(t)
      PROVE  KeysIInv'
  BY <1>1, QuietTaskKeepsKeys, StoreKeepsKeys, DeleteKeepsKeys, EventKeepsKeys DEF TaskRuns
<1>2. CASE \/ CreateRoom \/ SendKeys \/ DestroyKey \/ OthersDistribute \/ OthersSend
           \/ OthersDestroy
  BY <1>2, CreateKeepsKeys, OwnPushKeepsKeys, OthersPushKeepsKeys
<1>3. CASE TimePasses \/ UNCHANGED roomVars
  <2>1. UNCHANGED <<room, stream, at, on, key_file, excused, texts>>
    BY <1>3 DEF TimePasses, roomVars
  <2> QED
    BY <2>1 DEF KeysIInv, KeysNumbered, OursAlone, StreamWhole, StoresItsKey, OthersKeyKept,
       OwnKeyKept, TextsExcused, ReadOrExcused, Excusable, Superseded, KeyEvent, TakesKey,
       Creating
<1> QED
  BY <1>1, <1>2, <1>3 DEF RoomNext

\* While one stream brings the events of the room, a text is read whenever its
\* key was to be had and was neither deleted nor followed by another: the key
\* is on disk when the text reaches the handler, whatever requests, timers and
\* events do to the two files.
THEOREM TextsReadable ==
  ASSUME OneStream
  PROVE  RoomSpec => []TextReadable
<1>1. RoomInit => RoomIInv /\ KeysIInv
  BY RoomStart, KeysStart
<1>2. RoomIInv /\ KeysIInv /\ [RoomNext]_roomVars => (RoomIInv /\ KeysIInv)'
  BY RoomSteps, KeysSteps
<1>3. KeysIInv => TextReadable
  <2> SUFFICES ASSUME TextsExcused PROVE TextReadable
    BY DEF KeysIInv
  <2>1. DOMAIN texts = 1 .. Len(texts)
    BY LenProperties DEF TextsExcused
  <2> QED
    BY <2>1 DEF TextsExcused, ReadOrExcused, Excusable, TextReadable
<1> QED
  BY <1>1, <1>2, <1>3, PTL DEF RoomSpec

-----------------------------------------------------------------------------
(***************************************************************************)
(* What is sent to the agent is heard once and in order, for any number of *)
(* texts, MCP processes and agents.                                        *)
(*                                                                         *)
(* A text is in one of five stages between the channel and the agent, and  *)
(* moves from the head of a stage to the end of the next.  That a stage    *)
(* which is lost takes its texts with it, and no other one holds them, is  *)
(* because a text is published once: a text in two places would come       *)
(* before itself.                                                          *)
(***************************************************************************)
Has(s, x) == \E i \in DOMAIN s : s[i] = x

\* x is heard by the agent of m or on its way there.
OnWay(m, x) ==
  \/ Has(agent_heard[m], x) \/ Has(stdout[m], x) \/ Has(hand[m], x)
  \/ Has(wire[m], x) \/ Has(queue[m], x)

\* x is ahead of y on the way to the agent of m.
Ahead(m, x, y) ==
  \/ Precedes(agent_heard[m], x, y) \/ Precedes(stdout[m], x, y)
  \/ Precedes(hand[m], x, y) \/ Precedes(wire[m], x, y) \/ Precedes(queue[m], x, y)
  \/ Has(agent_heard[m], x)
       /\ (Has(stdout[m], y) \/ Has(hand[m], y) \/ Has(wire[m], y) \/ Has(queue[m], y))
  \/ Has(stdout[m], x) /\ (Has(hand[m], y) \/ Has(wire[m], y) \/ Has(queue[m], y))
  \/ Has(hand[m], x) /\ (Has(wire[m], y) \/ Has(queue[m], y))
  \/ Has(wire[m], x) /\ Has(queue[m], y)

InputTypes ==
  /\ published \in Seq(Text) /\ audience \in [Text -> SUBSET Mcp]
  /\ missed \in [Mcp -> SUBSET Text] /\ subscribed \subseteq Mcp
  /\ fate \in [Text -> {"none", "channel", "shown", "dropped"}]
  /\ stt \in [Text -> {"none", "local", "cloud", "whisper", "done"}]
  /\ watcher \in [Mcp -> {"none", "gone", "connect", "sleep", "read", "notify", "write"}]
  /\ queue \in [Mcp -> Seq(Text)] /\ wire \in [Mcp -> Seq(Text)]
  /\ hand \in [Mcp -> Seq(Text)] /\ agent_heard \in [Mcp -> Seq(Text)]
  /\ stdout \in [Mcp -> Seq(Text \cup {Response})]

\* A text is transcribed before it is sent, and sent to somebody once.
SentOnce ==
  \A t \in Text :
    /\ stt[t] \in {"local", "cloud", "whisper"} => fate[t] = "none"
    /\ audience[t] # {} => fate[t] = "channel"
    /\ Has(published, t) <=> audience[t] # {}
    /\ ~Precedes(published, t, t)

\* The watcher has no event in its hand when it reads the next.
HandEmpty ==
  \A m \in Mcp : watcher[m] \notin {"notify", "write"} => hand[m] = <<>>

TextsKept(m) ==
  /\ \A x \in Text : OnWay(m, x) <=> m \in audience[x] /\ x \notin missed[m]
  /\ \A x \in Text : x \in missed[m] => m \in audience[x]

TextsInOrder(m) == \A x, y \in Text : Ahead(m, x, y) => Precedes(published, x, y)

InputIInv ==
  /\ InputTypes /\ SentOnce /\ HandEmpty
  /\ \A m \in Mcp : TextsKept(m) /\ TextsInOrder(m)

-----------------------------------------------------------------------------
(* Sequences *)

LEMMA EmptyHolds == \A x, y : ~Has(<<>>, x) /\ ~Precedes(<<>>, x, y)
BY DEF Has, Precedes

LEMMA ConcatHolds ==
  ASSUME NEW S, NEW s \in Seq(S), NEW t \in Seq(S)
  PROVE  /\ \A x : Has(s \o t, x) <=> Has(s, x) \/ Has(t, x)
         /\ \A x, y : Precedes(s \o t, x, y) <=>
              \/ Precedes(s, x, y) \/ Precedes(t, x, y)
              \/ Has(s, x) /\ Has(t, y)
<1> DEFINE u == s \o t
           a == Len(s)
           b == Len(t)
<1>1. /\ u \in Seq(S) /\ Len(u) = a + b /\ a \in Nat /\ b \in Nat
      /\ DOMAIN u = 1..(a + b) /\ DOMAIN s = 1..a /\ DOMAIN t = 1..b
      /\ \A i \in 1..a : u[i] = s[i]
      /\ \A i \in (a + 1)..(a + b) : u[i] = t[i - a]
  OBVIOUS
<1>2. \A i \in 1..b : i + a \in 1..(a + b) /\ u[i + a] = t[i]
  <2>1. ASSUME NEW i \in 1..b  PROVE i + a \in 1..(a + b) /\ u[i + a] = t[i]
    <3>1. i + a \in (a + 1)..(a + b) /\ (i + a) - a = i
      BY <1>1
    <3> QED  BY <1>1, <3>1
  <2> QED  BY <2>1
<1> HIDE DEF u, a, b
<1>3. ASSUME NEW i \in 1..(a + b), i > a
      PROVE  i - a \in 1..b /\ u[i] = t[i - a] /\ i \in Nat /\ i - a \in Nat
  <2>1. i \in (a + 1)..(a + b) /\ i \in Nat
    BY <1>1, <1>3
  <2>2. i - a \in 1..b /\ i - a \in Nat
    BY <1>1, <2>1
  <2>3. u[i] = t[i - a]
    BY <1>1, <2>1
  <2> QED  BY <2>1, <2>2, <2>3
<1>4. ASSUME NEW x  PROVE Has(u, x) <=> Has(s, x) \/ Has(t, x)
  <2>1. ASSUME NEW i \in DOMAIN u, u[i] = x  PROVE Has(s, x) \/ Has(t, x)
    <3>1. CASE i <= a
      BY <1>1, <2>1, <3>1 DEF Has
    <3>2. CASE i > a
      <4>1. i - a \in 1..b /\ u[i] = t[i - a]
        BY <1>1, <1>3, <2>1, <3>2
      <4> QED  BY <1>1, <2>1, <4>1 DEF Has
    <3> QED  BY <1>1, <3>1, <3>2
  <2>2. Has(s, x) => Has(u, x)
    BY <1>1 DEF Has
  <2>3. Has(t, x) => Has(u, x)
    BY <1>1, <1>2 DEF Has
  <2> QED  BY <2>1, <2>2, <2>3 DEF Has
<1>5. ASSUME NEW x, NEW y
      PROVE  Precedes(u, x, y) <=>
               \/ Precedes(s, x, y) \/ Precedes(t, x, y)
               \/ Has(s, x) /\ Has(t, y)
  <2>1. ASSUME NEW i \in DOMAIN u, NEW j \in DOMAIN u, i < j, u[i] = x, u[j] = y
        PROVE  \/ Precedes(s, x, y) \/ Precedes(t, x, y)
               \/ Has(s, x) /\ Has(t, y)
    <3>1. CASE j <= a
      <4>1. i \in 1..a /\ j \in 1..a
        BY <1>1, <2>1, <3>1
      <4> QED  BY <1>1, <2>1, <4>1 DEF Precedes
    <3>2. CASE i > a
      <4>1. i \in 1..(a + b) /\ i > a /\ j \in 1..(a + b)
        BY <1>1, <2>1, <3>2
      <4>2. i - a \in 1..b /\ u[i] = t[i - a] /\ i \in Nat
        BY <1>3, <4>1
      <4>3. j > a
        BY <1>1, <2>1, <4>1
      <4>4. j - a \in 1..b /\ u[j] = t[j - a] /\ j \in Nat
        BY <1>3, <4>1, <4>3
      <4>5. i - a < j - a
        BY <1>1, <2>1, <4>2, <4>4
      <4> QED  BY <1>1, <2>1, <4>2, <4>4, <4>5 DEF Precedes
    <3>3. CASE i <= a /\ j > a
      <4>1. i \in 1..a /\ u[i] = s[i] /\ j \in 1..(a + b)
        BY <1>1, <3>3
      <4>2. j - a \in 1..b /\ u[j] = t[j - a]
        BY <1>3, <3>3, <4>1
      <4> QED  BY <1>1, <2>1, <4>1, <4>2 DEF Has
    <3> QED  BY <1>1, <2>1, <3>1, <3>2, <3>3
  <2>2. Precedes(s, x, y) => Precedes(u, x, y)
    <3>1. ASSUME NEW i \in 1..a, NEW j \in 1..a, i < j, s[i] = x, s[j] = y
          PROVE  Precedes(u, x, y)
      <4>1. i \in DOMAIN u /\ j \in DOMAIN u /\ u[i] = x /\ u[j] = y
        BY <1>1, <3>1
      <4> QED  BY <3>1, <4>1 DEF Precedes
    <3> QED  BY <1>1, <3>1 DEF Precedes
  <2>3. Precedes(t, x, y) => Precedes(u, x, y)
    <3>1. ASSUME NEW i \in 1..b, NEW j \in 1..b, i < j, t[i] = x, t[j] = y
          PROVE  Precedes(u, x, y)
      <4>1. /\ i + a \in DOMAIN u /\ j + a \in DOMAIN u /\ i + a < j + a
            /\ u[i + a] = x /\ u[j + a] = y
        BY <1>1, <1>2, <3>1
      <4> QED  BY <4>1 DEF Precedes
    <3> QED  BY <1>1, <3>1 DEF Precedes
  <2>4. Has(s, x) /\ Has(t, y) => Precedes(u, x, y)
    <3>1. ASSUME NEW i \in 1..a, NEW j \in 1..b, s[i] = x, t[j] = y
          PROVE  Precedes(u, x, y)
      <4>1. i \in DOMAIN u /\ j + a \in DOMAIN u /\ i < j + a /\ u[i] = x /\ u[j + a] = y
        BY <1>1, <1>2, <3>1
      <4> QED  BY <4>1 DEF Precedes
    <3> QED  BY <1>1, <3>1 DEF Has
  <2>5. Precedes(u, x, y) <=>
          \E i, j \in DOMAIN u : i < j /\ u[i] = x /\ u[j] = y
    BY DEF Precedes
  <2> QED  BY <2>1, <2>2, <2>3, <2>4, <2>5
<1> QED  BY <1>4, <1>5 DEF u

LEMMA OneHolds == \A a, x, y : (Has(<<a>>, x) <=> x = a) /\ ~Precedes(<<a>>, x, y)
BY DEF Has, Precedes

LEMMA AppendHolds ==
  ASSUME NEW S, NEW s \in Seq(S), NEW a \in S
  PROVE  /\ \A x : Has(Append(s, a), x) <=> Has(s, x) \/ x = a
         /\ \A x, y : Precedes(Append(s, a), x, y) <=>
              Precedes(s, x, y) \/ (Has(s, x) /\ y = a)
<1>1. Append(s, a) = s \o <<a>> /\ <<a>> \in Seq(S)
  BY AppendIsConcat
<1>2. PICK o : o = <<a>>
  OBVIOUS
<1>3. o \in Seq(S) /\ \A x, y : (Has(o, x) <=> x = a) /\ ~Precedes(o, x, y)
  BY <1>1, <1>2, OneHolds
<1>4. /\ \A x : Has(s \o o, x) <=> Has(s, x) \/ Has(o, x)
      /\ \A x, y : Precedes(s \o o, x, y) <=>
           \/ Precedes(s, x, y) \/ Precedes(o, x, y)
           \/ Has(s, x) /\ Has(o, y)
  BY <1>3, ConcatHolds
<1> QED  BY <1>1, <1>2, <1>3, <1>4

LEMMA HeadHolds ==
  ASSUME NEW S, NEW s \in Seq(S), s # <<>>
  PROVE  /\ Head(s) \in S /\ Tail(s) \in Seq(S)
         /\ \A x : Has(s, x) <=> x = Head(s) \/ Has(Tail(s), x)
         /\ \A x, y : Precedes(s, x, y) <=>
              Precedes(Tail(s), x, y) \/ (x = Head(s) /\ Has(Tail(s), y))
<1>1. /\ s = <<Head(s)>> \o Tail(s) /\ Head(s) \in S /\ Tail(s) \in Seq(S)
      /\ <<Head(s)>> \in Seq(S)
  OBVIOUS
<1>2. PICK h : h = Head(s)
  OBVIOUS
<1>3. PICK t : t = Tail(s)
  OBVIOUS
<1>4. PICK o : o = <<h>>
  OBVIOUS
<1>5. o \in Seq(S) /\ \A x, y : (Has(o, x) <=> x = h) /\ ~Precedes(o, x, y)
  BY <1>1, <1>2, <1>4, OneHolds
<1>6. s = o \o t /\ t \in Seq(S) /\ h \in S
  BY <1>1, <1>2, <1>3, <1>4
<1>7. /\ \A x : Has(o \o t, x) <=> Has(o, x) \/ Has(t, x)
      /\ \A x, y : Precedes(o \o t, x, y) <=>
           \/ Precedes(o, x, y) \/ Precedes(t, x, y)
           \/ Has(o, x) /\ Has(t, y)
  BY <1>5, <1>6, ConcatHolds
<1>8. /\ \A x : Has(s, x) <=> x = h \/ Has(t, x)
      /\ \A x, y : Precedes(s, x, y) <=> Precedes(t, x, y) \/ (x = h /\ Has(t, y))
  BY <1>5, <1>6, <1>7
<1> QED  BY <1>2, <1>3, <1>6, <1>8

LEMMA SetHolds == \A s, x : x \in ToSet(s) <=> Has(s, x)
BY DEF ToSet, Has

-----------------------------------------------------------------------------
(* The property in terms of stages *)

LEMMA WayHolds ==
  ASSUME InputTypes, NEW m \in Mcp
  PROVE  /\ \A x : Has(OnItsWay(m), x) <=> OnWay(m, x)
         /\ \A x, y : Precedes(OnItsWay(m), x, y) <=> Ahead(m, x, y)
<1> DEFINE S == Text \cup {Response}
<1>1. \A s \in Seq(Text) : s \in Seq(S)
  OBVIOUS
<1>2. /\ agent_heard[m] \in Seq(Text) /\ hand[m] \in Seq(Text) /\ wire[m] \in Seq(Text)
      /\ queue[m] \in Seq(Text) /\ stdout[m] \in Seq(S)
  BY DEF InputTypes
<1> HIDE DEF S
<1>3. /\ agent_heard[m] \in Seq(S) /\ hand[m] \in Seq(S) /\ wire[m] \in Seq(S)
      /\ queue[m] \in Seq(S) /\ stdout[m] \in Seq(S)
  BY <1>1, <1>2
<1>4. ASSUME NEW a \in Seq(S), NEW o \in Seq(S), NEW h \in Seq(S), NEW w \in Seq(S),
             NEW q \in Seq(S)
      PROVE  /\ \A x : Has(a \o o \o h \o w \o q, x) <=>
                  Has(a, x) \/ Has(o, x) \/ Has(h, x) \/ Has(w, x) \/ Has(q, x)
             /\ \A x, y : Precedes(a \o o \o h \o w \o q, x, y) <=>
                  \/ Precedes(a, x, y) \/ Precedes(o, x, y) \/ Precedes(h, x, y)
                  \/ Precedes(w, x, y) \/ Precedes(q, x, y)
                  \/ Has(a, x) /\ (Has(o, y) \/ Has(h, y) \/ Has(w, y) \/ Has(q, y))
                  \/ Has(o, x) /\ (Has(h, y) \/ Has(w, y) \/ Has(q, y))
                  \/ Has(h, x) /\ (Has(w, y) \/ Has(q, y))
                  \/ Has(w, x) /\ Has(q, y)
  <2>1. PICK b : b = a \o o
    OBVIOUS
  <2>2. PICK c : c = b \o h
    OBVIOUS
  <2>3. PICK d : d = c \o w
    OBVIOUS
  <2>4. b \in Seq(S) /\ c \in Seq(S) /\ d \in Seq(S)
    BY <2>1, <2>2, <2>3
  <2>5. /\ \A x : Has(b, x) <=> Has(a, x) \/ Has(o, x)
        /\ \A x, y : Precedes(b, x, y) <=>
             Precedes(a, x, y) \/ Precedes(o, x, y) \/ (Has(a, x) /\ Has(o, y))
    BY <2>1, ConcatHolds
  <2>6. /\ \A x : Has(c, x) <=> Has(b, x) \/ Has(h, x)
        /\ \A x, y : Precedes(c, x, y) <=>
             Precedes(b, x, y) \/ Precedes(h, x, y) \/ (Has(b, x) /\ Has(h, y))
    BY <2>2, <2>4, ConcatHolds
  <2>7. /\ \A x : Has(d, x) <=> Has(c, x) \/ Has(w, x)
        /\ \A x, y : Precedes(d, x, y) <=>
             Precedes(c, x, y) \/ Precedes(w, x, y) \/ (Has(c, x) /\ Has(w, y))
    BY <2>3, <2>4, ConcatHolds
  <2>8. /\ \A x : Has(d \o q, x) <=> Has(d, x) \/ Has(q, x)
        /\ \A x, y : Precedes(d \o q, x, y) <=>
             Precedes(d, x, y) \/ Precedes(q, x, y) \/ (Has(d, x) /\ Has(q, y))
    BY <2>4, ConcatHolds
  <2>9. a \o o \o h \o w \o q = d \o q
    BY <2>1, <2>2, <2>3
  <2> HIDE <2>1, <2>2, <2>3
  <2> QED  BY <2>5, <2>6, <2>7, <2>8, <2>9
<1>5. PICK a : a = agent_heard[m]
  OBVIOUS
<1>6. PICK o : o = stdout[m]
  OBVIOUS
<1>7. PICK h : h = hand[m]
  OBVIOUS
<1>8. PICK w : w = wire[m]
  OBVIOUS
<1>9. PICK q : q = queue[m]
  OBVIOUS
<1>10. a \in Seq(S) /\ o \in Seq(S) /\ h \in Seq(S) /\ w \in Seq(S) /\ q \in Seq(S)
  BY <1>3, <1>5, <1>6, <1>7, <1>8, <1>9
<1>11. OnItsWay(m) = a \o o \o h \o w \o q
  BY <1>5, <1>6, <1>7, <1>8, <1>9 DEF OnItsWay
<1>12. ASSUME NEW x  PROVE Has(OnItsWay(m), x) <=> OnWay(m, x)
  <2>1. Has(a \o o \o h \o w \o q, x) <=>
          Has(a, x) \/ Has(o, x) \/ Has(h, x) \/ Has(w, x) \/ Has(q, x)
    BY <1>4, <1>10
  <2> QED  BY <1>5, <1>6, <1>7, <1>8, <1>9, <1>11, <2>1 DEF OnWay
<1>13. ASSUME NEW x, NEW y  PROVE Precedes(OnItsWay(m), x, y) <=> Ahead(m, x, y)
  <2>1. Precedes(a \o o \o h \o w \o q, x, y) <=>
          \/ Precedes(a, x, y) \/ Precedes(o, x, y) \/ Precedes(h, x, y)
          \/ Precedes(w, x, y) \/ Precedes(q, x, y)
          \/ Has(a, x) /\ (Has(o, y) \/ Has(h, y) \/ Has(w, y) \/ Has(q, y))
          \/ Has(o, x) /\ (Has(h, y) \/ Has(w, y) \/ Has(q, y))
          \/ Has(h, x) /\ (Has(w, y) \/ Has(q, y))
          \/ Has(w, x) /\ Has(q, y)
    BY <1>4, <1>10
  <2> QED  BY <1>5, <1>6, <1>7, <1>8, <1>9, <1>11, <2>1 DEF Ahead
<1> QED  BY <1>12, <1>13

LEMMA KeptIsAccounted ==
  ASSUME InputIInv  PROVE InputAccounted
<1> SUFFICES ASSUME NEW m \in Mcp
    PROVE  /\ ToSet(OnItsWay(m)) \ {Response}
                = {t \in Text : m \in audience[t] /\ t \notin missed[m]}
           /\ \A t, u \in Text :
                Precedes(OnItsWay(m), t, u) => Precedes(published, t, u)
  BY DEF InputAccounted
<1>1. InputTypes /\ TextsKept(m) /\ TextsInOrder(m)
  BY DEF InputIInv
<1>2. ASSUME NEW x, OnWay(m, x), x # Response  PROVE x \in Text
  <2>1. /\ agent_heard[m] \in Seq(Text) /\ hand[m] \in Seq(Text) /\ wire[m] \in Seq(Text)
        /\ queue[m] \in Seq(Text) /\ stdout[m] \in Seq(Text \cup {Response})
    BY <1>1 DEF InputTypes
  <2>2. \A s \in Seq(Text) : Has(s, x) => x \in Text
    BY DEF Has
  <2>3. \A s \in Seq(Text \cup {Response}) : Has(s, x) => x \in Text \cup {Response}
    BY DEF Has
  <2> QED  BY <1>2, <2>1, <2>2, <2>3 DEF OnWay
<1>3. \A x : x \in ToSet(OnItsWay(m)) <=> OnWay(m, x)
  BY <1>1, WayHolds, SetHolds
<1>4. \A x \in Text : x # Response
  BY AgentInputAssumption
<1>5. \A x \in Text : OnWay(m, x) <=> m \in audience[x] /\ x \notin missed[m]
  BY <1>1 DEF TextsKept
<1>6. ToSet(OnItsWay(m)) \ {Response}
        = {t \in Text : m \in audience[t] /\ t \notin missed[m]}
  BY <1>2, <1>3, <1>4, <1>5
<1>7. \A t, u \in Text : Precedes(OnItsWay(m), t, u) => Precedes(published, t, u)
  BY <1>1, WayHolds DEF TextsInOrder
<1> QED  BY <1>6, <1>7

-----------------------------------------------------------------------------
(* Steps *)

\* A step of m in which no text is sent and the texts L are lost.
LEMMA LosingKeeps ==
  ASSUME InputIInv, NEW m \in Mcp, NEW L, audience' = audience, published' = published,
         missed'[m] = missed[m] \cup L, \A x \in Text : x \in L => OnWay(m, x),
         \A x \in Text : OnWay(m, x)' <=> OnWay(m, x) /\ x \notin L,
         \A x, y \in Text : Ahead(m, x, y)' => Ahead(m, x, y)
  PROVE  TextsKept(m)' /\ TextsInOrder(m)'
<1>1. TextsKept(m) /\ TextsInOrder(m)
  BY DEF InputIInv
<1>2. ASSUME NEW x \in Text
      PROVE  /\ OnWay(m, x)' <=> m \in audience'[x] /\ x \notin missed'[m]
             /\ x \in missed'[m] => m \in audience'[x]
  BY <1>1 DEF TextsKept
<1>3. TextsKept(m)'
  BY <1>2 DEF TextsKept
<1>4. TextsInOrder(m)'
  BY <1>1 DEF TextsInOrder
<1> QED  BY <1>3, <1>4

\* Nothing happens to the texts of m.
LEMMA ElsewhereKeepsInput ==
  ASSUME InputIInv, NEW m \in Mcp, audience' = audience, published' = published,
         missed'[m] = missed[m], agent_heard'[m] = agent_heard[m],
         stdout'[m] = stdout[m], hand'[m] = hand[m], wire'[m] = wire[m],
         queue'[m] = queue[m]
  PROVE  TextsKept(m)' /\ TextsInOrder(m)'
<1>1. \A x \in Text : OnWay(m, x)' <=> OnWay(m, x)
  BY DEF OnWay
<1>2. \A x, y \in Text : Ahead(m, x, y)' <=> Ahead(m, x, y)
  BY DEF Ahead
<1>3. PICK L : L = {}
  OBVIOUS
<1>4. /\ missed'[m] = missed[m] \cup L /\ \A x \in Text : x \in L => OnWay(m, x)
      /\ \A x \in Text : OnWay(m, x)' <=> OnWay(m, x) /\ x \notin L
      /\ \A x, y \in Text : Ahead(m, x, y)' => Ahead(m, x, y)
  BY <1>1, <1>2, <1>3
<1> QED  BY <1>4, LosingKeeps

\* No text is in two places.
LEMMA OnePlace ==
  ASSUME InputIInv, NEW m \in Mcp, NEW x \in Text  PROVE ~Ahead(m, x, x)
BY DEF InputIInv, SentOnce, TextsInOrder

LEMMA StagesTyped ==
  ASSUME InputIInv, NEW m \in Mcp
  PROVE  /\ agent_heard[m] \in Seq(Text) /\ hand[m] \in Seq(Text) /\ wire[m] \in Seq(Text)
         /\ queue[m] \in Seq(Text) /\ stdout[m] \in Seq(Text \cup {Response})
         /\ TextsKept(m) /\ TextsInOrder(m)
BY DEF InputIInv, InputTypes

LEMMA InputStart == AgentInputInit => InputIInv
<1> SUFFICES ASSUME AgentInputInit  PROVE InputIInv
  OBVIOUS
<1>1. InputTypes
  BY DEF AgentInputInit, InputTypes
<1>2. SentOnce
  BY EmptyHolds DEF AgentInputInit, SentOnce
<1>3. HandEmpty
  BY DEF AgentInputInit, HandEmpty
<1>4. ASSUME NEW m \in Mcp  PROVE TextsKept(m) /\ TextsInOrder(m)
  <2>1. /\ agent_heard[m] = <<>> /\ stdout[m] = <<>> /\ hand[m] = <<>> /\ wire[m] = <<>>
        /\ queue[m] = <<>> /\ missed[m] = {} /\ \A t \in Text : audience[t] = {}
    BY DEF AgentInputInit
  <2> QED  BY <2>1, EmptyHolds DEF TextsKept, TextsInOrder, OnWay, Ahead
<1> QED  BY <1>1, <1>2, <1>3, <1>4 DEF InputIInv

\* The way of the texts of every process but m is as it was.
OthersWay(m) ==
  \A n \in Mcp \ {m} :
    /\ missed'[n] = missed[n] /\ agent_heard'[n] = agent_heard[n]
    /\ stdout'[n] = stdout[n] /\ hand'[n] = hand[n] /\ wire'[n] = wire[n]
    /\ queue'[n] = queue[n]

LEMMA OneMoves ==
  ASSUME InputIInv, audience' = audience, published' = published,
         NEW m \in Mcp, OthersWay(m), NEW L,
         missed'[m] = missed[m] \cup L, \A x \in Text : x \in L => OnWay(m, x),
         \A x \in Text : OnWay(m, x)' <=> OnWay(m, x) /\ x \notin L,
         \A x, y \in Text : Ahead(m, x, y)' => Ahead(m, x, y)
  PROVE  \A n \in Mcp : TextsKept(n)' /\ TextsInOrder(n)'
<1>1. TextsKept(m)' /\ TextsInOrder(m)'
  BY LosingKeeps
<1>2. ASSUME NEW n \in Mcp, n # m  PROVE TextsKept(n)' /\ TextsInOrder(n)'
  BY <1>2, ElsewhereKeepsInput DEF OthersWay
<1> QED  BY <1>1, <1>2

LEMMA NoneLost ==
  ASSUME InputIInv, audience' = audience, published' = published, missed' = missed,
         NEW m \in Mcp, OthersWay(m),
         \A x \in Text : OnWay(m, x)' <=> OnWay(m, x),
         \A x, y \in Text : Ahead(m, x, y)' => Ahead(m, x, y)
  PROVE  \A n \in Mcp : TextsKept(n)' /\ TextsInOrder(n)'
<1>1. PICK L : L = {}
  OBVIOUS
<1>2. /\ missed'[m] = missed[m] \cup L /\ \A x \in Text : x \in L => OnWay(m, x)
      /\ \A x \in Text : OnWay(m, x)' <=> OnWay(m, x) /\ x \notin L
  BY <1>1
<1> QED  BY <1>2, OneMoves

LEMMA StreamWritesMoves ==
  ASSUME InputIInv, NEW m \in Mcp, StreamWrites(m)
  PROVE  \A n \in Mcp : TextsKept(n)' /\ TextsInOrder(n)'
<1>1. queue[m] \in Seq(Text) /\ queue[m] # <<>> /\ wire[m] \in Seq(Text)
  BY StagesTyped DEF StreamWrites
<1>2. PICK h : h = Head(queue[m])
  OBVIOUS
<1>3. /\ queue' = [queue EXCEPT ![m] = Tail(queue[m])]
      /\ wire' = [wire EXCEPT ![m] = Append(wire[m], h)]
      /\ missed' = missed /\ audience' = audience /\ published' = published
      /\ agent_heard' = agent_heard /\ stdout' = stdout /\ hand' = hand
      /\ queue \in [Mcp -> Seq(Text)] /\ wire \in [Mcp -> Seq(Text)]
  BY <1>2 DEF StreamWrites, InputIInv, InputTypes, historyVars, watcherVars, stdoutVars
<1>4. queue'[m] = Tail(queue[m]) /\ wire'[m] = Append(wire[m], h) /\ OthersWay(m)
  BY <1>3 DEF OthersWay
<1>5. /\ h \in Text
      /\ \A x : Has(queue[m], x) <=> x = h \/ Has(queue'[m], x)
      /\ \A x, y : Precedes(queue[m], x, y) <=>
           Precedes(queue'[m], x, y) \/ (x = h /\ Has(queue'[m], y))
  BY <1>1, <1>2, <1>4, HeadHolds
<1>6. /\ \A x : Has(wire'[m], x) <=> Has(wire[m], x) \/ x = h
      /\ \A x, y : Precedes(wire'[m], x, y) <=>
           Precedes(wire[m], x, y) \/ (Has(wire[m], x) /\ y = h)
  BY <1>1, <1>4, <1>5, AppendHolds
<1>7. \A x \in Text : OnWay(m, x)' <=> OnWay(m, x)
  BY <1>3, <1>5, <1>6 DEF OnWay
<1>8. \A x, y \in Text : Ahead(m, x, y)' => Ahead(m, x, y)
  BY <1>3, <1>5, <1>6 DEF Ahead
<1> QED  BY <1>3, <1>4, <1>7, <1>8, NoneLost

LEMMA StreamEndsMoves ==
  ASSUME InputIInv, NEW m \in Mcp, StreamEnds(m)
  PROVE  \A n \in Mcp : TextsKept(n)' /\ TextsInOrder(n)'
<1>1. PICK L : L = ToSet(queue[m])
  OBVIOUS
<1>2. /\ queue' = [queue EXCEPT ![m] = <<>>]
      /\ missed' = [missed EXCEPT ![m] = missed[m] \cup L]
      /\ audience' = audience /\ published' = published
      /\ agent_heard' = agent_heard /\ stdout' = stdout /\ hand' = hand /\ wire' = wire
      /\ queue \in [Mcp -> Seq(Text)] /\ missed \in [Mcp -> SUBSET Text]
  BY <1>1 DEF StreamEnds, InputIInv, InputTypes, watcherVars, stdoutVars
<1>3. queue'[m] = <<>> /\ missed'[m] = missed[m] \cup L /\ OthersWay(m)
  BY <1>2 DEF OthersWay
<1>4. \A x, y : ~Has(queue'[m], x) /\ ~Precedes(queue'[m], x, y)
  BY <1>3, EmptyHolds
<1>5. \A x : x \in L <=> Has(queue[m], x)
  BY <1>1, SetHolds
<1>6. \A x \in Text : x \in L => OnWay(m, x)
  BY <1>5 DEF OnWay
<1>7. \A x \in Text : ~Ahead(m, x, x)
  BY OnePlace
<1>8. \A x \in Text : OnWay(m, x)' <=> OnWay(m, x) /\ x \notin L
  BY <1>2, <1>4, <1>5, <1>7 DEF OnWay, Ahead
<1>9. \A x, y \in Text : Ahead(m, x, y)' => Ahead(m, x, y)
  BY <1>2, <1>4 DEF Ahead
<1> QED  BY <1>2, <1>3, <1>6, <1>8, <1>9, OneMoves

LEMMA WatcherReadsMoves ==
  ASSUME InputIInv, NEW m \in Mcp, WatcherReads(m)
  PROVE  \A n \in Mcp : TextsKept(n)' /\ TextsInOrder(n)'
<1>1. wire[m] \in Seq(Text) /\ wire[m] # <<>> /\ hand[m] = <<>>
  BY StagesTyped DEF WatcherReads, InputIInv, HandEmpty
<1>2. PICK h : h = Head(wire[m])
  OBVIOUS
<1>3. /\ wire' = [wire EXCEPT ![m] = Tail(wire[m])]
      /\ hand' = [hand EXCEPT ![m] = <<h>>]
      /\ missed' = missed /\ audience' = audience /\ published' = published
      /\ agent_heard' = agent_heard /\ stdout' = stdout /\ queue' = queue
      /\ hand \in [Mcp -> Seq(Text)] /\ wire \in [Mcp -> Seq(Text)]
  BY <1>2 DEF WatcherReads, InputIInv, InputTypes, historyVars, stdoutVars
<1>4. wire'[m] = Tail(wire[m]) /\ hand'[m] = <<h>> /\ OthersWay(m)
  BY <1>3 DEF OthersWay
<1>5. /\ h \in Text
      /\ \A x : Has(wire[m], x) <=> x = h \/ Has(wire'[m], x)
      /\ \A x, y : Precedes(wire[m], x, y) <=>
           Precedes(wire'[m], x, y) \/ (x = h /\ Has(wire'[m], y))
  BY <1>1, <1>2, <1>4, HeadHolds
<1>6. /\ \A x, y : ~Has(hand[m], x) /\ ~Precedes(hand[m], x, y)
      /\ \A x, y : (Has(hand'[m], x) <=> x = h) /\ ~Precedes(hand'[m], x, y)
  <2>1. \A x, y : ~Has(hand[m], x) /\ ~Precedes(hand[m], x, y)
    BY <1>1, EmptyHolds
  <2>2. PICK o : o = <<h>>
    OBVIOUS
  <2>3. \A x, y : (Has(o, x) <=> x = h) /\ ~Precedes(o, x, y)
    BY <2>2, OneHolds
  <2> QED  BY <1>4, <2>1, <2>2, <2>3
<1>7. \A x \in Text : OnWay(m, x)' <=> OnWay(m, x)
  BY <1>3, <1>5, <1>6 DEF OnWay
<1>8. \A x, y \in Text : Ahead(m, x, y)' => Ahead(m, x, y)
  BY <1>3, <1>5, <1>6 DEF Ahead
<1> QED  BY <1>3, <1>4, <1>7, <1>8, NoneLost

LEMMA WatcherWritesMoves ==
  ASSUME InputIInv, NEW m \in Mcp, WatcherWrites(m)
  PROVE  \A n \in Mcp : TextsKept(n)' /\ TextsInOrder(n)'
<1>1. hand[m] \in Seq(Text) /\ stdout[m] \in Seq(Text \cup {Response})
  BY StagesTyped
<1>2. hand[m] \in Seq(Text \cup {Response})
  BY <1>1
<1>3. /\ stdout' = [stdout EXCEPT ![m] = stdout[m] \o hand[m]]
      /\ hand' = [hand EXCEPT ![m] = <<>>]
      /\ missed' = missed /\ audience' = audience /\ published' = published
      /\ agent_heard' = agent_heard /\ wire' = wire /\ queue' = queue
      /\ hand \in [Mcp -> Seq(Text)] /\ stdout \in [Mcp -> Seq(Text \cup {Response})]
  BY DEF WatcherWrites, InputIInv, InputTypes, historyVars, feedVars
<1>4. stdout'[m] = stdout[m] \o hand[m] /\ hand'[m] = <<>> /\ OthersWay(m)
  BY <1>3 DEF OthersWay
<1>5. /\ \A x : Has(stdout'[m], x) <=> Has(stdout[m], x) \/ Has(hand[m], x)
      /\ \A x, y : Precedes(stdout'[m], x, y) <=>
           \/ Precedes(stdout[m], x, y) \/ Precedes(hand[m], x, y)
           \/ Has(stdout[m], x) /\ Has(hand[m], y)
  BY <1>1, <1>2, <1>4, ConcatHolds
<1>6. \A x, y : ~Has(hand'[m], x) /\ ~Precedes(hand'[m], x, y)
  BY <1>4, EmptyHolds
<1>7. \A x \in Text : OnWay(m, x)' <=> OnWay(m, x)
  BY <1>3, <1>5, <1>6 DEF OnWay
<1>8. \A x, y \in Text : Ahead(m, x, y)' => Ahead(m, x, y)
  BY <1>3, <1>5, <1>6 DEF Ahead
<1> QED  BY <1>3, <1>4, <1>7, <1>8, NoneLost

LEMMA MainWritesMoves ==
  ASSUME InputIInv, NEW m \in Mcp, MainWrites(m)
  PROVE  \A n \in Mcp : TextsKept(n)' /\ TextsInOrder(n)'
<1>1. stdout[m] \in Seq(Text \cup {Response}) /\ Response \in Text \cup {Response}
  BY StagesTyped
<1>2. /\ stdout' = [stdout EXCEPT ![m] = Append(stdout[m], Response)]
      /\ missed' = missed /\ audience' = audience /\ published' = published
      /\ agent_heard' = agent_heard /\ hand' = hand /\ wire' = wire /\ queue' = queue
      /\ stdout \in [Mcp -> Seq(Text \cup {Response})]
  BY DEF MainWrites, InputIInv, InputTypes, historyVars, feedVars, watcherVars
<1>3. stdout'[m] = Append(stdout[m], Response) /\ OthersWay(m)
  BY <1>2 DEF OthersWay
<1>4. /\ \A x : Has(stdout'[m], x) <=> Has(stdout[m], x) \/ x = Response
      /\ \A x, y : Precedes(stdout'[m], x, y) <=>
           Precedes(stdout[m], x, y) \/ (Has(stdout[m], x) /\ y = Response)
  BY <1>1, <1>3, AppendHolds
<1>5. \A x \in Text : x # Response
  BY AgentInputAssumption
<1>6. \A x \in Text : OnWay(m, x)' <=> OnWay(m, x)
  BY <1>2, <1>4, <1>5 DEF OnWay
<1>7. \A x, y \in Text : Ahead(m, x, y)' => Ahead(m, x, y)
  BY <1>2, <1>4, <1>5 DEF Ahead
<1> QED  BY <1>2, <1>3, <1>6, <1>7, NoneLost

LEMMA McpExitsMoves ==
  ASSUME InputIInv, NEW m \in Mcp, McpExits(m)
  PROVE  \A n \in Mcp : TextsKept(n)' /\ TextsInOrder(n)'
<1>1. PICK L : L = ToSet(wire[m] \o hand[m])
  OBVIOUS
<1>2. /\ hand' = [hand EXCEPT ![m] = <<>>] /\ wire' = [wire EXCEPT ![m] = <<>>]
      /\ missed' = [missed EXCEPT ![m] = missed[m] \cup L]
      /\ audience' = audience /\ published' = published
      /\ agent_heard' = agent_heard /\ stdout' = stdout /\ queue' = queue
      /\ hand \in [Mcp -> Seq(Text)] /\ wire \in [Mcp -> Seq(Text)]
      /\ missed \in [Mcp -> SUBSET Text]
  BY <1>1 DEF McpExits, InputIInv, InputTypes
<1>3. /\ hand'[m] = <<>> /\ wire'[m] = <<>> /\ missed'[m] = missed[m] \cup L
      /\ OthersWay(m)
  BY <1>2 DEF OthersWay
<1>4. \A x, y : /\ ~Has(hand'[m], x) /\ ~Precedes(hand'[m], x, y)
                /\ ~Has(wire'[m], x) /\ ~Precedes(wire'[m], x, y)
  BY <1>3, EmptyHolds
<1>5. \A x : x \in L <=> Has(wire[m], x) \/ Has(hand[m], x)
  <2>1. wire[m] \in Seq(Text) /\ hand[m] \in Seq(Text)
    BY StagesTyped
  <2>2. \A x : Has(wire[m] \o hand[m], x) <=> Has(wire[m], x) \/ Has(hand[m], x)
    BY <2>1, ConcatHolds
  <2> QED  BY <1>1, <2>2, SetHolds
<1>6. \A x \in Text : x \in L => OnWay(m, x)
  BY <1>5 DEF OnWay
<1>7. \A x \in Text : ~Ahead(m, x, x)
  BY OnePlace
<1>8. \A x \in Text : OnWay(m, x)' <=> OnWay(m, x) /\ x \notin L
  BY <1>2, <1>4, <1>5, <1>7 DEF OnWay, Ahead
<1>9. \A x, y \in Text : Ahead(m, x, y)' => Ahead(m, x, y)
  BY <1>2, <1>4 DEF Ahead
<1> QED  BY <1>2, <1>3, <1>6, <1>8, <1>9, OneMoves

LEMMA AgentReadsMoves ==
  ASSUME InputIInv, NEW m \in Mcp, AgentReads(m)
  PROVE  \A n \in Mcp : TextsKept(n)' /\ TextsInOrder(n)'
<1>1. /\ stdout[m] \in Seq(Text \cup {Response}) /\ stdout[m] # <<>>
      /\ agent_heard[m] \in Seq(Text)
  BY StagesTyped DEF AgentReads
<1>2. PICK h : h = Head(stdout[m])
  OBVIOUS
<1>3. /\ stdout' = [stdout EXCEPT ![m] = Tail(stdout[m])]
      /\ agent_heard' = IF h = Response THEN agent_heard
                        ELSE [agent_heard EXCEPT ![m] = Append(agent_heard[m], h)]
      /\ missed' = missed /\ audience' = audience /\ published' = published
      /\ hand' = hand /\ wire' = wire /\ queue' = queue
      /\ stdout \in [Mcp -> Seq(Text \cup {Response})] /\ agent_heard \in [Mcp -> Seq(Text)]
  BY <1>2 DEF AgentReads, InputIInv, InputTypes, historyVars, feedVars, watcherVars
<1>4. stdout'[m] = Tail(stdout[m]) /\ OthersWay(m)
  BY <1>3 DEF OthersWay
<1>5. /\ h \in Text \cup {Response}
      /\ \A x : Has(stdout[m], x) <=> x = h \/ Has(stdout'[m], x)
      /\ \A x, y : Precedes(stdout[m], x, y) <=>
           Precedes(stdout'[m], x, y) \/ (x = h /\ Has(stdout'[m], y))
  BY <1>1, <1>2, <1>4, HeadHolds
<1>6. \A x \in Text : x # Response
  BY AgentInputAssumption
<1>7. (\A x \in Text : OnWay(m, x)' <=> OnWay(m, x))
      /\ \A x, y \in Text : Ahead(m, x, y)' => Ahead(m, x, y)
  <2>1. CASE h = Response
    <3>1. \A x \in Text : OnWay(m, x)' <=> OnWay(m, x)
      BY <1>3, <1>5, <1>6, <2>1 DEF OnWay
    <3>2. \A x, y \in Text : Ahead(m, x, y)' => Ahead(m, x, y)
      BY <1>3, <1>5, <1>6, <2>1 DEF Ahead
    <3> QED  BY <3>1, <3>2
  <2>2. CASE h # Response
    <3>1. agent_heard'[m] = Append(agent_heard[m], h) /\ h \in Text
      BY <1>3, <1>5, <2>2
    <3>2. /\ \A x : Has(agent_heard'[m], x) <=> Has(agent_heard[m], x) \/ x = h
          /\ \A x, y : Precedes(agent_heard'[m], x, y) <=>
               Precedes(agent_heard[m], x, y) \/ (Has(agent_heard[m], x) /\ y = h)
      BY <1>1, <3>1, AppendHolds
    <3>3. \A x \in Text : OnWay(m, x)' <=> OnWay(m, x)
      BY <1>3, <1>5, <3>2 DEF OnWay
    <3>4. \A x, y \in Text : Ahead(m, x, y)' => Ahead(m, x, y)
      BY <1>3, <1>5, <3>2 DEF Ahead
    <3> QED  BY <3>3, <3>4
  <2> QED  BY <2>1, <2>2
<1> QED  BY <1>3, <1>4, <1>7, NoneLost

LEMMA AgentEndsMoves ==
  ASSUME InputIInv, NEW m \in Mcp, AgentEnds(m)
  PROVE  \A n \in Mcp : TextsKept(n)' /\ TextsInOrder(n)'
<1>1. PICK L : L = ToSet(stdout[m]) \ {Response}
  OBVIOUS
<1>2. /\ stdout' = [stdout EXCEPT ![m] = <<>>]
      /\ missed' = [missed EXCEPT ![m] = missed[m] \cup L]
      /\ audience' = audience /\ published' = published
      /\ agent_heard' = agent_heard /\ hand' = hand /\ wire' = wire /\ queue' = queue
      /\ stdout \in [Mcp -> Seq(Text \cup {Response})] /\ missed \in [Mcp -> SUBSET Text]
  BY <1>1 DEF AgentEnds, InputIInv, InputTypes, feedVars, watcherVars
<1>3. stdout'[m] = <<>> /\ missed'[m] = missed[m] \cup L /\ OthersWay(m)
  BY <1>2 DEF OthersWay
<1>4. \A x, y : ~Has(stdout'[m], x) /\ ~Precedes(stdout'[m], x, y)
  BY <1>3, EmptyHolds
<1>5. \A x \in Text : x \in L <=> Has(stdout[m], x)
  BY <1>1, SetHolds, AgentInputAssumption
<1>6. \A x \in Text : x \in L => OnWay(m, x)
  BY <1>5 DEF OnWay
<1>7. \A x \in Text : ~Ahead(m, x, x)
  BY OnePlace
<1>8. \A x \in Text : OnWay(m, x)' <=> OnWay(m, x) /\ x \notin L
  BY <1>2, <1>4, <1>5, <1>7 DEF OnWay, Ahead
<1>9. \A x, y \in Text : Ahead(m, x, y)' => Ahead(m, x, y)
  BY <1>2, <1>4 DEF Ahead
<1> QED  BY <1>2, <1>3, <1>6, <1>8, <1>9, OneMoves

LEMMA DaemonExitsMoves ==
  ASSUME InputIInv, DaemonExits
  PROVE  \A n \in Mcp : TextsKept(n)' /\ TextsInOrder(n)'
<1> SUFFICES ASSUME NEW m \in Mcp  PROVE TextsKept(m)' /\ TextsInOrder(m)'
  OBVIOUS
<1>1. PICK L : L = ToSet(queue[m])
  OBVIOUS
<1>2. /\ queue'[m] = <<>> /\ missed'[m] = missed[m] \cup L
      /\ audience' = audience /\ published' = published
      /\ agent_heard' = agent_heard /\ stdout' = stdout /\ hand' = hand /\ wire' = wire
  BY <1>1 DEF DaemonExits, watcherVars, stdoutVars
<1>4. \A x, y : ~Has(queue'[m], x) /\ ~Precedes(queue'[m], x, y)
  BY <1>2, EmptyHolds
<1>5. \A x : x \in L <=> Has(queue[m], x)
  BY <1>1, SetHolds
<1>6. \A x \in Text : x \in L => OnWay(m, x)
  BY <1>5 DEF OnWay
<1>7. \A x \in Text : ~Ahead(m, x, x)
  BY OnePlace
<1>8. \A x \in Text : OnWay(m, x)' <=> OnWay(m, x) /\ x \notin L
  BY <1>2, <1>4, <1>5, <1>7 DEF OnWay, Ahead
<1>9. \A x, y \in Text : Ahead(m, x, y)' => Ahead(m, x, y)
  BY <1>2, <1>4 DEF Ahead
<1> QED  BY <1>2, <1>6, <1>8, <1>9, LosingKeeps

\* A text that nobody was sent is sent to all who have a receiver.
LEMMA PublishMoves ==
  ASSUME InputIInv, NEW t \in Text, audience[t] = {}, Publish(t),
         agent_heard' = agent_heard, stdout' = stdout, hand' = hand
  PROVE  \A n \in Mcp : TextsKept(n)' /\ TextsInOrder(n)'
<1>1. /\ subscribed # {} /\ published' = Append(published, t)
      /\ audience' = [audience EXCEPT ![t] = subscribed] /\ wire' = wire
      /\ queue' = [m \in Mcp |-> IF m \in subscribed THEN Enqueue(queue[m], t) ELSE queue[m]]
      /\ missed' = [m \in Mcp |->
                      IF m \in subscribed THEN missed[m] \cup LostByLag(m) ELSE missed[m]]
      /\ published \in Seq(Text) /\ audience \in [Text -> SUBSET Mcp]
  BY DEF Publish, InputIInv, InputTypes
<1>2. \A x, y : Precedes(published', x, y) <=>
        Precedes(published, x, y) \/ (Has(published, x) /\ y = t)
  BY <1>1, AppendHolds
<1>3. /\ audience'[t] = subscribed /\ \A x \in Text : x # t => audience'[x] = audience[x]
  BY <1>1
<1> SUFFICES ASSUME NEW n \in Mcp  PROVE TextsKept(n)' /\ TextsInOrder(n)'
  OBVIOUS
<1>4. /\ queue[n] \in Seq(Text)
      /\ \A x \in Text : OnWay(n, x) <=> n \in audience[x] /\ x \notin missed[n]
      /\ \A x \in Text : x \in missed[n] => n \in audience[x]
      /\ \A x, y \in Text : Ahead(n, x, y) => Precedes(published, x, y)
  BY StagesTyped DEF TextsKept, TextsInOrder
<1>5. ~OnWay(n, t) /\ t \notin missed[n]
  BY <1>4
<1>6. \A x \in Text : OnWay(n, x) => Has(published, x)
  BY <1>4 DEF InputIInv, SentOnce
<1>7. CASE n \notin subscribed
  <2>1. queue'[n] = queue[n] /\ missed'[n] = missed[n]
    BY <1>1, <1>7
  <2>2. \A x \in Text : OnWay(n, x)' <=> OnWay(n, x)
    BY <1>1, <2>1 DEF OnWay
  <2>3. \A x, y \in Text : Ahead(n, x, y)' <=> Ahead(n, x, y)
    BY <1>1, <2>1 DEF Ahead
  <2>4. \A x \in Text : /\ OnWay(n, x)' <=> n \in audience'[x] /\ x \notin missed'[n]
                        /\ x \in missed'[n] => n \in audience'[x]
    BY <1>3, <1>4, <1>5, <1>7, <2>1, <2>2
  <2>5. \A x, y \in Text : Ahead(n, x, y)' => Precedes(published', x, y)
    BY <1>2, <1>4, <2>3
  <2> QED  BY <2>4, <2>5 DEF TextsKept, TextsInOrder
<1>8. CASE n \in subscribed
  <2>1. PICK L : L = LostByLag(n)
    OBVIOUS
  <2>2. queue'[n] = Enqueue(queue[n], t) /\ missed'[n] = missed[n] \cup L
    BY <1>1, <1>8, <2>1
  <2>3. \A x \in Text : ~Ahead(n, x, x)
    BY OnePlace
  <2>4. /\ \A x \in Text : x \in L => Has(queue[n], x)
        /\ \A x \in Text : Has(queue'[n], x) <=> (Has(queue[n], x) /\ x \notin L) \/ x = t
        /\ \A x, y \in Text : Precedes(queue'[n], x, y) =>
             Precedes(queue[n], x, y) \/ (Has(queue[n], x) /\ y = t)
    <3>1. CASE Len(queue[n]) < EventSlotsKept
      <4>1. L = {} /\ queue'[n] = Append(queue[n], t)
        BY <2>1, <2>2, <3>1 DEF LostByLag, Enqueue
      <4>2. /\ \A x : Has(queue'[n], x) <=> Has(queue[n], x) \/ x = t
            /\ \A x, y : Precedes(queue'[n], x, y) <=>
                 Precedes(queue[n], x, y) \/ (Has(queue[n], x) /\ y = t)
        BY <1>4, <4>1, AppendHolds
      <4> QED  BY <4>1, <4>2
    <3>2. CASE ~(Len(queue[n]) < EventSlotsKept)
      <4>1. queue[n] # <<>>
        <5>1. queue[n] = <<>> => Len(queue[n]) = 0
          OBVIOUS
        <5> QED  BY <3>2, <5>1, AgentInputAssumption
      <4>2. PICK h : h = Head(queue[n])
        OBVIOUS
      <4>3. PICK r : r = Tail(queue[n])
        OBVIOUS
      <4>4. L = {h} /\ queue'[n] = Append(r, t)
        BY <2>1, <2>2, <3>2, <4>2, <4>3 DEF LostByLag, Enqueue
      <4>5. /\ h \in Text /\ r \in Seq(Text)
            /\ \A x : Has(queue[n], x) <=> x = h \/ Has(r, x)
            /\ \A x, y : Precedes(queue[n], x, y) <=>
                 Precedes(r, x, y) \/ (x = h /\ Has(r, y))
        BY <1>4, <4>1, <4>2, <4>3, HeadHolds
      <4>6. /\ \A x : Has(queue'[n], x) <=> Has(r, x) \/ x = t
            /\ \A x, y : Precedes(queue'[n], x, y) <=>
                 Precedes(r, x, y) \/ (Has(r, x) /\ y = t)
        BY <4>4, <4>5, AppendHolds
      <4>7. ~Has(r, h)
        BY <2>3, <4>5 DEF Ahead
      <4>8. \A x \in Text : x \in L => Has(queue[n], x)
        BY <4>4, <4>5
      <4>9. \A x \in Text : Has(queue'[n], x) <=> (Has(queue[n], x) /\ x \notin L) \/ x = t
        <5>1. \A x \in Text : x \in L <=> x = h
          BY <4>4
        <5> QED  BY <4>5, <4>6, <4>7, <5>1
      <4>10. \A x, y \in Text : Precedes(queue'[n], x, y) =>
               Precedes(queue[n], x, y) \/ (Has(queue[n], x) /\ y = t)
        BY <4>5, <4>6
      <4> QED  BY <4>8, <4>9, <4>10
    <3> QED  BY <3>1, <3>2
  <2>5. t \notin L
    BY <1>5, <2>4 DEF OnWay
  <2>6. \A x \in Text : OnWay(n, x)' <=> (OnWay(n, x) /\ x \notin L) \/ x = t
    BY <1>1, <2>3, <2>4 DEF OnWay, Ahead
  <2>7. \A x, y \in Text : Ahead(n, x, y)' => Ahead(n, x, y) \/ (OnWay(n, x) /\ y = t)
    BY <1>1, <2>4 DEF OnWay, Ahead
  <2>8. \A x \in Text : x \in L => n \in audience[x]
    BY <1>4, <2>4 DEF OnWay
  <2>9. \A x \in Text : /\ OnWay(n, x)' <=> n \in audience'[x] /\ x \notin missed'[n]
                        /\ x \in missed'[n] => n \in audience'[x]
    BY <1>3, <1>4, <1>5, <1>8, <2>2, <2>5, <2>6, <2>8
  <2>10. \A x, y \in Text : Ahead(n, x, y)' => Precedes(published', x, y)
    BY <1>2, <1>4, <1>6, <2>7
  <2> QED  BY <2>9, <2>10 DEF TextsKept, TextsInOrder
<1> QED  BY <1>7, <1>8

LEMMA PublishTyped ==
  ASSUME InputIInv, NEW t \in Text, audience[t] = {}, Publish(t)
  PROVE  /\ published' \in Seq(Text) /\ audience' \in [Text -> SUBSET Mcp]
         /\ missed' \in [Mcp -> SUBSET Text] /\ queue' \in [Mcp -> Seq(Text)]
         /\ fate' = [fate EXCEPT ![t] = "channel"]
         /\ subscribed' = subscribed /\ wire' = wire
         /\ \A u \in Text :
              /\ Has(published', u) <=> audience'[u] # {}
              /\ ~Precedes(published', u, u)
              /\ u # t => audience'[u] = audience[u]
<1>1. /\ subscribed # {} /\ published' = Append(published, t)
      /\ audience' = [audience EXCEPT ![t] = subscribed] /\ wire' = wire
      /\ queue' = [m \in Mcp |-> IF m \in subscribed THEN Enqueue(queue[m], t) ELSE queue[m]]
      /\ missed' = [m \in Mcp |->
                      IF m \in subscribed THEN missed[m] \cup LostByLag(m) ELSE missed[m]]
      /\ fate' = [fate EXCEPT ![t] = "channel"] /\ subscribed' = subscribed
      /\ published \in Seq(Text) /\ audience \in [Text -> SUBSET Mcp]
      /\ missed \in [Mcp -> SUBSET Text] /\ queue \in [Mcp -> Seq(Text)]
      /\ subscribed \subseteq Mcp
  BY DEF Publish, InputIInv, InputTypes
<1>2. ASSUME NEW m \in Mcp
      PROVE  Enqueue(queue[m], t) \in Seq(Text) /\ LostByLag(m) \subseteq Text
  <2>1. queue[m] \in Seq(Text)
    BY <1>1
  <2>2. CASE Len(queue[m]) < EventSlotsKept
    BY <2>1, <2>2 DEF Enqueue, LostByLag
  <2>3. CASE ~(Len(queue[m]) < EventSlotsKept)
    <3>1. queue[m] # <<>>
      <4>1. queue[m] = <<>> => Len(queue[m]) = 0
        OBVIOUS
      <4> QED  BY <2>3, <4>1, AgentInputAssumption
    <3>2. Head(queue[m]) \in Text /\ Tail(queue[m]) \in Seq(Text)
      BY <2>1, <3>1
    <3> QED  BY <2>3, <3>2 DEF Enqueue, LostByLag
  <2> QED  BY <2>2, <2>3
<1>3. queue' \in [Mcp -> Seq(Text)] /\ missed' \in [Mcp -> SUBSET Text]
  BY <1>1, <1>2
<1>4. published' \in Seq(Text) /\ audience' \in [Text -> SUBSET Mcp]
  BY <1>1
<1>5. /\ \A x : Has(published', x) <=> Has(published, x) \/ x = t
      /\ \A x, y : Precedes(published', x, y) <=>
           Precedes(published, x, y) \/ (Has(published, x) /\ y = t)
  BY <1>1, AppendHolds
<1>6. \A u \in Text : (Has(published, u) <=> audience[u] # {}) /\ ~Precedes(published, u, u)
  BY DEF InputIInv, SentOnce
<1>7. audience'[t] # {} /\ \A u \in Text : u # t => audience'[u] = audience[u]
  BY <1>1
<1>8. \A u \in Text : /\ Has(published', u) <=> audience'[u] # {}
                      /\ ~Precedes(published', u, u)
  BY <1>5, <1>6, <1>7
<1> QED  BY <1>1, <1>3, <1>4, <1>7, <1>8

\* The way of the texts and the watchers are as they were, whatever becomes of
\* a text that nobody was sent.
WayAsWas ==
  /\ published' = published /\ audience' = audience /\ missed' = missed /\ queue' = queue
  /\ wire' = wire /\ hand' = hand /\ stdout' = stdout /\ agent_heard' = agent_heard

LEMMA QuietMoves ==
  ASSUME InputIInv, WayAsWas
  PROVE  \A n \in Mcp : TextsKept(n)' /\ TextsInOrder(n)'
BY ElsewhereKeepsInput DEF WayAsWas

\* What a source of texts does: it sends one, shows or drops it, or transcribes.
LEMMA SourceKeeps ==
  ASSUME InputIInv, NEW t \in Text,
         watcher' = watcher, hand' = hand, stdout' = stdout, agent_heard' = agent_heard,
         stt' = [stt EXCEPT ![t] = stt'[t]],
         stt'[t] \in {"none", "local", "cloud", "whisper", "done"},
         \/ fate[t] = "none" /\ stt'[t] \in {"none", "done"}
              /\ (Publish(t) \/ (WayAsWas /\ subscribed' = subscribed
                     /\ \E f \in {"shown", "dropped"} : fate' = [fate EXCEPT ![t] = f]))
         \/ fate[t] = "none" /\ WayAsWas /\ subscribed' = subscribed /\ fate' = fate
  PROVE  InputIInv'
<1>1. /\ stt \in [Text -> {"none", "local", "cloud", "whisper", "done"}]
      /\ fate \in [Text -> {"none", "channel", "shown", "dropped"}]
  BY DEF InputIInv, InputTypes
<1>2. /\ stt' \in [Text -> {"none", "local", "cloud", "whisper", "done"}]
      /\ \A u \in Text : u # t => stt'[u] = stt[u]
  BY <1>1
<1>3. audience[t] = {}
  BY DEF InputIInv, SentOnce
<1>4. HandEmpty'
  BY DEF InputIInv, HandEmpty
<1>5. CASE Publish(t) /\ stt'[t] \in {"none", "done"}
  <2>1. \A n \in Mcp : TextsKept(n)' /\ TextsInOrder(n)'
    BY <1>3, <1>5, PublishMoves
  <2>2. /\ published' \in Seq(Text) /\ audience' \in [Text -> SUBSET Mcp]
        /\ missed' \in [Mcp -> SUBSET Text] /\ queue' \in [Mcp -> Seq(Text)]
        /\ fate' = [fate EXCEPT ![t] = "channel"]
        /\ subscribed' = subscribed /\ wire' = wire
        /\ \A u \in Text :
             /\ Has(published', u) <=> audience'[u] # {}
             /\ ~Precedes(published', u, u)
             /\ u # t => audience'[u] = audience[u]
    BY <1>3, <1>5, PublishTyped
  <2>3. InputTypes'
    BY <1>1, <1>2, <2>2 DEF InputIInv, InputTypes
  <2>4. SentOnce'
    BY <1>1, <1>2, <1>5, <2>2 DEF InputIInv, SentOnce
  <2> QED  BY <1>4, <2>1, <2>3, <2>4 DEF InputIInv
<1>6. CASE /\ WayAsWas /\ subscribed' = subscribed /\ stt'[t] \in {"none", "done"}
           /\ \E f \in {"shown", "dropped"} : fate' = [fate EXCEPT ![t] = f]
  <2>1. InputTypes'
    BY <1>1, <1>2, <1>6 DEF InputIInv, InputTypes, WayAsWas
  <2>2. SentOnce'
    BY <1>1, <1>2, <1>3, <1>6 DEF InputIInv, SentOnce, WayAsWas
  <2> QED  BY <1>4, <1>6, <2>1, <2>2, QuietMoves DEF InputIInv
<1>7. CASE fate[t] = "none" /\ WayAsWas /\ subscribed' = subscribed /\ fate' = fate
  <2>1. InputTypes'
    BY <1>1, <1>2, <1>7 DEF InputIInv, InputTypes, WayAsWas
  <2>2. SentOnce'
    BY <1>1, <1>2, <1>3, <1>7 DEF InputIInv, SentOnce, WayAsWas
  <2> QED  BY <1>4, <1>7, <2>1, <2>2, QuietMoves DEF InputIInv
<1> QED  BY <1>5, <1>6, <1>7

LEMMA SourcesKeep ==
  ASSUME InputIInv, NEW t \in Text,
         \/ TranscriptionCallback(t) \/ PulledTranscription(t)
         \/ FileUpload(t) \/ LostAudio(t) \/ SpeechLost(t)
         \/ AudioUpload(t) \/ BackendFails(t) \/ Transcribed(t)
  PROVE  InputIInv'
<1>1. /\ stt[t] \in {"none", "local", "cloud", "whisper", "done"}
      /\ stt \in [Text -> {"none", "local", "cloud", "whisper", "done"}]
      /\ stt[t] \in {"local", "cloud", "whisper"} => fate[t] = "none"
  BY DEF InputIInv, InputTypes, SentOnce
<1>2. ASSUME ShowOnly(t)
      PROVE  published' = published /\ audience' = audience /\ missed' = missed
             /\ queue' = queue /\ wire' = wire /\ subscribed' = subscribed
             /\ fate' = [fate EXCEPT ![t] = "shown"]
  BY <1>2 DEF ShowOnly, historyVars, feedVars
<1>3. CASE TranscriptionCallback(t)
  BY <1>1, <1>2, <1>3, SourceKeeps DEF TranscriptionCallback, PublishOrShow, WayAsWas,
     watcherVars, stdoutVars
<1>4. CASE PulledTranscription(t)
  BY <1>1, <1>4, SourceKeeps DEF PulledTranscription, WayAsWas, historyVars, feedVars,
     watcherVars, stdoutVars
<1>5. CASE Notice(t)
  BY <1>1, <1>2, <1>5, SourceKeeps DEF Notice, WayAsWas, historyVars, feedVars,
     watcherVars, stdoutVars
<1>6. CASE AudioUpload(t)
  BY <1>1, <1>6, SourceKeeps DEF AudioUpload, WayAsWas, historyVars, feedVars,
     watcherVars, stdoutVars
<1>7. CASE BackendFails(t)
  BY <1>1, <1>7, SourceKeeps DEF BackendFails, WayAsWas, historyVars, feedVars,
     watcherVars, stdoutVars
<1>8. CASE Transcribed(t)
  BY <1>1, <1>2, <1>8, SourceKeeps DEF Transcribed, PublishOrShow, WayAsWas, historyVars,
     feedVars, watcherVars, stdoutVars
<1> QED  BY <1>3, <1>4, <1>5, <1>6, <1>7, <1>8 DEF FileUpload, LostAudio, SpeechLost

\* The types, and what is known of the sources and of the watchers.
InputRest == InputTypes /\ SentOnce /\ HandEmpty

LEMMA ProcessRest ==
  ASSUME InputIInv, NEW m \in Mcp,
         \/ StreamWrites(m) \/ StreamEnds(m)
         \/ McpStarts(m) \/ WatcherRuns(m) \/ WatcherLocks(m)
         \/ MainReads(m) \/ MainLocks(m) \/ MainWrites(m) \/ McpExits(m)
         \/ AgentReads(m) \/ AgentEnds(m)
  PROVE  InputRest'
<1>1. InputTypes /\ SentOnce /\ HandEmpty
  BY DEF InputIInv
<1>2. /\ agent_heard[m] \in Seq(Text) /\ hand[m] \in Seq(Text) /\ wire[m] \in Seq(Text)
      /\ queue[m] \in Seq(Text) /\ stdout[m] \in Seq(Text \cup {Response})
  BY StagesTyped
<1>3. \A s : ToSet(s) = {s[i] : i \in DOMAIN s}
  BY DEF ToSet
<1>4. CASE StreamWrites(m)
  <2>1. Head(queue[m]) \in Text /\ Tail(queue[m]) \in Seq(Text)
    BY <1>2, <1>4 DEF StreamWrites
  <2>2. Append(wire[m], Head(queue[m])) \in Seq(Text)
    BY <1>2, <2>1
  <2>3. InputTypes'
    BY <1>1, <1>4, <2>1, <2>2 DEF StreamWrites, InputTypes, sourceVars, historyVars,
       watcherVars, stdoutVars
  <2> QED  BY <1>1, <1>4, <2>3 DEF StreamWrites, InputRest, SentOnce, HandEmpty, sourceVars,
           historyVars, watcherVars
<1>5. CASE StreamEnds(m)
  <2>1. \A x \in ToSet(queue[m]) : x \in Text
    BY <1>2, <1>3
  <2>2. InputTypes'
    BY <1>1, <1>5, <2>1 DEF StreamEnds, InputTypes, sourceVars, watcherVars, stdoutVars
  <2> QED  BY <1>1, <1>5, <2>2 DEF StreamEnds, InputRest, SentOnce, HandEmpty, sourceVars,
           watcherVars
<1>6. CASE McpStarts(m)
  BY <1>1, <1>6 DEF McpStarts, InputRest, InputTypes, SentOnce, HandEmpty, sourceVars,
     historyVars, feedVars, stdoutVars
<1>7. CASE WatcherConnects(m)
  BY <1>1, <1>7 DEF WatcherConnects, InputRest, InputTypes, SentOnce, HandEmpty, sourceVars,
     historyVars, stdoutVars
<1>8. CASE WatcherBacksOff(m)
  BY <1>1, <1>8 DEF WatcherBacksOff, InputRest, InputTypes, SentOnce, HandEmpty, sourceVars,
     historyVars, feedVars, stdoutVars
<1>9. CASE WatcherRetries(m)
  BY <1>1, <1>9 DEF WatcherRetries, InputRest, InputTypes, SentOnce, HandEmpty, sourceVars,
     historyVars, feedVars, stdoutVars
<1>10. CASE WatcherReads(m)
  <2>1. <<Head(wire[m])>> \in Seq(Text) /\ Tail(wire[m]) \in Seq(Text)
    BY <1>2, <1>10 DEF WatcherReads
  <2>2. InputTypes'
    BY <1>1, <1>10, <2>1 DEF WatcherReads, InputTypes, sourceVars, historyVars, stdoutVars
  <2> QED  BY <1>1, <1>10, <2>2 DEF WatcherReads, InputRest, InputTypes, SentOnce, HandEmpty,
           sourceVars, historyVars
<1>11. CASE WatcherWrites(m)
  <2>1. stdout[m] \o hand[m] \in Seq(Text \cup {Response})
    <3>1. hand[m] \in Seq(Text \cup {Response})
      BY <1>2
    <3> QED  BY <1>2, <3>1
  <2>2. InputTypes'
    BY <1>1, <1>11, <2>1 DEF WatcherWrites, InputTypes, sourceVars, historyVars, feedVars
  <2> QED  BY <1>1, <1>11, <2>2 DEF WatcherWrites, InputRest, InputTypes, SentOnce, HandEmpty,
           sourceVars, historyVars
<1>12. CASE WatcherLocks(m)
  BY <1>1, <1>12 DEF WatcherLocks, InputRest, InputTypes, SentOnce, HandEmpty, sourceVars,
     historyVars, feedVars
<1>13. CASE MainReads(m) \/ MainLocks(m)
  BY <1>1, <1>13 DEF MainReads, MainLocks, InputRest, InputTypes, SentOnce, HandEmpty,
     sourceVars, historyVars, feedVars, watcherVars, stdoutVars
<1>14. CASE MainWrites(m)
  <2>1. Append(stdout[m], Response) \in Seq(Text \cup {Response})
    BY <1>2
  <2>2. InputTypes'
    BY <1>1, <1>14, <2>1 DEF MainWrites, InputTypes, sourceVars, historyVars, feedVars,
       watcherVars
  <2> QED  BY <1>1, <1>14, <2>2 DEF MainWrites, InputRest, SentOnce, HandEmpty, sourceVars,
           historyVars, watcherVars
<1>15. CASE McpExits(m)
  <2>1. \A x \in ToSet(wire[m] \o hand[m]) : x \in Text
    <3>1. wire[m] \o hand[m] \in Seq(Text)
      BY <1>2
    <3>2. \A s \in Seq(Text) : \A x \in ToSet(s) : x \in Text
      BY <1>3
    <3> QED  BY <3>1, <3>2
  <2>2. InputTypes'
    BY <1>1, <1>15, <2>1 DEF McpExits, InputTypes, sourceVars
  <2> QED  BY <1>1, <1>15, <2>2 DEF McpExits, InputRest, InputTypes, SentOnce, HandEmpty,
           sourceVars
<1>16. CASE AgentReads(m)
  <2>1. /\ Head(stdout[m]) \in Text \cup {Response}
        /\ Tail(stdout[m]) \in Seq(Text \cup {Response})
    BY <1>2, <1>16 DEF AgentReads
  <2>2. Head(stdout[m]) # Response => Append(agent_heard[m], Head(stdout[m])) \in Seq(Text)
    BY <1>2, <2>1
  <2>3. InputTypes'
    BY <1>1, <1>16, <2>1, <2>2 DEF AgentReads, InputTypes, sourceVars, historyVars, feedVars,
       watcherVars
  <2> QED  BY <1>1, <1>16, <2>3 DEF AgentReads, InputRest, SentOnce, HandEmpty, sourceVars,
           historyVars, watcherVars
<1>17. CASE AgentEnds(m)
  <2>1. \A x \in ToSet(stdout[m]) \ {Response} : x \in Text
    BY <1>2, <1>3
  <2>2. InputTypes'
    BY <1>1, <1>17, <2>1 DEF AgentEnds, InputTypes, sourceVars, feedVars, watcherVars
  <2> QED  BY <1>1, <1>17, <2>2 DEF AgentEnds, InputRest, SentOnce, HandEmpty, sourceVars,
           watcherVars
<1> QED  BY <1>4, <1>5, <1>6, <1>7, <1>8, <1>9, <1>10, <1>11, <1>12, <1>13, <1>14, <1>15,
         <1>16, <1>17 DEF WatcherRuns

LEMMA ProcessKeeps ==
  ASSUME InputIInv, NEW m \in Mcp,
         \/ StreamWrites(m) \/ StreamEnds(m)
         \/ McpStarts(m) \/ WatcherRuns(m) \/ WatcherLocks(m)
         \/ MainReads(m) \/ MainLocks(m) \/ MainWrites(m) \/ McpExits(m)
         \/ AgentReads(m) \/ AgentEnds(m)
  PROVE  InputIInv'
<1>1. InputRest'
  BY ProcessRest
<1>2. McpStarts(m) => WayAsWas
  BY DEF McpStarts, WayAsWas, historyVars, feedVars, stdoutVars
<1>3. /\ WatcherConnects(m) => WayAsWas
      /\ WatcherBacksOff(m) \/ WatcherRetries(m) \/ WatcherLocks(m) => WayAsWas
  BY DEF WatcherConnects, WatcherBacksOff, WatcherRetries, WatcherLocks, WayAsWas,
     historyVars, feedVars, stdoutVars
<1>4. MainReads(m) \/ MainLocks(m) => WayAsWas
  BY DEF MainReads, MainLocks, WayAsWas, historyVars, feedVars, watcherVars, stdoutVars
<1>5. \A n \in Mcp : TextsKept(n)' /\ TextsInOrder(n)'
  BY <1>2, <1>3, <1>4, QuietMoves, StreamWritesMoves, StreamEndsMoves, WatcherReadsMoves,
     WatcherWritesMoves, MainWritesMoves, McpExitsMoves, AgentReadsMoves, AgentEndsMoves
     DEF WatcherRuns
<1> QED  BY <1>1, <1>5 DEF InputRest, InputIInv

LEMMA DaemonKeepsInput ==
  ASSUME InputIInv, DaemonExits \/ DaemonStarts
  PROVE  InputIInv'
<1>1. InputTypes /\ SentOnce /\ HandEmpty
  BY DEF InputIInv
<1>2. CASE DaemonStarts
  <2>1. WayAsWas /\ stt' = stt /\ fate' = fate /\ subscribed' = subscribed /\ watcher' = watcher
    BY <1>2 DEF DaemonStarts, WayAsWas, sourceVars, historyVars, feedVars, watcherVars,
       stdoutVars
  <2>2. InputTypes' /\ SentOnce' /\ HandEmpty'
    BY <1>1, <2>1 DEF InputTypes, SentOnce, HandEmpty, WayAsWas
  <2> QED  BY <2>1, <2>2, QuietMoves DEF InputIInv
<1>3. CASE DaemonExits
  <2>1. /\ subscribed' = {} /\ queue' = [m \in Mcp |-> <<>>]
        /\ missed' = [m \in Mcp |-> missed[m] \cup ToSet(queue[m])]
        /\ stt' = [t \in Text |-> IF stt[t] = "none" THEN "none" ELSE "done"]
        /\ fate' = [t \in Text |->
                      IF stt[t] \notin {"none", "done"} THEN "dropped" ELSE fate[t]]
        /\ published' = published /\ audience' = audience /\ wire' = wire
        /\ watcher' = watcher /\ hand' = hand /\ stdout' = stdout
        /\ agent_heard' = agent_heard
    BY <1>3 DEF DaemonExits, watcherVars, stdoutVars
  <2>2. \A m \in Mcp : ToSet(queue[m]) \subseteq Text
    <3>1. ASSUME NEW m \in Mcp, NEW x \in ToSet(queue[m])  PROVE x \in Text
      BY <3>1, StagesTyped DEF ToSet
    <3> QED  BY <3>1
  <2>3. missed' \in [Mcp -> SUBSET Text]
    BY <1>1, <2>1, <2>2 DEF InputTypes
  <2>4. InputTypes'
    BY <1>1, <2>1, <2>3 DEF InputTypes
  <2>5. ASSUME NEW t \in Text
        PROVE  /\ stt'[t] \in {"none", "done"}
               /\ audience[t] # {} => fate'[t] = "channel"
    <3>1. /\ stt'[t] = IF stt[t] = "none" THEN "none" ELSE "done"
          /\ fate'[t] = IF stt[t] \notin {"none", "done"} THEN "dropped" ELSE fate[t]
          /\ stt[t] \in {"none", "local", "cloud", "whisper", "done"}
      BY <1>1, <2>1 DEF InputTypes
    <3>2. /\ stt[t] \in {"local", "cloud", "whisper"} => fate[t] = "none"
          /\ audience[t] # {} => fate[t] = "channel"
      BY <1>1 DEF SentOnce
    <3> QED  BY <3>1, <3>2
  <2>6. SentOnce'
    BY <1>1, <2>1, <2>5 DEF SentOnce
  <2>7. HandEmpty'
    BY <1>1, <2>1 DEF HandEmpty
  <2> QED  BY <1>3, <2>4, <2>6, <2>7, DaemonExitsMoves DEF InputIInv
<1> QED  BY <1>2, <1>3

LEMMA InputSteps == InputIInv /\ [AgentInputNext]_inputVars => InputIInv'
<1> SUFFICES ASSUME InputIInv, [AgentInputNext]_inputVars  PROVE InputIInv'
  OBVIOUS
<1>1. CASE UNCHANGED inputVars
  <2>1. WayAsWas /\ stt' = stt /\ fate' = fate /\ subscribed' = subscribed /\ watcher' = watcher
    BY <1>1 DEF inputVars, WayAsWas, sourceVars, historyVars, feedVars, watcherVars,
       stdoutVars
  <2>2. InputTypes' /\ SentOnce' /\ HandEmpty'
    BY <2>1 DEF InputIInv, InputTypes, SentOnce, HandEmpty, WayAsWas
  <2> QED  BY <2>1, <2>2, QuietMoves DEF InputIInv
<1>2. CASE AgentInputNext
  BY <1>2, SourcesKeep, ProcessKeeps, DaemonKeepsInput DEF AgentInputNext
<1> QED  BY <1>1, <1>2

\* web.rs:2399 and b3.rs:1944: for any number of texts and MCP processes, what
\* was sent to a subscriber is heard or under way, once and in order, unless it
\* lagged, the daemon exited or the process ended.
THEOREM InputArrivesOnce == AgentInputSpec => []InputAccounted
<1>1. InputIInv => InputAccounted
  BY KeptIsAccounted
<1>2. AgentInputSpec => []InputIInv
  BY InputStart, InputSteps, PTL DEF AgentInputSpec
<1> QED  BY <1>1, <1>2, PTL

\* The types of what InputIInv says nothing of.
OtherInputTypes ==
  /\ web_state \in {"down", "starting", "up"} /\ daemon_exits \in 0..MaxDaemonExits
  /\ backends \subseteq {"local", "cloud"}
  /\ main \in [Mcp -> {"none", "gone", "idle", "handle", "write"}]
  /\ lock \in [Mcp -> {"free", "watcher", "main"}]
  /\ agent \subseteq Mcp /\ calls \in [Mcp -> 0..MaxCalls]

LEMMA InputTypesStay == OtherInputTypes /\ [AgentInputNext]_inputVars => OtherInputTypes'
<1> SUFFICES ASSUME OtherInputTypes, [AgentInputNext]_inputVars  PROVE OtherInputTypes'
  OBVIOUS
<1> DEFINE DaemonPart == /\ web_state \in {"down", "starting", "up"}
                         /\ daemon_exits \in 0..MaxDaemonExits
                         /\ backends \subseteq {"local", "cloud"}
           MainPart == /\ main \in [Mcp -> {"none", "gone", "idle", "handle", "write"}]
                       /\ calls \in [Mcp -> 0..MaxCalls]
           LockPart == lock \in [Mcp -> {"free", "watcher", "main"}]
           AgentPart == agent \subseteq Mcp
           Parts == DaemonPart /\ MainPart /\ LockPart /\ AgentPart
<1>1. /\ Parts /\ MaxDaemonExits \in Nat /\ MaxCalls \in Nat
  BY AgentInputAssumption DEF OtherInputTypes
<1>2. SUFFICES Parts'
  BY DEF OtherInputTypes
<1>3. ASSUME UNCHANGED inputVars  PROVE Parts'
  BY <1>1, <1>3 DEF inputVars, daemonSideVars, sourceVars, mainVars, stdoutVars
<1>4. ASSUME NEW t \in Text,
             \/ TranscriptionCallback(t) \/ PulledTranscription(t)
             \/ FileUpload(t) \/ LostAudio(t) \/ SpeechLost(t)
             \/ AudioUpload(t) \/ BackendFails(t) \/ Transcribed(t)
      PROVE  Parts'
  <2>1. UNCHANGED <<daemonSideVars, backends, mainVars, stdoutVars, agent>>
    BY <1>4
    DEF TranscriptionCallback, PulledTranscription, FileUpload, LostAudio, SpeechLost,
        Notice, AudioUpload, BackendFails, Transcribed
  <2> QED  BY <1>1, <2>1 DEF daemonSideVars, mainVars, stdoutVars
<1>5. ASSUME NEW m \in Mcp, StreamWrites(m) \/ StreamEnds(m)  PROVE Parts'
  BY <1>1, <1>5
  DEF StreamWrites, StreamEnds, daemonSideVars, sourceVars, mainVars, stdoutVars
<1>6. ASSUME NEW m \in Mcp, McpStarts(m)  PROVE Parts'
  <2>1. DaemonPart' /\ LockPart' /\ AgentPart'
    BY <1>1, <1>6 DEF McpStarts, daemonSideVars, sourceVars, stdoutVars
  <2>2. MainPart'
    BY <1>1, <1>6 DEF McpStarts
  <2> QED  BY <2>1, <2>2
<1>7. ASSUME NEW m \in Mcp, WatcherRuns(m) \/ WatcherLocks(m)  PROVE Parts'
  <2>1. DaemonPart' /\ MainPart' /\ AgentPart'
    BY <1>1, <1>7
    DEF WatcherRuns, WatcherConnects, WatcherBacksOff, WatcherRetries, WatcherReads,
        WatcherWrites, WatcherLocks, daemonSideVars, sourceVars, mainVars
  <2>2. LockPart'
    BY <1>1, <1>7
    DEF WatcherRuns, WatcherConnects, WatcherBacksOff, WatcherRetries, WatcherReads,
        WatcherWrites, WatcherLocks, stdoutVars
  <2> QED  BY <2>1, <2>2
<1>8. ASSUME NEW m \in Mcp, MainReads(m)  PROVE Parts'
  <2>1. calls[m] + 1 \in 0..MaxCalls
    BY <1>1, <1>8 DEF MainReads
  <2>2. MainPart'
    BY <1>1, <1>8, <2>1 DEF MainReads
  <2> QED  BY <1>1, <1>8, <2>2 DEF MainReads, daemonSideVars, sourceVars, stdoutVars
<1>9. ASSUME NEW m \in Mcp, MainLocks(m) \/ MainWrites(m)  PROVE Parts'
  <2>1. DaemonPart' /\ AgentPart'
    BY <1>1, <1>9 DEF MainLocks, MainWrites, daemonSideVars, sourceVars
  <2>2. MainPart' /\ LockPart'
    BY <1>1, <1>9 DEF MainLocks, MainWrites
  <2> QED  BY <2>1, <2>2
<1>10. ASSUME NEW m \in Mcp, McpExits(m)  PROVE Parts'
  <2>1. DaemonPart' /\ AgentPart'
    BY <1>1, <1>10 DEF McpExits, daemonSideVars, sourceVars
  <2>2. MainPart' /\ LockPart'
    BY <1>1, <1>10 DEF McpExits
  <2> QED  BY <2>1, <2>2
<1>11. ASSUME NEW m \in Mcp, AgentReads(m) \/ AgentEnds(m)  PROVE Parts'
  BY <1>1, <1>11 DEF AgentReads, AgentEnds, daemonSideVars, sourceVars, mainVars
<1>12. ASSUME DaemonExits  PROVE Parts'
  <2>1. daemon_exits + 1 \in 0..MaxDaemonExits
    BY <1>1, <1>12 DEF DaemonExits
  <2>2. DaemonPart'
    BY <1>1, <1>12, <2>1 DEF DaemonExits
  <2> QED  BY <1>1, <1>12, <2>2 DEF DaemonExits, mainVars, stdoutVars
<1>13. ASSUME DaemonStarts  PROVE Parts'
  BY <1>1, <1>13 DEF DaemonStarts, sourceVars, mainVars, stdoutVars
<1> HIDE DEF Parts
<1> QED
  BY <1>3, <1>4, <1>5, <1>6, <1>7, <1>8, <1>9, <1>10, <1>11, <1>12, <1>13 DEF AgentInputNext

\* What is said to the agent, the MCP processes and the agents that read from them
\* keep to their types (web.rs, mcp/b3.rs).
THEOREM InputTyped == AgentInputSpec => []AgentInputTypeOK
<1>1. AgentInputInit => OtherInputTypes
  BY AgentInputAssumption DEF AgentInputInit, OtherInputTypes
<1>2. AgentInputSpec => [](InputIInv /\ OtherInputTypes)
  BY <1>1, InputStart, InputSteps, InputTypesStay, PTL DEF AgentInputSpec
<1>3. InputIInv /\ OtherInputTypes => AgentInputTypeOK
  BY DEF InputIInv, InputTypes, OtherInputTypes, AgentInputTypeOK
<1> QED  BY <1>2, <1>3, PTL

-----------------------------------------------------------------------------
(***************************************************************************)
(* What resurface shows is what was asked for, for files and requests of   *)
(* any length, though the agent adds lines between the tool's steps.       *)
(*                                                                         *)
(* The lines read are a stretch of the file (Stretch), and without a seek  *)
(* it begins at the line asked for.  The file only grows, so the byte a    *)
(* seek leads to is still inside it when the range is read (LengthStands). *)
(* The answer walks through the indices it keeps in order, and a walk of   *)
(* as many steps as there are indices leaves none out (WalkVisits).        *)
(***************************************************************************)

\* The request is one of those that can be made.
RequestTyped ==
  request.start \in Int /\ request.end \in Int /\ request.percent \in 1 .. 100

\* The file is still as long as it was found to be, in bytes and in lines; of a
\* line that lacks its end one byte is there.
LengthStands ==
  /\ Len(recorded) <= MaxLines
  /\ torn => recorded[Len(recorded)].size = 1
  /\ resurface_at # "idle" => file_len <= BytesOf(Len(recorded))
  /\ total_lines <= Len(recorded)

\* The lines read follow each other in the file.
Stretch ==
  \A i, j \in DOMAIN raw_lines : raw_lines[j].at - raw_lines[i].at = j - i

\* Without a seek, they are those that were meant.
ReadAsMeant ==
  LET read == {raw_lines[i].at : i \in DOMAIN raw_lines}
  IN ~sought => /\ read \subseteq Meant
                /\ truncated \/ Meant \cap 1 .. total_lines \subseteq read
                /\ \A i \in DOMAIN raw_lines : raw_lines[i].at = AbsStart + i - 1

MemoryIInv ==
  /\ MemoryTypeOK /\ RequestTyped /\ LengthStands
  /\ resurface_at \in {"show", "answered"} => Stretch /\ ReadAsMeant
  /\ ResurfacedAsAsked

-----------------------------------------------------------------------------
(* Bytes and lines *)

\* The bytes of the first n lines of a file.
BytesIn(file, n) == UNION {{i} \X (1 .. file[i].size) : i \in 1 .. n}

Line == [size : {1} \cup LineSize, kind : LineKind]

LEMMA SizesAreNumbers == \A l \in Line : l.size \in Nat
<1>1. {1} \cup LineSize \subseteq Nat
  BY SessionMemoryAssumption
<1> QED  BY <1>1 DEF Line

LEMMA BytesFinite ==
  ASSUME NEW file \in Seq(Line), NEW n \in 0 .. Len(file)
  PROVE  /\ IsFiniteSet(BytesIn(file, n)) /\ Cardinality(BytesIn(file, n)) \in Nat
<1> DEFINE f == [i \in 1 .. n |-> {i} \X (1 .. file[i].size)]
           F == {f[i] : i \in 1 .. n}
<1>1. \A i \in 1 .. n : IsFiniteSet(f[i])
  <2> SUFFICES ASSUME NEW i \in 1 .. n  PROVE IsFiniteSet({i} \X (1 .. file[i].size))
    OBVIOUS
  <2>1. file[i] \in Line
    OBVIOUS
  <2>2. file[i].size \in Nat
    BY <2>1, SizesAreNumbers
  <2>3. IsFiniteSet(1 .. file[i].size)
    <3>1. \A k \in Nat : IsFiniteSet(1 .. k)
      BY FS_Interval
    <3> QED  BY <2>2, <3>1
  <2>4. IsFiniteSet({i})
    BY FS_Singleton
  <2> QED  BY <2>3, <2>4, FS_Product
<1>2. IsFiniteSet(F)
  <2>1. f \in Surjection(1 .. n, F)
    BY DEF Surjection
  <2>2. IsFiniteSet(1 .. n)
    BY FS_Interval
  <2> HIDE DEF F, f
  <2> QED  BY <2>1, <2>2, FS_Surjection
<1>3. BytesIn(file, n) = UNION F
  BY DEF BytesIn
<1>4. \A T \in F : IsFiniteSet(T)
  BY <1>1
<1> HIDE DEF F
<1>5. IsFiniteSet(UNION F)
  BY <1>2, <1>4, FS_UNION
<1> QED  BY <1>3, <1>5, FS_CardinalityType

\* A file whose lines are added to has at least the bytes it had.
LEMMA BytesGrow ==
  ASSUME NEW f \in Seq(Line), NEW g \in Seq(Line), Len(f) <= Len(g),
         \A i \in 1 .. Len(f) : f[i].size <= g[i].size
  PROVE  Cardinality(BytesIn(f, Len(f))) <= Cardinality(BytesIn(g, Len(g)))
<1>1. ASSUME NEW x \in BytesIn(f, Len(f))  PROVE x \in BytesIn(g, Len(g))
  <2>1. PICK i \in 1 .. Len(f) : x \in {i} \X (1 .. f[i].size)
    BY DEF BytesIn
  <2>2. i \in 1 .. Len(g) /\ f[i] \in Line /\ g[i] \in Line
    OBVIOUS
  <2>3. f[i].size \in Nat /\ g[i].size \in Nat
    BY <2>2, SizesAreNumbers
  <2>4. 1 .. f[i].size \subseteq 1 .. g[i].size
    BY <2>3
  <2>5. x \in {i} \X (1 .. g[i].size)
    BY <2>1, <2>4
  <2> QED  BY <2>2, <2>5 DEF BytesIn
<1>2. IsFiniteSet(BytesIn(g, Len(g)))
  BY BytesFinite
<1> QED  BY <1>1, <1>2, FS_Subset

\* A set of numbers that is not empty has a least one.
LEMMA LeastOf ==
  ASSUME NEW S \in SUBSET Nat, S # {}
  PROVE  Min(S) \in S /\ \A y \in S : Min(S) <= y
<1>1. PICK m \in S : \A n \in S : ~(<<n, m>> \in OpToRel(<, Nat))
  BY WFMin, NatLessThanWellFounded
<1>2. \A n \in S : m <= n
  <2> SUFFICES ASSUME NEW n \in S  PROVE ~(n < m)
    OBVIOUS
  <2>1. n < m => <<n, m>> \in OpToRel(<, Nat)
    BY DEF OpToRel
  <2> QED  BY <1>1, <2>1
<1> QED  BY <1>2 DEF Min

LEMMA LesserOf ==
  ASSUME NEW a \in Int, NEW b \in Int
  PROVE  Min({a, b}) = IF a <= b THEN a ELSE b
<1>1. PICK m : m = IF a <= b THEN a ELSE b
  OBVIOUS
<1>2. m \in {a, b} /\ \A y \in {a, b} : m <= y
  BY <1>1
<1>3. \A x \in {a, b} : (\A y \in {a, b} : x <= y) => x = m
  BY <1>1, <1>2
<1> QED  BY <1>1, <1>2, <1>3 DEF Min

\* A walk through finitely many indices visits each of them.
LEMMA WalkVisits ==
  ASSUME NEW S \in SUBSET Nat, IsFiniteSet(S), NEW w \in Walks(S)
  PROVE  /\ w \in [1 .. Cardinality(S) -> S] /\ Cardinality(S) \in Nat
         /\ \A k, l \in 1 .. Cardinality(S) : k < l => w[k] < w[l]
         /\ \A i \in S : \E k \in 1 .. Cardinality(S) : w[k] = i
<1> DEFINE n == Cardinality(S)
<1>1. n \in Nat
  BY FS_CardinalityType
<1>2. w \in [1 .. n -> S] /\ \A k, l \in 1 .. n : k < l => w[k] < w[l]
  BY DEF Walks
<1>3. IsFiniteSet(1 .. n) /\ Cardinality(1 .. n) = n
  BY <1>1, FS_Interval
<1> HIDE DEF n
<1>4. w \in Injection(1 .. n, S)
  <2> SUFFICES ASSUME NEW k \in 1 .. n, NEW l \in 1 .. n, w[k] = w[l]  PROVE k = l
    BY <1>2 DEF Injection, IsInjective
  <2>1. w[k] \in Nat /\ w[l] \in Nat
    BY <1>2
  <2> QED  BY <1>1, <1>2, <2>1
<1>5. w \in Surjection(1 .. n, S)
  BY <1>3, <1>4, FS_Injection DEF n
<1> QED  BY <1>1, <1>2, <1>5 DEF Surjection, n

-----------------------------------------------------------------------------
(* The steps of the tool and of the agent *)

LEMMA MemoryStart == MemoryInit => MemoryIInv
<1> SUFFICES ASSUME MemoryInit  PROVE MemoryIInv
  OBVIOUS
<1>1. MemoryTypeOK
  <2>1. \A S : <<>> \in Seq(S)
    OBVIOUS
  <2>2. 0 \in 0 .. MaxLines
    BY SessionMemoryAssumption
  <2> QED  BY <2>1, <2>2 DEF MemoryInit, MemoryTypeOK
<1>2. RequestTyped
  BY DEF MemoryInit, RequestTyped
<1>3. LengthStands
  BY SessionMemoryAssumption DEF MemoryInit, LengthStands
<1> QED
  BY <1>1, <1>2, <1>3 DEF MemoryInit, MemoryIInv, ResurfacedAsAsked

\* The agent adds to the file: what is written stays, and a line grows.
LEMMA WritingKeeps ==
  ASSUME MemoryIInv, Unread, recorded' \in Seq(Line), Len(recorded') <= MaxLines,
         Len(recorded) <= Len(recorded'), torn' \in BOOLEAN, recorded' # <<>>,
         \A i \in 1 .. Len(recorded) : recorded[i].size <= recorded'[i].size,
         torn' => recorded'[Len(recorded')].size = 1,
         UNCHANGED <<resurface_at, askVars, rangeVars, moments>>
  PROVE  MemoryIInv'
<1> USE DEF MemoryIInv, askVars, rangeVars
<1>1. MemoryTypeOK'
  BY DEF MemoryTypeOK, Line
<1>2. LengthStands'
  <2>1. recorded \in Seq(Line) /\ file_len \in Nat
    BY DEF MemoryTypeOK, Line
  <2>2. Cardinality(BytesIn(recorded, Len(recorded)))
          <= Cardinality(BytesIn(recorded', Len(recorded')))
    BY <2>1, BytesGrow
  <2>3. /\ Cardinality(BytesIn(recorded, Len(recorded))) \in Nat
        /\ Cardinality(BytesIn(recorded', Len(recorded'))) \in Nat
    <3>1. Len(recorded) \in 0 .. Len(recorded) /\ Len(recorded') \in 0 .. Len(recorded')
      BY <2>1
    <3> QED  BY <2>1, <3>1, BytesFinite
  <2>4. /\ BytesOf(Len(recorded)) = Cardinality(BytesIn(recorded, Len(recorded)))
        /\ BytesOf(Len(recorded))' = Cardinality(BytesIn(recorded', Len(recorded')))
    BY DEF BytesOf, Bytes, BytesIn
  <2>5. total_lines \in Nat /\ total_lines' = total_lines /\ file_len' = file_len
    BY DEF MemoryTypeOK
  <2> QED
    BY <2>1, <2>2, <2>3, <2>4, <2>5 DEF LengthStands
<1>3. RequestTyped' /\ (resurface_at \notin {"show", "answered"})'
  BY DEF RequestTyped, Unread
<1> QED
  BY <1>1, <1>2, <1>3 DEF ResurfacedAsAsked

LEMMA BeginKeeps == ASSUME MemoryIInv, BeginLine  PROVE MemoryIInv'
<1>1. PICK kind \in LineKind : recorded' = Append(recorded, [size |-> 1, kind |-> kind])
  BY DEF BeginLine
<1>2. recorded \in Seq(Line) /\ [size |-> 1, kind |-> kind] \in Line
  BY DEF MemoryIInv, MemoryTypeOK, Line
<1> HIDE DEF Line
<1>3. /\ recorded' \in Seq(Line) /\ Len(recorded') = Len(recorded) + 1
      /\ \A i \in 1 .. Len(recorded) : recorded'[i] = recorded[i]
  BY <1>1, <1>2
<1>4. /\ Unread /\ Len(recorded) < MaxLines /\ torn' = TRUE
      /\ UNCHANGED <<resurface_at, askVars, rangeVars, moments>>
  BY DEF BeginLine
<1>5. /\ Len(recorded') <= MaxLines /\ Len(recorded) <= Len(recorded') /\ recorded' # <<>>
      /\ \A i \in 1 .. Len(recorded) : recorded[i].size <= recorded'[i].size
  <2>1. \A i \in 1 .. Len(recorded) : recorded[i] \in Line
    BY <1>2
  <2>2. \A i \in 1 .. Len(recorded) : recorded[i].size \in Nat
    BY <2>1, SizesAreNumbers
  <2>3. Len(recorded) \in Nat /\ MaxLines \in Nat
    BY <1>2, SessionMemoryAssumption
  <2> QED  BY <1>3, <1>4, <2>2, <2>3
<1>6. recorded'[Len(recorded')] = [size |-> 1, kind |-> kind]
  BY <1>1, <1>2
<1> QED  BY <1>3, <1>4, <1>5, <1>6, WritingKeeps

LEMMA FinishKeeps == ASSUME MemoryIInv, FinishLine  PROVE MemoryIInv'
<1> DEFINE n == Len(recorded)
<1>1. PICK size \in LineSize : recorded' = [recorded EXCEPT ![n].size = size]
  BY DEF FinishLine
<1>2. recorded \in Seq(Line) /\ n \in Nat \ {0} /\ n <= MaxLines
  BY DEF FinishLine, MemoryIInv, MemoryTypeOK, LengthStands, Line
<1>3. \A l \in Line : [l EXCEPT !.size = size] \in Line
  BY DEF Line
<1>4. size \in Nat \ {0}
  BY SessionMemoryAssumption
<1> HIDE DEF Line, n
<1>5. /\ recorded' \in Seq(Line) /\ Len(recorded') = n
      /\ \A i \in 1 .. n : i # n => recorded'[i] = recorded[i]
      /\ recorded'[n] = [recorded[n] EXCEPT !.size = size]
  <2>1. /\ recorded \in [1 .. n -> Line] /\ n \in 1 .. n
        /\ recorded' = [recorded EXCEPT ![n] = [recorded[n] EXCEPT !.size = size]]
    BY <1>1, <1>2 DEF n
  <2>2. recorded[n] \in Line
    BY <2>1
  <2>3. recorded' \in [1 .. n -> Line]
    BY <1>3, <2>1, <2>2
  <2>4. recorded' \in Seq(Line) /\ Len(recorded') = n
    BY <1>2, <2>3
  <2> QED  BY <2>1, <2>4
<1>6. recorded[n] \in Line /\ recorded[n].size = 1 /\ Unread /\ torn' = FALSE
  BY <1>2 DEF FinishLine, MemoryIInv, LengthStands, n
<1>7. recorded'[n].size = size
  BY <1>5, <1>6 DEF Line
<1>8. \A i \in 1 .. n : recorded[i].size <= recorded'[i].size
  <2> SUFFICES ASSUME NEW i \in 1 .. n  PROVE recorded[i].size <= recorded'[i].size
    OBVIOUS
  <2>1. recorded[i] \in Line
    BY <1>2 DEF n
  <2>2. recorded[i].size \in Nat
    BY <2>1, SizesAreNumbers
  <2>3. CASE i = n
    BY <1>4, <1>6, <1>7, <2>3
  <2> QED  BY <1>5, <2>2, <2>3
<1>9. UNCHANGED <<resurface_at, askVars, rangeVars, moments>> /\ recorded' # <<>>
  BY <1>2, <1>5 DEF FinishLine
<1>10. Len(recorded') <= MaxLines /\ Len(recorded) <= Len(recorded')
  BY <1>2, <1>5 DEF n
<1>11. torn' \in BOOLEAN /\ ~torn' /\ recorded' \in Seq(Line) /\ Unread
  BY <1>5, <1>6
<1>12. \A i \in 1 .. Len(recorded) : recorded[i].size <= recorded'[i].size
  BY <1>8 DEF n
<1> QED  BY <1>9, <1>10, <1>11, <1>12, WritingKeeps

LEMMA AskKeeps == ASSUME MemoryIInv, Ask  PROVE MemoryIInv'
<1> USE DEF MemoryIInv
<1>1. /\ recorded \in Seq(Line) /\ UNCHANGED <<transcriptVars, total_lines, rangeVars, moments>>
      /\ file_len' = BytesOf(Len(recorded)) /\ resurface_at' = "count"
      /\ request' \in [start : StartLine, end : EndLine, type : RecordType, percent : Percent]
  BY DEF Ask, ToolAt, MemoryTypeOK, Line
<1>2. BytesOf(Len(recorded)) = Cardinality(BytesIn(recorded, Len(recorded)))
  BY DEF BytesOf, Bytes, BytesIn
<1>3. BytesOf(Len(recorded)) \in Nat
  <2>1. Len(recorded) \in 0 .. Len(recorded)
    BY <1>1
  <2> QED  BY <1>1, <1>2, <2>1, BytesFinite
<1>4. BytesOf(Len(recorded))' = BytesOf(Len(recorded))
  BY <1>1 DEF BytesOf, Bytes, transcriptVars
<1>5. MemoryTypeOK'
  BY <1>1, <1>3 DEF MemoryTypeOK, transcriptVars, rangeVars
<1>6. RequestTyped'
  BY <1>1, SessionMemoryAssumption DEF RequestTyped
<1>7. LengthStands'
  BY <1>1, <1>3, <1>4 DEF LengthStands, transcriptVars
<1> QED  BY <1>1, <1>5, <1>6, <1>7 DEF ResurfacedAsAsked

LEMMA CountKeeps == ASSUME MemoryIInv, CountLines  PROVE MemoryIInv'
<1> USE DEF MemoryIInv
<1>1. /\ recorded \in Seq(Line)
      /\ UNCHANGED <<transcriptVars, request, file_len, rangeVars, moments>>
      /\ total_lines' = Len(recorded) - (IF torn THEN 1 ELSE 0)
      /\ resurface_at = "count" /\ resurface_at' = "read"
  BY DEF CountLines, ToolAt, MemoryTypeOK, Line
<1>2. Len(recorded) \in Nat /\ (torn => Len(recorded) # 0) /\ torn \in BOOLEAN
      /\ Len(recorded) <= MaxLines /\ MaxLines \in Nat
  BY <1>1, SessionMemoryAssumption DEF MemoryTypeOK, LengthStands
<1>3. total_lines' \in 0 .. Len(recorded)
  BY <1>1, <1>2
<1>4. MemoryTypeOK'
  BY <1>1, <1>2, <1>3 DEF MemoryTypeOK, transcriptVars, rangeVars
<1>5. RequestTyped'
  BY <1>1 DEF RequestTyped
<1>6. BytesOf(Len(recorded))' = BytesOf(Len(recorded))
  BY <1>1 DEF BytesOf, Bytes, transcriptVars
<1>7. LengthStands'
  BY <1>1, <1>2, <1>3, <1>6 DEF LengthStands, transcriptVars
<1> QED  BY <1>1, <1>4, <1>5, <1>7 DEF ResurfacedAsAsked

\* A seek leads to a byte inside the file.
LEMMA SoughtInside ==
  ASSUME MemoryIInv, resurface_at = "read", Seeks, SeekTo > 0
  PROVE  LineAfter(SeekTo) \in Nat \ {0}
<1>1. /\ recorded \in Seq(Line) /\ Len(recorded) \in Nat /\ file_len \in Nat
      /\ total_lines \in Nat \ {0} /\ AbsStart \in Int /\ SafetyMargin \in Nat
      /\ SeekTail \in Nat \ {0} /\ file_len <= BytesOf(Len(recorded))
  BY SessionMemoryAssumption
     DEF MemoryIInv, MemoryTypeOK, LengthStands, RequestTyped, Seeks, AbsStart, AtLeast1, Line
<1>2. BytesOf(Len(recorded)) \in Nat
  <2>1. BytesOf(Len(recorded)) = Cardinality(BytesIn(recorded, Len(recorded)))
    BY DEF BytesOf, Bytes, BytesIn
  <2>2. Len(recorded) \in 0 .. Len(recorded)
    BY <1>1
  <2> QED  BY <1>1, <2>1, <2>2, BytesFinite
<1>3. BytesOf(Len(recorded)) > SeekTo /\ SeekTo \in Int
  <2>1. file_len \div total_lines \in Int
    BY <1>1
  <2>2. PICK a \in Int : a = ScanStart * (file_len \div total_lines)
    BY <1>1, <2>1 DEF ScanStart
  <2>3. PICK b \in Int : b = file_len - SeekTail
    BY <1>1
  <2>4. SeekTo = Min({a, b})
    BY <2>2, <2>3 DEF SeekTo
  <2>5. SeekTo \in Int /\ SeekTo <= b
    BY <2>4, LesserOf
  <2> QED  BY <1>1, <1>2, <2>3, <2>5
<1> DEFINE S == {n \in 1 .. Len(recorded) : BytesOf(n) > SeekTo}
<1>4. S # {} /\ S \in SUBSET Nat
  <2>1. Len(recorded) # 0
    <3> SUFFICES ASSUME Len(recorded) = 0  PROVE FALSE
      OBVIOUS
    <3>1. Bytes(Len(recorded)) = {}
      BY DEF Bytes
    <3>2. BytesOf(Len(recorded)) = 0
      BY <3>1, FS_EmptySet DEF BytesOf
    <3> QED  BY <1>1, <1>3, <3>2
  <2>2. Len(recorded) \in S
    BY <1>1, <1>3, <2>1
  <2> QED  BY <2>2
<1>5. Min(S) \in Nat
  <2> HIDE DEF S
  <2> QED  BY <1>4, LeastOf
<1> QED  BY <1>5 DEF LineAfter

\* The lines read are lines of the file, one after the other, and those meant if
\* nothing was skipped.
LEMMA ReadKeeps == ASSUME MemoryIInv, ReadRange  PROVE MemoryIInv'
<1> DEFINE first == IF sought' THEN LineAfter(SeekTo) ELSE 1
           scan_from_line == IF sought' THEN ScanStart ELSE 1
           from == first + AbsStart - scan_from_line
           end == first + AbsEnd - scan_from_line
           to == Min({end, Len(recorded)})
<1>1. PICK last \in {from - 1} \cup (from .. to) :
        /\ raw_lines' = [i \in 1 .. last - from + 1 |-> LineAt(from + i - 1)]
        /\ truncated' = (last < to)
  BY DEF ReadRange
<1>2. /\ resurface_at = "read" /\ resurface_at' = "show"
      /\ UNCHANGED <<transcriptVars, askVars, moments>>
      /\ sought' = (Seeks /\ SeekTo > 0) /\ sought' \in BOOLEAN
  BY DEF ReadRange, ToolAt
<1>3. /\ recorded \in Seq(Line) /\ Len(recorded) \in Nat /\ Len(recorded) <= MaxLines
      /\ total_lines \in Nat /\ total_lines <= Len(recorded) /\ MaxLines \in Nat
      /\ request.start \in Int /\ request.end \in Int /\ SafetyMargin \in Nat
      /\ MemoryTypeOK
  BY SessionMemoryAssumption
     DEF MemoryIInv, MemoryTypeOK, LengthStands, RequestTyped, Line
<1>4. AbsStart \in Nat \ {0} /\ AbsEnd \in Nat
  BY <1>3 DEF AbsStart, AbsEnd, AtLeast1
<1>5. first \in Nat \ {0}
  <2>1. CASE sought'
    BY <1>2, <2>1, SoughtInside
  <2>2. CASE ~sought'
    BY <2>2
  <2> QED  BY <2>1, <2>2
<1>6. from \in Nat \ {0} /\ end \in Int
  <2>1. CASE sought'
    <3>1. from = first + SafetyMargin
      <4> HIDE DEF first
      <4> QED  BY <1>3, <1>4, <1>5, <2>1 DEF ScanStart
    <3>2. ScanStart \in Int
      BY <1>3, <1>4 DEF ScanStart
    <3>3. end \in Int
      <4> HIDE DEF first
      <4> QED  BY <1>4, <1>5, <2>1, <3>2
    <3> HIDE DEF first, from, end
    <3> QED  BY <1>3, <1>5, <3>1, <3>3
  <2>2. CASE ~sought'
    BY <1>4, <2>2
  <2> QED  BY <2>1, <2>2
<1>7. ~sought' => from = AbsStart /\ end = AbsEnd
  BY <1>4
<1> HIDE DEF first, scan_from_line, from, end
<1>8. to = IF end <= Len(recorded) THEN end ELSE Len(recorded)
  BY <1>3, <1>6, LesserOf
<1> HIDE DEF to
<1>9. /\ to \in Int /\ to <= Len(recorded) /\ to <= end
      /\ last \in Int /\ last - from + 1 \in Nat
      /\ last \in from .. to \/ last = from - 1
  BY <1>1, <1>3, <1>6, <1>8
<1> DEFINE m == last - from + 1
<1>10. /\ DOMAIN raw_lines' = 1 .. m /\ m \in Nat
       /\ \A i \in 1 .. m : raw_lines'[i] = LineAt(from + i - 1)
  BY <1>1, <1>9
<1>11. \A i \in 1 .. m : /\ from + i - 1 \in 1 .. Len(recorded)
                         /\ raw_lines'[i].at = from + i - 1
                         /\ raw_lines'[i]
                              \in [at : 1 .. MaxLines, kind : LineKind \cup {"torn"}]
  <2> SUFFICES ASSUME NEW i \in 1 .. m
               PROVE /\ from + i - 1 \in 1 .. Len(recorded)
                     /\ raw_lines'[i].at = from + i - 1
                     /\ raw_lines'[i] \in [at : 1 .. MaxLines, kind : LineKind \cup {"torn"}]
    OBVIOUS
  <2>1. from + i - 1 \in 1 .. Len(recorded)
    BY <1>3, <1>6, <1>9
  <2>2. PICK n \in 1 .. Len(recorded) : n = from + i - 1
    BY <2>1
  <2>3. raw_lines'[i] = LineAt(n)
    BY <1>10, <2>2
  <2>4. recorded[n].kind \in LineKind
    <3>1. recorded[n] \in Line
      BY <1>3
    <3> QED  BY <3>1 DEF Line
  <2>5. /\ LineAt(n) \in [at : 1 .. MaxLines, kind : LineKind \cup {"torn"}]
        /\ LineAt(n).at = n
    BY <1>3, <2>2, <2>4 DEF LineAt
  <2> QED  BY <2>1, <2>2, <2>3, <2>5
<1>12. /\ request' = request /\ total_lines' = total_lines /\ file_len' = file_len
       /\ recorded' = recorded /\ torn' = torn /\ moments' = moments
  BY <1>2 DEF transcriptVars, askVars
<1>13. MemoryTypeOK'
  <2> DEFINE T == [at : 1 .. MaxLines, kind : LineKind \cup {"torn"}]
  <2>1. raw_lines' = [i \in 1 .. m |-> LineAt(from + i - 1)]
    BY <1>1
  <2>2. \A i \in 1 .. m : LineAt(from + i - 1) \in T
    BY <1>10, <1>11
  <2>3. m \in Nat
    BY <1>10
  <2> HIDE DEF m, T
  <2>4. raw_lines' \in Seq(T)
    BY <2>1, <2>2, <2>3
  <2>5. truncated' \in BOOLEAN
    BY <1>1
  <2> QED  BY <1>2, <1>3, <1>12, <2>4, <2>5 DEF MemoryTypeOK, T
<1>14. RequestTyped' /\ LengthStands'
  <2>1. BytesOf(Len(recorded))' = BytesOf(Len(recorded))
    BY <1>12 DEF BytesOf, Bytes
  <2> QED
    BY <1>2, <1>12, <2>1 DEF RequestTyped, LengthStands, MemoryIInv
<1>15. Stretch'
  <2> SUFFICES ASSUME NEW i \in 1 .. m, NEW j \in 1 .. m
               PROVE raw_lines'[j].at - raw_lines'[i].at = j - i
    BY <1>10 DEF Stretch
  <2>1. raw_lines'[i].at = from + i - 1 /\ raw_lines'[j].at = from + j - 1
    BY <1>11
  <2>2. i \in Nat /\ j \in Nat
    BY <1>10
  <2> QED  BY <1>6, <2>1, <2>2
<1>16. ReadAsMeant'
  <2> DEFINE read == {raw_lines'[i].at : i \in 1 .. m}
  <2> SUFFICES ASSUME ~sought'
               PROVE /\ read \subseteq Meant
                     /\ truncated' \/ Meant \cap 1 .. total_lines \subseteq read
                     /\ \A i \in 1 .. m : raw_lines'[i].at = AbsStart + i - 1
    <3>1. Meant' = Meant /\ AbsStart' = AbsStart
      BY <1>12 DEF Meant, AbsStart, AbsEnd
    <3> QED  BY <1>10, <1>12, <3>1 DEF ReadAsMeant
  <2>1. /\ from = AbsStart
        /\ to = IF AbsEnd <= Len(recorded) THEN AbsEnd ELSE Len(recorded)
    BY <1>7, <1>8
  <2>2. read = from .. last
    <3>1. ASSUME NEW x \in read  PROVE x \in from .. last
      <4>1. PICK i \in 1 .. m : x = raw_lines'[i].at
        OBVIOUS
      <4>2. x = from + i - 1
        BY <1>11, <4>1
      <4> QED  BY <1>6, <1>9, <4>2
    <3>2. ASSUME NEW x \in from .. last  PROVE x \in read
      <4>1. PICK i \in 1 .. m : i = x - from + 1
        BY <1>6, <1>9
      <4>2. raw_lines'[i].at = x
        <5>1. raw_lines'[i].at = from + i - 1
          BY <1>11
        <5> QED  BY <1>6, <1>9, <4>1, <5>1
      <4> QED  BY <4>2
    <3> HIDE DEF read
    <3> QED  BY <3>1, <3>2
  <2>3. \A n \in Nat : n \in Meant <=> IF request.start < 0 /\ request.end = -1
                                         THEN n \in 1 .. total_lines /\ n >= AbsStart
                                         ELSE /\ n \in 1 .. MaxLines
                                              /\ n >= AbsStart /\ n <= AbsEnd
    BY <1>3 DEF Meant, AbsStart, AtLeast1
  <2>4. request.start < 0 /\ request.end = -1 => AbsEnd = total_lines
    BY DEF AbsEnd
  <2>5. read \subseteq Meant
    <3>1. ASSUME NEW n \in from .. last  PROVE n \in Meant
      <4>1. n \in Nat \ {0} /\ n >= AbsStart /\ n <= AbsEnd /\ n <= Len(recorded)
        BY <1>3, <1>4, <1>6, <1>9, <2>1
      <4> QED  BY <1>3, <1>4, <2>3, <2>4, <4>1
    <3> QED  BY <2>2, <3>1
  <2>6. ASSUME ~truncated', NEW n \in Meant \cap 1 .. total_lines  PROVE n \in read
    <3>1. n \in Nat \ {0} /\ n >= AbsStart /\ n <= AbsEnd /\ n <= Len(recorded)
      BY <1>3, <1>4, <2>3, <2>4
    <3>2. n <= to /\ n >= from
      BY <2>1, <3>1
    <3>3. to <= last
      <4>1. ~(last < to)
        BY <1>1, <2>6
      <4> QED  BY <1>9, <4>1
    <3> QED  BY <1>6, <1>9, <2>2, <3>1, <3>2, <3>3
  <2>7. \A i \in 1 .. m : raw_lines'[i].at = AbsStart + i - 1
    BY <1>11, <2>1
  <2> QED  BY <2>5, <2>6, <2>7
<1> QED
  BY <1>2, <1>13, <1>14, <1>15, <1>16 DEF MemoryIInv, ResurfacedAsAsked

-----------------------------------------------------------------------------
(* The answer *)

\* Sampling leaves out no marker, whatever it picks.
LEMMA SamplesKeepMarkers ==
  ASSUME NEW sampled \in Samples
  PROVE  sampled \subseteq Kept /\ Markers \subseteq sampled
<1>1. Markers \subseteq Kept
  BY DEF Markers
<1>2. \A n : \A s \in kSubset(n, Kept \ Markers) : s \subseteq Kept
  BY DEF kSubset
<1> QED  BY <1>1, <1>2 DEF Samples

LEMMA AnswerKeeps == ASSUME MemoryIInv, Answer  PROVE MemoryIInv'
<1>1. PICK sampled \in Samples : \E shown \in Walks({i \in sampled : Shown(i)}) :
        moments' = [k \in DOMAIN shown |-> [label |-> AbsStart + shown[k] - 1,
                                           line |-> raw_lines[shown[k]]]]
  BY DEF Answer
<1> DEFINE S == {i \in sampled : Shown(i)}
<1>2. PICK shown \in Walks(S) :
        moments' = [k \in DOMAIN shown |-> [label |-> AbsStart + shown[k] - 1,
                                           line |-> raw_lines[shown[k]]]]
  BY <1>1
<1>3. /\ resurface_at = "show" /\ resurface_at' = "answered"
      /\ UNCHANGED <<transcriptVars, askVars, rangeVars>>
  BY DEF Answer, ToolAt
<1>4. /\ MemoryTypeOK /\ RequestTyped /\ LengthStands /\ Stretch /\ ReadAsMeant
      /\ raw_lines \in Seq([at : 1 .. MaxLines, kind : LineKind \cup {"torn"}])
      /\ total_lines \in Nat /\ MaxLines \in Nat /\ Len(raw_lines) \in Nat
      /\ DOMAIN raw_lines = 1 .. Len(raw_lines)
      /\ \A i \in 1 .. Len(raw_lines) :
           raw_lines[i] \in [at : 1 .. MaxLines, kind : LineKind \cup {"torn"}]
  <2>1. /\ MemoryTypeOK /\ RequestTyped /\ LengthStands /\ Stretch /\ ReadAsMeant
        /\ raw_lines \in Seq([at : 1 .. MaxLines, kind : LineKind \cup {"torn"}])
        /\ total_lines \in Nat /\ MaxLines \in Nat
    BY <1>3, SessionMemoryAssumption DEF MemoryIInv, MemoryTypeOK
  <2>2. \A T : raw_lines \in Seq(T) => /\ Len(raw_lines) \in Nat
                                       /\ DOMAIN raw_lines = 1 .. Len(raw_lines)
                                       /\ \A i \in 1 .. Len(raw_lines) : raw_lines[i] \in T
    OBVIOUS
  <2> QED  BY <2>1, <2>2
<1>5. AbsStart \in Nat \ {0}
  BY <1>4 DEF AbsStart, AtLeast1, RequestTyped
<1>6. sampled \subseteq Kept /\ Markers \subseteq sampled
  BY SamplesKeepMarkers
<1>7. S \in SUBSET Nat /\ S \subseteq 1 .. Len(raw_lines) /\ IsFiniteSet(S)
  <2>1. S \subseteq 1 .. Len(raw_lines)
    BY <1>4, <1>6 DEF Kept
  <2>2. IsFiniteSet(1 .. Len(raw_lines))
    <3>1. \A k \in Nat : IsFiniteSet(1 .. k)
      BY FS_Interval
    <3> QED  BY <1>4, <3>1
  <2>3. 1 .. Len(raw_lines) \subseteq Nat
    BY <1>4
  <2> HIDE DEF S
  <2>4. IsFiniteSet(S)
    BY <2>1, <2>2, FS_Subset
  <2> QED  BY <2>1, <2>3, <2>4
<1> DEFINE n == Cardinality(S)
<1>8. /\ shown \in [1 .. n -> S] /\ n \in Nat
      /\ \A k, l \in 1 .. n : k < l => shown[k] < shown[l]
      /\ \A i \in S : \E k \in 1 .. n : shown[k] = i
  <2> HIDE DEF S
  <2> QED  BY <1>7, WalkVisits
<1>9. /\ DOMAIN moments' = 1 .. n
      /\ \A k \in 1 .. n : /\ moments'[k] = [label |-> AbsStart + shown[k] - 1,
                                            line |-> raw_lines[shown[k]]]
                           /\ moments'[k].label = AbsStart + shown[k] - 1
                           /\ moments'[k].line = raw_lines[shown[k]]
  <2> HIDE DEF S, n
  <2> QED  BY <1>2, <1>8
<1>10. \A k \in 1 .. n : /\ shown[k] \in S /\ shown[k] \in 1 .. Len(raw_lines)
                         /\ Shown(shown[k])
  <2>1. \A k \in 1 .. n : shown[k] \in S
    <3> HIDE DEF S, n
    <3> QED  BY <1>8
  <2> QED  BY <1>7, <2>1
<1> HIDE DEF n
<1>11. /\ request' = request /\ total_lines' = total_lines /\ file_len' = file_len
       /\ recorded' = recorded /\ torn' = torn /\ raw_lines' = raw_lines
       /\ sought' = sought /\ truncated' = truncated
  BY <1>3 DEF transcriptVars, askVars, rangeVars
<1>12. \A i \in 1 .. Len(raw_lines) : Shown(i) => raw_lines[i].kind # "torn"
  BY DEF Shown, KindAt
<1>13. MemoryTypeOK'
  <2> DEFINE L == [at : 1 .. MaxLines, kind : LineKind]
             M == [label : Nat, line : L]
  <2>1. ASSUME NEW k \in 1 .. n  PROVE moments'[k] \in M
    <3>1. PICK i \in 1 .. Len(raw_lines) : i = shown[k] /\ Shown(i)
      BY <1>10
    <3>2. raw_lines[i] \in [at : 1 .. MaxLines, kind : LineKind \cup {"torn"}]
      BY <1>4
    <3>3. raw_lines[i] \in L
      BY <1>12, <3>1, <3>2
    <3>4. AbsStart + i - 1 \in Nat
      BY <1>5
    <3> HIDE DEF L
    <3> QED  BY <1>9, <3>1, <3>3, <3>4
  <2>2. moments' \in [1 .. n -> M]
    <3>1. moments' = [k \in 1 .. n |-> moments'[k]]
      BY <1>2, <1>8, <1>9
    <3> HIDE DEF M
    <3> QED  BY <2>1, <3>1
  <2>3. moments' \in Seq(M)
    <3> HIDE DEF M
    <3> QED  BY <1>8, <2>2
  <2> HIDE DEF M
  <2> QED  BY <1>3, <1>4, <1>11, <2>3 DEF MemoryTypeOK, M
<1>14. RequestTyped' /\ LengthStands'
  <2>1. BytesOf(Len(recorded))' = BytesOf(Len(recorded))
    BY <1>11 DEF BytesOf, Bytes
  <2> QED
    BY <1>3, <1>4, <1>11, <2>1 DEF RequestTyped, LengthStands
<1>15. Stretch'
  BY <1>4, <1>11 DEF Stretch
<1>16. Meant' = Meant /\ AbsStart' = AbsStart
  BY <1>11 DEF Meant, AbsStart, AbsEnd
<1>17. ReadAsMeant'
  BY <1>4, <1>11, <1>16 DEF ReadAsMeant
<1>18. ASSUME ~sought, NEW k \in 1 .. n  PROVE moments'[k].label = moments'[k].line.at
  <2>1. \A i \in 1 .. Len(raw_lines) : raw_lines[i].at = AbsStart + i - 1
    BY <1>4, <1>18 DEF ReadAsMeant
  <2> QED  BY <1>9, <1>10, <2>1
<1>19. ASSUME request.type = "conversation", NEW i \in 1 .. Len(raw_lines),
              raw_lines[i].kind = "marker"
       PROVE  \E k \in 1 .. n : moments'[k].line = raw_lines[i]
  <2>1. i \in Markers
    BY <1>4, <1>19 DEF Markers, Kept, KindAt
  <2>2. i \in S
    BY <1>6, <1>19, <2>1 DEF Shown, KindAt
  <2>3. PICK k \in 1 .. n : shown[k] = i
    BY <1>8, <2>2
  <2> QED  BY <1>9, <2>3
<1>20. ASSUME NEW k \in 1 .. n, NEW l \in 1 .. k - 1
       PROVE  /\ moments'[l].label < moments'[k].label
              /\ moments'[l].line.at < moments'[k].line.at
  <2>1. l \in 1 .. n /\ l < k
    BY <1>8
  <2>2. PICK i, j \in 1 .. Len(raw_lines) : i = shown[l] /\ j = shown[k]
    BY <1>10, <2>1
  <2>3. i < j /\ i \in Nat /\ j \in Nat
    BY <1>8, <2>1, <2>2
  <2>4. raw_lines[j].at - raw_lines[i].at = j - i
    BY <1>4 DEF Stretch
  <2>5. raw_lines[i].at \in Nat /\ raw_lines[j].at \in Nat
    BY <1>4
  <2>6. moments'[l].label = AbsStart + i - 1 /\ moments'[k].label = AbsStart + j - 1
    BY <1>9, <2>1, <2>2
  <2>7. moments'[l].line.at = raw_lines[i].at /\ moments'[k].line.at = raw_lines[j].at
    BY <1>9, <2>1, <2>2
  <2>8. raw_lines[i].at < raw_lines[j].at
    BY <2>3, <2>4, <2>5
  <2>9. AbsStart + i - 1 < AbsStart + j - 1
    BY <1>5, <2>3
  <2> QED  BY <2>6, <2>7, <2>8, <2>9
<1>21. ResurfacedAsAsked'
  <2>1. /\ ~sought => {raw_lines[i].at : i \in DOMAIN raw_lines} \subseteq Meant
        /\ ~sought => \/ truncated
                      \/ Meant \cap 1 .. total_lines
                           \subseteq {raw_lines[i].at : i \in DOMAIN raw_lines}
    BY <1>4 DEF ReadAsMeant
  <2>2. ~sought => \A k \in DOMAIN moments' : moments'[k].label = moments'[k].line.at
    BY <1>9, <1>18
  <2>3. request.type = "conversation" =>
          \A i \in DOMAIN raw_lines :
            raw_lines[i].kind = "marker"
              => \E k \in DOMAIN moments' : moments'[k].line = raw_lines[i]
    BY <1>4, <1>9, <1>19
  <2>4. \A k \in DOMAIN moments' : \A l \in 1 .. k - 1 :
          /\ moments'[l].label < moments'[k].label
          /\ moments'[l].line.at < moments'[k].line.at
    BY <1>9, <1>20
  <2> QED
    BY <1>11, <1>16, <2>1, <2>2, <2>3, <2>4 DEF ResurfacedAsAsked
<1> QED  BY <1>13, <1>14, <1>15, <1>17, <1>21 DEF MemoryIInv

LEMMA MemorySteps == MemoryIInv /\ [MemoryNext]_memoryVars => MemoryIInv'
<1>1. CASE MemoryNext
  BY <1>1, BeginKeeps, FinishKeeps, AskKeeps, CountKeeps, ReadKeeps, AnswerKeeps DEF MemoryNext
<1>2. ASSUME MemoryIInv, UNCHANGED memoryVars  PROVE MemoryIInv'
  <2> USE <1>2 DEF memoryVars, transcriptVars, askVars, rangeVars
  <2>1. MemoryTypeOK' /\ RequestTyped'
    BY DEF MemoryIInv, MemoryTypeOK, RequestTyped
  <2>2. BytesOf(Len(recorded))' = BytesOf(Len(recorded))
    BY DEF BytesOf, Bytes
  <2>3. LengthStands'
    BY <2>2 DEF MemoryIInv, LengthStands
  <2>4. Meant' = Meant /\ AbsStart' = AbsStart
    BY DEF Meant, AbsStart, AbsEnd
  <2>5. (resurface_at \in {"show", "answered"} => Stretch /\ ReadAsMeant)'
    BY <2>4 DEF MemoryIInv, Stretch, ReadAsMeant
  <2>6. ResurfacedAsAsked'
    BY <2>4 DEF MemoryIInv, ResurfacedAsAsked
  <2> QED  BY <2>1, <2>3, <2>5, <2>6 DEF MemoryIInv
<1> QED  BY <1>1, <1>2

LEMMA MemoryInvariant == MemorySpec => []MemoryIInv
<1> QED  BY MemoryStart, MemorySteps, PTL DEF MemorySpec

\* The file, what the tool found it to be, and the lines it read and answers with
\* keep to their types (handle_resurface, read_line_range), as the file grows.
THEOREM MemoryTyped == MemorySpec => []MemoryTypeOK
<1>1. MemoryIInv => MemoryTypeOK
  BY DEF MemoryIInv
<1> QED  BY <1>1, MemoryInvariant, PTL

\* What resurface shows is what was asked for, though the agent writes meanwhile
\* (handle_resurface, read_line_range).
THEOREM ResurfacedRight == MemorySpec => []ResurfacedAsAsked
<1>1. MemoryIInv => ResurfacedAsAsked
  BY DEF MemoryIInv
<1> QED  BY <1>1, MemoryInvariant, PTL

=============================================================================
