---------------------------- MODULE HiveDelivery ----------------------------
(***************************************************************************)
(* How direct hive messages reach the agent: bridge/puller.rs of b3-cli    *)
(* with Backoff of b3-common.  Every server has an SSE loop of its own; a  *)
(* poll of the primary is the safety net for what the streams miss.  Both  *)
(* mark what they deliver in HiveDedup, and both deliver to the MCP        *)
(* process that happens to be subscribed.                                  *)
(*                                                                         *)
(* A message is its fingerprint (sender and first 200 characters): two     *)
(* messages with one fingerprint are not told apart by the code either.    *)
(* Messages to others and empty ones are left out, and so is encryption: a *)
(* message that cannot be decrypted is delivered as it is.                 *)
(***************************************************************************)
EXTENDS Naturals, Sequences

CONSTANTS
  Server,
  Fingerprint,
  RingSize,       \* entries of HiveDedup (200)
  MaxPermanent,   \* MAX_PERMANENT_FAILURES (10)
  MaxDelay,       \* ceiling of the backoff, in units of its base (30 s / 1 s)
  PollLimit,      \* messages one poll asks for (50)
  MaxHive,        \* bound: messages sent
  MaxTrouble      \* bound: refused or broken connections, subscriber changes

ASSUME HiveDeliveryAssumption ==
  /\ RingSize \in Nat \ {0} /\ MaxPermanent \in Nat \ {0} /\ MaxDelay \in Nat \ {0}
  /\ PollLimit \in Nat \ {0} /\ MaxHive \in Nat /\ MaxTrouble \in Nat

VARIABLES
  hive,        \* the messages stored in the servers' database, by id
  pull,        \* SSE loop of a server: "connecting", "open", "waiting", "ended"
  pushed,      \* ids in its stream
  handling,    \* id its handler decrypts, 0: none
  backoff,     \* its Backoff: current delay and consecutive_failures
  permanent_failures,
  marks,       \* every fingerprint pushed into HiveDedup
  poll,        \* poll loop: "seeding", "waiting", "batch"
  fetched,       \* ids fetched, not yet looked at
  polling,     \* id the poll decrypts, 0: none
  seed, last_seen_id,
  subscriber,  \* is an MCP process subscribed
  injected,    \* deliveries to it: <<id, SSE loop or "poll">>
  dropped,     \* ids delivered while there was none
  trouble

hiveVars == <<hive, pull, pushed, handling, backoff, permanent_failures, marks, poll,
              fetched, polling, seed, last_seen_id, subscriber, injected, dropped, trouble>>
streamVars == <<pull, pushed, handling, backoff, permanent_failures>>
pollVars == <<poll, fetched, polling, seed, last_seen_id>>
sinkVars == <<injected, dropped>>

Trouble == trouble < MaxTrouble /\ trouble' = trouble + 1
Lesser(a, b) == IF a < b THEN a ELSE b
Greater(a, b) == IF a > b THEN a ELSE b

----------------------------------------------------------------------------
(* HiveDedup and delivery *)

\* The ring keeps the latest RingSize fingerprints.
Recent == {marks[i] : i \in {j \in DOMAIN marks : j + RingSize > Len(marks)}}

\* check_and_mark: a fingerprint the ring holds is not pushed again.
CheckAndMark(m) == marks' = IF hive[m] \in Recent THEN marks ELSE Append(marks, hive[m])

\* channel_events.send reaches whoever is subscribed now.
Inject(m, by) ==
  IF subscriber THEN injected' = Append(injected, <<m, by>>) /\ UNCHANGED dropped
                ELSE dropped' = dropped \cup {m} /\ UNCHANGED injected

----------------------------------------------------------------------------
(* Backoff *)

InitialBackoff == [current |-> 1, consecutive_failures |-> 0]

NextDelay(b) == [current |-> Lesser(2 * b.current, MaxDelay),
                 consecutive_failures |-> b.consecutive_failures + 1]
NextDelayMax(b) == [current |-> MaxDelay, consecutive_failures |-> b.consecutive_failures + 1]

----------------------------------------------------------------------------
(* pull_loop_for_server, connect_sse *)

\* What the loop keeps of a connection attempt or a stream that ended.
Retry(s, state, b, p) ==
  /\ pull' = [pull EXCEPT ![s] = state]
  /\ backoff' = [backoff EXCEPT ![s] = b]
  /\ permanent_failures' = [permanent_failures EXCEPT ![s] = p]

StreamOpens(s) ==
  /\ pull[s] = "connecting"
  /\ pull' = [pull EXCEPT ![s] = "open"]
  /\ UNCHANGED <<hive, pushed, handling, backoff, permanent_failures, marks, subscriber,
                 trouble>>
  /\ UNCHANGED pollVars /\ UNCHANGED sinkVars

\* No connection, or an answer other than 401 and 403.
TransientFailure(s) ==
  /\ pull[s] = "connecting" /\ Trouble
  /\ Retry(s, "waiting", NextDelay(backoff[s]), permanent_failures[s])
  /\ UNCHANGED <<hive, pushed, handling, marks, subscriber>>
  /\ UNCHANGED pollVars /\ UNCHANGED sinkVars

PermanentFailure(s) ==
  /\ pull[s] = "connecting" /\ Trouble
  /\ LET p == permanent_failures[s] + 1 IN
     IF p >= MaxPermanent THEN Retry(s, "ended", backoff[s], p)
                          ELSE Retry(s, "waiting", NextDelayMax(backoff[s]), p)
  /\ UNCHANGED <<hive, pushed, handling, marks, subscriber>>
  /\ UNCHANGED pollVars /\ UNCHANGED sinkVars

\* The stream ends, breaks, or falls silent for SSE_TIMEOUT: all are a
\* CleanClose.  What it still carried is gone.
CleanClose(s) ==
  /\ pull[s] = "open" /\ handling[s] = 0 /\ Trouble
  /\ Retry(s, "waiting", InitialBackoff, 0)
  /\ pushed' = [pushed EXCEPT ![s] = <<>>]
  /\ UNCHANGED <<hive, handling, marks, subscriber>>
  /\ UNCHANGED pollVars /\ UNCHANGED sinkVars

Reconnects(s) ==
  /\ pull[s] = "waiting"
  /\ pull' = [pull EXCEPT ![s] = "connecting"]
  /\ UNCHANGED <<hive, pushed, handling, backoff, permanent_failures, marks, subscriber,
                 trouble>>
  /\ UNCHANGED pollVars /\ UNCHANGED sinkVars

----------------------------------------------------------------------------
(* handle_event, "hive" *)

\* The message is marked for the poll; whether it was there is not asked.
HandleHive(s) ==
  /\ pull[s] = "open" /\ handling[s] = 0 /\ pushed[s] # <<>>
  /\ CheckAndMark(Head(pushed[s]))
  /\ handling' = [handling EXCEPT ![s] = Head(pushed[s])]
  /\ pushed' = [pushed EXCEPT ![s] = Tail(@)]
  /\ UNCHANGED <<hive, pull, backoff, permanent_failures, subscriber, trouble>>
  /\ UNCHANGED pollVars /\ UNCHANGED sinkVars

\* Mutant: a message that cannot be decrypted is not delivered.
HiveDecryptedOrNot(s) ==
  /\ handling[s] # 0
  /\ \/ Inject(handling[s], s)
     \/ UNCHANGED sinkVars
  /\ handling' = [handling EXCEPT ![s] = 0]
  /\ UNCHANGED <<hive, pull, pushed, backoff, permanent_failures, marks, subscriber, trouble>>
  /\ UNCHANGED pollVars

\* Decrypted, or not.
HiveDecrypted(s) ==
  /\ handling[s] # 0
  /\ Inject(handling[s], s)
  /\ handling' = [handling EXCEPT ![s] = 0]
  /\ UNCHANGED <<hive, pull, pushed, backoff, permanent_failures, marks, subscriber, trouble>>
  /\ UNCHANGED pollVars

----------------------------------------------------------------------------
(* hive_poll_loop *)

\* The latest message is where the poll begins; 0 when the request fails.
PollSeeds ==
  /\ poll = "seeding" /\ poll' = "waiting"
  /\ \E id \in {0, Len(hive)} : seed' = id /\ last_seen_id' = id
  /\ UNCHANGED <<hive, marks, fetched, polling, subscriber, trouble>>
  /\ UNCHANGED streamVars /\ UNCHANGED sinkVars

\* Ids the primary answers with: the oldest after last_seen_id.
Missed == [i \in 1..Lesser(PollLimit, Len(hive) - last_seen_id) |-> last_seen_id + i]

PollFetches ==
  /\ poll = "waiting" /\ Missed # <<>>
  /\ poll' = "batch" /\ fetched' = Missed
  /\ UNCHANGED <<hive, marks, polling, seed, last_seen_id, subscriber, trouble>>
  /\ UNCHANGED streamVars /\ UNCHANGED sinkVars

\* The next of the batch, and the loop's next tick behind the last.
NextOfBatch ==
  /\ fetched' = Tail(fetched)
  /\ poll' = IF Tail(fetched) = <<>> THEN "waiting" ELSE "batch"

\* A message the ring knows was delivered by a stream: not again.
PollTakes(m) == hive[m] \notin Recent

\* Mutant: only what is delivered counts as seen.
PassesOverUnseen(m) == UNCHANGED last_seen_id

PassesOver(m) == last_seen_id' = Greater(last_seen_id, m)

PollChecks ==
  /\ poll = "batch" /\ polling = 0 /\ fetched # <<>>
  /\ LET m == Head(fetched) IN
     /\ CheckAndMark(m)
     /\ IF PollTakes(m)
        THEN polling' = m /\ UNCHANGED <<poll, fetched, last_seen_id>>
        ELSE NextOfBatch /\ PassesOver(m) /\ UNCHANGED polling
  /\ UNCHANGED <<hive, seed, subscriber, trouble>>
  /\ UNCHANGED streamVars /\ UNCHANGED sinkVars

PollDecrypted ==
  /\ polling # 0
  /\ Inject(polling, "poll")
  /\ polling' = 0 /\ last_seen_id' = Greater(last_seen_id, polling)
  /\ NextOfBatch
  /\ UNCHANGED <<hive, marks, seed, subscriber, trouble>>
  /\ UNCHANGED streamVars

----------------------------------------------------------------------------
(* The servers and the MCP process *)

\* A message is stored, and pushed into some of the streams that are open: a
\* server may learn of it too late, or not at all.
MessageSent(t) ==
  /\ Len(hive) < MaxHive
  /\ hive' = Append(hive, t)
  /\ \E S \in SUBSET {s \in Server : pull[s] = "open"} :
       pushed' = [s \in Server |-> IF s \in S THEN Append(pushed[s], Len(hive) + 1)
                                              ELSE pushed[s]]
  /\ UNCHANGED <<pull, handling, backoff, permanent_failures, marks, subscriber, trouble>>
  /\ UNCHANGED pollVars /\ UNCHANGED sinkVars

SubscriberChanges ==
  /\ Trouble
  /\ subscriber' = ~subscriber
  /\ UNCHANGED <<hive, marks>>
  /\ UNCHANGED streamVars /\ UNCHANGED pollVars /\ UNCHANGED sinkVars

HiveInit ==
  /\ hive = <<>> /\ marks = <<>> /\ injected = <<>> /\ dropped = {} /\ trouble = 0
  /\ pull = [s \in Server |-> "connecting"]
  /\ pushed = [s \in Server |-> <<>>]
  /\ handling = [s \in Server |-> 0]
  /\ backoff = [s \in Server |-> InitialBackoff]
  /\ permanent_failures = [s \in Server |-> 0]
  /\ poll = "seeding" /\ fetched = <<>> /\ polling = 0 /\ seed = 0 /\ last_seen_id = 0
  /\ subscriber = FALSE

\* The poll goes on as long as its requests succeed again and again.
PollRuns == PollSeeds \/ PollFetches \/ PollChecks \/ PollDecrypted

HiveNext ==
  \/ \E s \in Server :
       \/ StreamOpens(s) \/ TransientFailure(s) \/ PermanentFailure(s) \/ CleanClose(s)
       \/ Reconnects(s) \/ HandleHive(s) \/ HiveDecrypted(s)
  \/ PollRuns
  \/ \E t \in Fingerprint : MessageSent(t)
  \/ SubscriberChanges

HiveSpec == HiveInit /\ [][HiveNext]_hiveVars

----------------------------------------------------------------------------
(* Properties *)

Ids == 0..MaxHive

\* The type invariant.
HiveTypeOK ==
  /\ hive \in Seq(Fingerprint) /\ Len(hive) <= MaxHive
  /\ pull \in [Server -> {"connecting", "open", "waiting", "ended"}]
  /\ \A s \in Server : pushed[s] \in Seq(1..Len(hive))
  /\ handling \in [Server -> Ids] /\ polling \in Ids
  /\ backoff \in [Server -> [current : 1..MaxDelay, consecutive_failures : Nat]]
  /\ permanent_failures \in [Server -> 0..MaxPermanent]
  /\ marks \in Seq(Fingerprint)
  /\ poll \in {"seeding", "waiting", "batch"}
  /\ fetched \in Seq(1..Len(hive)) /\ (fetched # <<>> <=> poll = "batch")
  /\ seed \in Ids /\ last_seen_id \in Ids
  /\ subscriber \in BOOLEAN
  /\ injected \in Seq((1..Len(hive)) \X (Server \cup {"poll"}))
  /\ dropped \subseteq 1..Len(hive)

\* The copies of message m that were delivered, dropped, or are on their way:
\* with the same fingerprint, they are all the same to HiveDedup.
Accounted(m) ==
  \E k \in DOMAIN hive :
    /\ hive[k] = hive[m]
    /\ \/ \E i \in DOMAIN injected : injected[i][1] = k
       \/ k \in dropped
       \/ \E s \in Server : handling[s] = k

\* puller.rs:795: the safety net passes over no message.  What it has behind it
\* was delivered, or dropped because no MCP process was subscribed, or is in the
\* hands of a stream, however streams and poll interleave.
SeenIsAccounted == \A m \in DOMAIN hive : seed < m /\ m <= last_seen_id => Accounted(m)

\* puller.rs:795: every message stored is seen by the poll in the end, also when
\* no stream ever carries it.
MissedIsPolled == \A m \in 1..MaxHive : Len(hive) >= m ~> last_seen_id >= m

=============================================================================
