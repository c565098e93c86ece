---------------------------- MODULE Relay_proofs ----------------------------
(***************************************************************************)
(* Theorems about the GPU relay, and about what is dialed back: the sinks  *)
(* of the relay's sessions, the way of jobs and answers through them, the  *)
(* loops that register, and the terminal a proxied browser shows.          *)
(***************************************************************************)
EXTENDS RelaySessions, RelayJobs, GpuSession, ControlTunnel, DaemonProxy,
        FiniteSetTheorems, SequenceTheorems, TLAPS

-----------------------------------------------------------------------------
(***************************************************************************)
(* The sink of a relay session is always that of a running handler, for    *)
(* any number of browsers and WebSockets.                                  *)
(*                                                                         *)
(* A handler puts its sink into the session it keeps until its end, and    *)
(* the cleanup takes the sink out of that very session.  It does not       *)
(* matter that it may take out another handler's sink: what has to be      *)
(* shown is only that its own is not left behind, so type correctness is   *)
(* all the property needs to be inductive.                                 *)
(***************************************************************************)

SessionsIInv == SessionsTypeOK /\ RelaySinkIsLive

LEMMA SessionsStart == SessionsInit => SessionsIInv
BY DEF SessionsInit, SessionsIInv, SessionsTypeOK, RelaySinkIsLive, Holds, HasSink

\* No step mixes up ids and session objects.
LEMMA SessionsTyped ==
  SessionsTypeOK /\ [SessionsNext]_sessionsVars => SessionsTypeOK'
<1> SUFFICES ASSUME SessionsTypeOK, [SessionsNext]_sessionsVars
             PROVE  SessionsTypeOK'
  OBVIOUS
<1> USE DEF SessionsTypeOK, HandlerAt, Holds, HasSink
<1>1. ASSUME NEW c \in Socket, OpenSocket(c)
      PROVE  SessionsTypeOK'
  BY <1>1 DEF OpenSocket
<1>2. ASSUME NEW c \in Socket, CreateSession(c)
      PROVE  SessionsTypeOK'
  BY <1>2 DEF CreateSession
<1>3. ASSUME NEW c \in Socket, CheckDuplicate(c)
      PROVE  SessionsTypeOK'
  BY <1>3 DEF CheckDuplicate
<1>4. ASSUME NEW c \in Socket, RemoveOldSink(c)
      PROVE  SessionsTypeOK'
  BY <1>4 DEF RemoveOldSink
<1>5. ASSUME NEW c \in Socket, AttachSink(c)
      PROVE  SessionsTypeOK'
  BY <1>5 DEF AttachSink
<1>6. ASSUME NEW c \in Socket, SocketCloses(c)
      PROVE  SessionsTypeOK'
  BY <1>6 DEF SocketCloses
<1>7. ASSUME NEW c \in Socket, SocketCleanup(c)
      PROVE  SessionsTypeOK'
  BY <1>7 DEF SocketCleanup
<1>8. ASSUME NEW c \in Socket, StaleCheck(c)
      PROVE  SessionsTypeOK'
  BY <1>8 DEF StaleCheck
<1>9. ASSUME NEW c \in Socket, StaleRemove(c)
      PROVE  SessionsTypeOK'
  BY <1>9 DEF StaleRemove
<1>10. CASE UNCHANGED sessionsVars
  BY <1>10 DEF sessionsVars
<1> QED
  BY <1>1, <1>2, <1>3, <1>4, <1>5, <1>6, <1>7, <1>8, <1>9, <1>10
  DEF SessionsNext, SetUp

\* Every step leaves only sinks of handlers that run, in their own sessions.
LEMMA SinksStayLive ==
  SessionsIInv /\ [SessionsNext]_sessionsVars => RelaySinkIsLive'
<1> SUFFICES ASSUME SessionsTypeOK, RelaySinkIsLive, [SessionsNext]_sessionsVars,
                    NEW o \in Socket, ws_sink'[o] # Nobody
             PROVE  hpc'[ws_sink'[o]] \in HasSink /\ hsession'[ws_sink'[o]] = o
  BY DEF SessionsIInv, RelaySinkIsLive
<1> DEFINE w == ws_sink'[o]
<1> USE RelaySessionsAssumption DEF SessionsTypeOK, RelaySinkIsLive, HandlerAt, HasSink
<1>1. ASSUME NEW c \in Socket, OpenSocket(c)
      PROVE  hpc'[w] \in HasSink /\ hsession'[w] = o
  BY <1>1 DEF OpenSocket
<1>2. ASSUME NEW c \in Socket, CreateSession(c)
      PROVE  hpc'[w] \in HasSink /\ hsession'[w] = o
  BY <1>2 DEF CreateSession
<1>3. ASSUME NEW c \in Socket, CheckDuplicate(c)
      PROVE  hpc'[w] \in HasSink /\ hsession'[w] = o
  BY <1>3 DEF CheckDuplicate
<1>4. ASSUME NEW c \in Socket, RemoveOldSink(c)
      PROVE  hpc'[w] \in HasSink /\ hsession'[w] = o
  BY <1>4 DEF RemoveOldSink
\* The sink attached is that of a handler that has reached its loop.
<1>5. ASSUME NEW c \in Socket, AttachSink(c)
      PROVE  hpc'[w] \in HasSink /\ hsession'[w] = o
  <2>1. CASE hsession[c] = o
    BY <1>5, <2>1 DEF AttachSink
  <2>2. CASE hsession[c] # o
    BY <1>5, <2>2 DEF AttachSink
  <2> QED
    BY <2>1, <2>2
<1>6. ASSUME NEW c \in Socket, SocketCloses(c)
      PROVE  hpc'[w] \in HasSink /\ hsession'[w] = o
  BY <1>6 DEF SocketCloses
\* A handler that ends has emptied the one place its sink can be.
<1>7. ASSUME NEW c \in Socket, SocketCleanup(c)
      PROVE  hpc'[w] \in HasSink /\ hsession'[w] = o
  <2>1. hsession[c] # o /\ w = ws_sink[o]
    BY <1>7 DEF SocketCleanup
  <2>2. w # c
    BY <2>1
  <2> QED
    BY <1>7, <2>1, <2>2 DEF SocketCleanup
<1>8. ASSUME NEW c \in Socket, StaleCheck(c)
      PROVE  hpc'[w] \in HasSink /\ hsession'[w] = o
  BY <1>8 DEF StaleCheck
<1>9. ASSUME NEW c \in Socket, StaleRemove(c)
      PROVE  hpc'[w] \in HasSink /\ hsession'[w] = o
  BY <1>9 DEF StaleRemove
<1>10. CASE UNCHANGED sessionsVars
  BY <1>10 DEF sessionsVars
<1> QED
  BY <1>1, <1>2, <1>3, <1>4, <1>5, <1>6, <1>7, <1>8, <1>9, <1>10
  DEF SessionsNext, SetUp

\* The relay sends a browser's answers only into the WebSocket of a handler
\* that still reads it, and otherwise keeps them in the session.
THEOREM RelaySinksLive == SessionsSpec => []RelaySinkIsLive
<1>1. SessionsInit => SessionsIInv
  BY SessionsStart
<1>2. SessionsIInv /\ [SessionsNext]_sessionsVars => SessionsIInv'
  BY SessionsTyped, SinksStayLive DEF SessionsIInv
<1>3. SessionsIInv => RelaySinkIsLive
  BY DEF SessionsIInv
<1> QED
  BY <1>1, <1>2, <1>3, PTL DEF SessionsSpec

-----------------------------------------------------------------------------
(***************************************************************************)
(* An answer of the GPU worker reaches the session of the browser that     *)
(* submitted the job and no other, for any number of browsers, jobs and    *)
(* connections.                                                            *)
(*                                                                         *)
(* The relay routes by pending_requests, which a handler writes from the   *)
(* batch it is forwarding.  The invariant follows a job from there: what a *)
(* handler still has to forward is its own browser's, an entry names the   *)
(* job's owner, and of a job that was not submitted nothing is known.  No  *)
(* assumption is made on what the worker or a connection does.             *)
(***************************************************************************)

\* What the argument needs of the types.
JobTypes ==
  /\ registered \subseteq Client
  /\ jpc \in [Client -> {"loop", "forward", "done"}]
  /\ batch \in [Client -> Seq(Job)]
  /\ pending_requests \in [Job -> Client \cup {NoClient}]
  /\ stage \in [Job -> {"new", "received", "running", "answering", "answered", "lost"}]
  /\ owner \in [Job -> Client \cup {NoClient}]
  /\ told \in [Job -> SUBSET Client]

\* A handler that forwards has something to forward.
ForwardsSomething == \A c \in Client : jpc[c] = "forward" => batch[c] # <<>>

\* A handler forwards its own browser's jobs.
BatchOwned ==
  \A c \in Client : \A i \in 1 .. Len(batch[c]) :
    owner[batch[c][i]] = c /\ stage[batch[c][i]] # "new"

PendingNamesOwner == \A j \in Job : pending_requests[j] \in {NoClient, owner[j]}

\* Nothing is known of a job before it comes.
NewUnknown ==
  \A j \in Job : stage[j] = "new" => pending_requests[j] = NoClient /\ told[j] = {}

JobsIInv == /\ JobTypes /\ ForwardsSomething /\ BatchOwned
            /\ PendingNamesOwner /\ NewUnknown /\ AnswersReachOwner

LEMMA JobsStart == JobsInit => JobsIInv
<1> SUFFICES ASSUME JobsInit PROVE JobsIInv
  OBVIOUS
<1>1. JobTypes
  BY DEF JobsInit, JobTypes
<1>2. BatchOwned
  <2>1. ASSUME NEW c \in Client PROVE 1 .. Len(batch[c]) = {}
    BY DEF JobsInit
  <2> QED
    BY <2>1 DEF BatchOwned
<1> QED
  BY <1>1, <1>2
  DEF JobsInit, JobsIInv, ForwardsSomething, PendingNamesOwner, NewUnknown, AnswersReachOwner

\* What is left of a batch was in it.
LEMMA RestOfBatch ==
  ASSUME NEW q \in Seq(Job), q # <<>>
  PROVE  /\ Tail(q) \in Seq(Job) /\ Len(q) \in Nat \ {0} /\ Head(q) = q[1]
         /\ \A i \in 1 .. Len(Tail(q)) : i + 1 \in 1 .. Len(q) /\ Tail(q)[i] = q[i + 1]
<1>1. Len(q) \in Nat \ {0}
  BY EmptySeq
<1>2. Tail(q) \in Seq(Job) /\ Len(Tail(q)) = Len(q) - 1
  BY HeadTailProperties
<1>3. \A i \in 1 .. Len(q) - 1 : Tail(q)[i] = q[i + 1]
  BY HeadTailProperties
<1> QED
  BY <1>1, <1>2, <1>3

\* A step that touches no batch, no entry and no session's answers, and that
\* neither submits a job nor takes that back.
LEMMA ElsewhereKeeps ==
  ASSUME JobsIInv, JobTypes', UNCHANGED <<jpc, batch, pending_requests, owner, told>>,
         \A j \in Job : stage'[j] = "new" <=> stage[j] = "new"
  PROVE  JobsIInv'
<1>1. BatchOwned'
  <2> SUFFICES ASSUME NEW c \in Client, NEW i \in 1 .. Len(batch[c])
               PROVE  owner[batch[c][i]] = c /\ stage'[batch[c][i]] # "new"
    BY DEF BatchOwned
  <2>1. batch[c][i] \in Job
    BY DEF JobsIInv, JobTypes
  <2> QED
    BY <2>1 DEF JobsIInv, BatchOwned
<1> QED
  BY <1>1 DEF JobsIInv, ForwardsSomething, PendingNamesOwner, NewUnknown, AnswersReachOwner

\* The jobs of a batch come from its browser, and came from nobody before.
LEMMA ReceiveKeeps ==
  ASSUME JobsIInv, NEW c \in Client, ReceiveJobs(c)
  PROVE  JobsIInv'
<1> USE DEF JobsIInv
<1>1. PICK J \in SUBSET {j \in Job : stage[j] = "new"} :
        /\ \E s \in SetToSeqs(J) : batch' = [batch EXCEPT ![c] = s]
        /\ stage' = [j \in Job |-> IF j \in J THEN "received" ELSE stage[j]]
        /\ owner' = [j \in Job |-> IF j \in J THEN c ELSE owner[j]]
  BY DEF ReceiveJobs
<1>2. PICK s \in SetToSeqs(J) : batch' = [batch EXCEPT ![c] = s]
  BY <1>1
<1>3. s \in Seq(J)
  <2>1. IsFiniteSet(J)
    BY RelayJobsAssumption, FS_Subset, <1>1
  <2>2. Cardinality(J) \in Nat
    BY <2>1, FS_CardinalityType
  <2>3. s \in [1 .. Cardinality(J) -> J]
    BY DEF SetToSeqs
  <2> QED
    BY <2>2, <2>3, SeqDef
<1>4. J \subseteq Job /\ \A j \in J : stage[j] = "new"
  BY <1>1
<1>5. s \in Seq(Job) /\ \A i \in 1 .. Len(s) : s[i] \in J
  BY <1>3, <1>4
<1>6. UNCHANGED <<registered, jpc, pending_requests, told>>
  BY DEF ReceiveJobs
<1>7. JobTypes'
  BY <1>1, <1>2, <1>4, <1>5, <1>6 DEF JobTypes
<1>8. BatchOwned'
  <2> SUFFICES ASSUME NEW d \in Client, NEW i \in 1 .. Len(batch'[d])
               PROVE  owner'[batch'[d][i]] = d /\ stage'[batch'[d][i]] # "new"
    BY DEF BatchOwned
  <2>1. CASE d = c
    <3>1. batch'[d][i] \in J
      BY <1>2, <1>5, <2>1 DEF JobTypes
    <3> QED
      BY <1>1, <1>4, <2>1, <3>1
  <2>2. CASE d # c
    <3>1. batch'[d] = batch[d] /\ batch[d][i] \in Job
      BY <1>2, <2>2 DEF JobTypes
    <3>2. owner[batch[d][i]] = d /\ stage[batch[d][i]] # "new"
      BY <3>1 DEF BatchOwned
    <3> QED
      BY <1>1, <3>1, <3>2
  <2> QED
    BY <2>1, <2>2
<1>9. ForwardsSomething'
  BY <1>2, <1>6 DEF ForwardsSomething, ReceiveJobs, JobTypes
<1>10. NewUnknown'
  BY <1>1, <1>6 DEF NewUnknown
<1>11. PendingNamesOwner' /\ AnswersReachOwner'
  BY <1>1, <1>4, <1>6 DEF PendingNamesOwner, AnswersReachOwner, NewUnknown
<1> QED
  BY <1>7, <1>8, <1>9, <1>10, <1>11

\* The entry made is the job's owner: the handler's own browser.
LEMMA TrackKeeps ==
  ASSUME JobsIInv, NEW c \in Client, Track(c)
  PROVE  JobsIInv'
<1> USE DEF JobsIInv
<1> DEFINE job == Head(batch[c])
<1>1. batch[c] \in Seq(Job) /\ batch[c] # <<>>
  BY DEF Track, JobTypes
<1>2. job \in Job /\ owner[job] = c /\ stage[job] # "new"
  <2>1. job = batch[c][1] /\ 1 \in 1 .. Len(batch[c])
    BY <1>1, RestOfBatch
  <2> QED
    BY <1>1, <2>1 DEF BatchOwned
<1> HIDE DEF job
<1>3. /\ pending_requests' = [pending_requests EXCEPT ![job] = c]
      /\ jpc' = [jpc EXCEPT ![c] = "forward"]
      /\ UNCHANGED <<registered, batch, stage, owner, told>>
  BY DEF Track, ForwarderAt, job
<1>4. JobTypes'
  BY <1>3 DEF JobTypes
<1>5. ForwardsSomething'
  BY <1>1, <1>3 DEF ForwardsSomething, JobTypes
<1>6. BatchOwned' /\ AnswersReachOwner'
  BY <1>3 DEF BatchOwned, AnswersReachOwner
<1>7. PendingNamesOwner' /\ NewUnknown'
  BY <1>2, <1>3 DEF PendingNamesOwner, NewUnknown, JobTypes
<1> QED
  BY <1>4, <1>5, <1>6, <1>7

\* A batch gets shorter, and what goes was submitted.
LEMMA ForwardKeeps ==
  ASSUME JobsIInv, NEW c \in Client, Forward(c)
  PROVE  JobsIInv'
<1> USE DEF JobsIInv
<1> DEFINE job == Head(batch[c])
<1>1. batch[c] \in Seq(Job) /\ batch[c] # <<>>
  BY DEF Forward, ForwarderAt, JobTypes, ForwardsSomething
<1>2. job \in Job /\ stage[job] # "new"
  <2>1. job = batch[c][1] /\ 1 \in 1 .. Len(batch[c])
    BY <1>1, RestOfBatch
  <2> QED
    BY <1>1, <2>1 DEF BatchOwned
<1> HIDE DEF job
<1>3. /\ batch' = [batch EXCEPT ![c] = Tail(batch[c])]
      /\ jpc' = [jpc EXCEPT ![c] = "loop"]
      /\ \E x \in {"running", "lost"} : stage' = [stage EXCEPT ![job] = x]
      /\ UNCHANGED <<registered, pending_requests, owner, told>>
  BY DEF Forward, ForwarderAt, job
<1>4. JobTypes'
  BY <1>1, <1>3, RestOfBatch DEF JobTypes
<1>5. \A j \in Job : stage'[j] = "new" <=> stage[j] = "new"
  BY <1>2, <1>3 DEF JobTypes
<1>6. ForwardsSomething'
  BY <1>3 DEF ForwardsSomething, JobTypes
<1>7. BatchOwned'
  <2> SUFFICES ASSUME NEW d \in Client, NEW i \in 1 .. Len(batch'[d])
               PROVE  owner'[batch'[d][i]] = d /\ stage'[batch'[d][i]] # "new"
    BY DEF BatchOwned
  <2>1. PICK k \in 1 .. Len(batch[d]) : batch'[d][i] = batch[d][k]
    <3>1. CASE d = c
      BY <1>1, <1>3, <3>1, RestOfBatch DEF JobTypes
    <3>2. CASE d # c
      BY <1>3, <3>2 DEF JobTypes
    <3> QED
      BY <3>1, <3>2
  <2>2. batch[d][k] \in Job
    BY DEF JobTypes
  <2> QED
    BY <1>3, <1>5, <2>1, <2>2 DEF BatchOwned
<1>8. PendingNamesOwner' /\ NewUnknown' /\ AnswersReachOwner'
  BY <1>3, <1>5 DEF PendingNamesOwner, NewUnknown, AnswersReachOwner
<1> QED
  BY <1>4, <1>6, <1>7, <1>8

LEMMA ForwardFailsKeeps ==
  ASSUME JobsIInv, NEW c \in Client, ForwardFails(c)
  PROVE  JobsIInv'
<1> USE DEF JobsIInv
<1>1. /\ batch' = [batch EXCEPT ![c] = <<>>]
      /\ jpc' = [jpc EXCEPT ![c] = "done"]
      /\ stage' = [j \in Job |-> IF j \in ToSet(batch[c]) THEN "lost" ELSE stage[j]]
      /\ UNCHANGED <<registered, pending_requests, owner, told>>
  BY DEF ForwardFails, ForwarderAt
<1>2. JobTypes'
  BY <1>1 DEF JobTypes
<1>3. \A j \in Job : stage'[j] = "new" => stage[j] = "new"
  BY <1>1
<1>4. ForwardsSomething'
  BY <1>1 DEF ForwardsSomething, JobTypes
<1>5. BatchOwned'
  <2> SUFFICES ASSUME NEW d \in Client, NEW i \in 1 .. Len(batch'[d])
               PROVE  owner'[batch'[d][i]] = d /\ stage'[batch'[d][i]] # "new"
    BY DEF BatchOwned
  <2>1. d # c /\ batch'[d] = batch[d]
    BY <1>1 DEF JobTypes
  <2>2. batch[d][i] \in Job
    BY <2>1 DEF JobTypes
  <2> QED
    BY <1>1, <1>3, <2>1, <2>2 DEF BatchOwned
<1>6. PendingNamesOwner' /\ NewUnknown' /\ AnswersReachOwner'
  BY <1>1, <1>3 DEF PendingNamesOwner, NewUnknown, AnswersReachOwner
<1> QED
  BY <1>2, <1>4, <1>5, <1>6

\* An answer goes where the entry of its job says, if anywhere.
LEMMA ReadAnswerKeeps ==
  ASSUME JobsIInv, NEW l \in Link, ReadAnswer(l)
  PROVE  JobsIInv'
<1> USE DEF JobsIInv
<1> DEFINE m == Head(answers[l])
<1>1. /\ told' = [told EXCEPT ![m.job] = @ \cup Targets(m)]
      /\ pending_requests' = [pending_requests EXCEPT
            ![m.job] = IF EndsTracking(m) THEN NoClient ELSE @]
      /\ stage' = [stage EXCEPT
            ![m.job] = IF m.kind # "final" THEN @
                       ELSE IF Targets(m) # {} THEN "answered" ELSE "lost"]
      /\ UNCHANGED <<registered, jpc, batch, owner>>
  BY DEF ReadAnswer, handlerVars
<1>2. /\ Targets(m) \subseteq Client
      /\ m.job \in Job => Targets(m) \subseteq {owner[m.job]}
      /\ m.job \in Job /\ stage[m.job] = "new" => Targets(m) = {}
  BY RelayJobsAssumption
  DEF Targets, Target, JobTypes, PendingNamesOwner, NewUnknown
<1> HIDE DEF m
<1>3. JobTypes'
  BY <1>1, <1>2 DEF JobTypes
<1>4. \A j \in Job : stage'[j] = "new" => stage[j] = "new"
  BY <1>1 DEF JobTypes
<1>5. ForwardsSomething'
  BY <1>1 DEF ForwardsSomething
<1>6. BatchOwned'
  <2> SUFFICES ASSUME NEW d \in Client, NEW i \in 1 .. Len(batch[d])
               PROVE  owner[batch[d][i]] = d /\ stage'[batch[d][i]] # "new"
    BY <1>1 DEF BatchOwned
  <2>1. batch[d][i] \in Job
    BY DEF JobTypes
  <2> QED
    BY <1>4, <2>1 DEF BatchOwned
<1>7. PendingNamesOwner'
  BY <1>1 DEF PendingNamesOwner, JobTypes
<1>8. NewUnknown'
  BY <1>1, <1>2, <1>4 DEF NewUnknown, JobTypes
<1>9. AnswersReachOwner'
  BY <1>1, <1>2 DEF AnswersReachOwner, JobTypes
<1> QED
  BY <1>3, <1>5, <1>6, <1>7, <1>8, <1>9

LEMMA JobsSteps == JobsIInv /\ [JobsNext]_jobsVars => JobsIInv'
<1> SUFFICES ASSUME JobsIInv, [JobsNext]_jobsVars
             PROVE  JobsIInv'
  OBVIOUS
<1>1. ASSUME NEW c \in Client, ReceiveJobs(c) \/ ForwardBatch(c)
      PROVE  JobsIInv'
  BY <1>1, ReceiveKeeps, TrackKeeps, ForwardKeeps, ForwardFailsKeeps DEF ForwardBatch
<1>2. ASSUME NEW l \in Link, LinkBreaks(l)
      PROVE  JobsIInv'
  <2>1. JobTypes' /\ \A j \in Job : stage'[j] = "new" <=> stage[j] = "new"
    BY <1>2 DEF LinkBreaks, JobsIInv, JobTypes, handlerVars
  <2> QED
    BY <1>2, <2>1, ElsewhereKeeps DEF LinkBreaks, handlerVars
<1>3. ASSUME NEW l \in Link, NEW j \in Job, Finish(l, j)
      PROVE  JobsIInv'
  <2>1. JobTypes' /\ \A k \in Job : stage'[k] = "new" <=> stage[k] = "new"
    BY <1>3 DEF Finish, JobsIInv, JobTypes, handlerVars
  <2> QED
    BY <1>3, <2>1, ElsewhereKeeps DEF Finish, handlerVars
\* Steps that touch connections or the set of sessions only.
<1>4. ASSUME UNCHANGED <<handlerVars, jobVars>>, registered' \subseteq Client
      PROVE  JobsIInv'
  <2>1. JobTypes'
    BY <1>4 DEF JobsIInv, JobTypes, handlerVars, jobVars
  <2> QED
    BY <1>4, <2>1, ElsewhereKeeps DEF handlerVars, jobVars
<1>5. registered \subseteq Client
  BY DEF JobsIInv, JobTypes
<1>6. ASSUME NEW l \in Link, ReadGpu(l)
      PROVE  JobsIInv'
  BY <1>4, <1>5, <1>6, ReadAnswerKeeps DEF ReadGpu, ReaderEnds
<1>7. ASSUME NEW l \in Link, NEW j \in Job, Partial(l, j)
      PROVE  JobsIInv'
  BY <1>4, <1>5, <1>7 DEF Partial
<1>8. CASE Reconnect
  BY <1>4, <1>5, <1>8 DEF Reconnect, ConnectGpu, ReaderReturns
<1>9. ASSUME NEW id \in Client, SessionRemoved(id) \/ SessionCreated(id)
      PROVE  JobsIInv'
  BY <1>4, <1>5, <1>9 DEF SessionRemoved, SessionCreated
<1>10. CASE UNCHANGED jobsVars
  BY <1>4, <1>5, <1>10 DEF jobsVars
<1> QED
  BY <1>1, <1>2, <1>3, <1>6, <1>7, <1>8, <1>9, <1>10 DEF JobsNext

\* An answer of the GPU worker is given to the session of the browser that
\* submitted the job and to no other, whatever sessions come and go, however
\* connections break and whatever the worker answers, be it twice.
THEOREM AnswersRouted == JobsSpec => []AnswersReachOwner
<1>1. JobsInit => JobsIInv
  BY JobsStart
<1>2. JobsIInv /\ [JobsNext]_jobsVars => JobsIInv'
  BY JobsSteps
<1>3. JobsIInv => AnswersReachOwner
  BY DEF JobsIInv
<1> QED
  BY <1>1, <1>2, <1>3, PTL DEF JobsSpec

\* The links, the answers under way on them and where a job went keep to their
\* types too.
LEMMA JobsKeepTypes == JobsIInv /\ JobsTypeOK /\ [JobsNext]_jobsVars => JobsTypeOK'
<1> SUFFICES ASSUME JobsIInv, JobsTypeOK, [JobsNext]_jobsVars  PROVE JobsTypeOK'
  OBVIOUS
<1> DEFINE Answer == [job : Job, kind : {"partial", "final"}]
           LinkTypes == /\ gpu_tx \in Link /\ links \in Link /\ awaiting \in Link \cup {0}
                        /\ link \in [Link -> {"none", "up", "silent", "closed"}]
                        /\ gpu_ws_reader \in [Link -> {"none", "reading", "ended"}]
                        /\ answers \in [Link -> Seq(Answer)]
                        /\ worker_link \in [Job -> Link \cup {0}]
<1>1. LinkTypes /\ JobTypes' /\ JobTypes
  BY JobsSteps DEF JobsTypeOK, JobsIInv
<1> USE DEF handlerVars, linkVars, jobVars, jobsVars
<1>2. CASE \/ \E c \in Client : ReceiveJobs(c) \/ Track(c) \/ ForwardFails(c)
           \/ \E l \in Link : LinkBreaks(l) \/ ReaderEnds(l)
           \/ Reconnect
           \/ \E id \in Client : SessionRemoved(id) \/ SessionCreated(id)
           \/ UNCHANGED jobsVars
  <2>1. answers' = answers /\ worker_link' = worker_link
    BY <1>2 DEF ReceiveJobs, Track, ForwardFails, LinkBreaks, ReaderEnds, Reconnect,
                ConnectGpu, ReaderReturns, SessionRemoved, SessionCreated
  <2>2. /\ gpu_tx' \in Link /\ links' \in Link /\ awaiting' \in Link \cup {0}
        /\ link' \in [Link -> {"none", "up", "silent", "closed"}]
        /\ gpu_ws_reader' \in [Link -> {"none", "reading", "ended"}]
    <3>1. CASE ConnectGpu
      <4>1. links + 1 \in Link
        BY <1>1, <3>1, RelayJobsAssumption DEF ConnectGpu, Link
      <4> QED  BY <1>1, <3>1, <4>1 DEF ConnectGpu
    <3>2. CASE ReaderReturns
      BY <1>1, <3>2 DEF ReaderReturns
    <3>3. CASE \E l \in Link : LinkBreaks(l) \/ ReaderEnds(l)
      BY <1>1, <3>3 DEF LinkBreaks, ReaderEnds
    <3>4. CASE UNCHANGED linkVars
      BY <1>1, <3>4 DEF linkVars
    <3> QED
      BY <1>2, <3>1, <3>2, <3>3, <3>4
      DEF ReceiveJobs, Track, ForwardFails, Reconnect, SessionRemoved, SessionCreated
  <2> QED  BY <1>1, <2>1, <2>2 DEF JobTypes, JobsTypeOK
<1>3. ASSUME NEW c \in Client, Forward(c)  PROVE JobsTypeOK'
  <2>1. UNCHANGED <<linkVars, answers>> /\ worker_link' \in [Job -> Link \cup {0}]
    BY <1>1, <1>3 DEF Forward
  <2> QED  BY <1>1, <2>1 DEF JobTypes, JobsTypeOK
<1>4. ASSUME NEW l \in Link,
             ReadAnswer(l) \/ \E j \in Job : Partial(l, j) \/ Finish(l, j)
      PROVE  JobsTypeOK'
  <2>1. UNCHANGED <<linkVars, worker_link>>
    BY <1>4 DEF ReadAnswer, Partial, Finish
  <2>2. answers[l] \in Seq(Answer)
    BY <1>1
  <2>3. answers' \in [Link -> Seq(Answer)]
    <3>1. CASE ReadAnswer(l)
      <4>1. answers[l] # <<>> /\ answers' = [answers EXCEPT ![l] = Tail(answers[l])]
        BY <3>1 DEF ReadAnswer
      <4>2. Tail(answers[l]) \in Seq(Answer)
        <5> HIDE DEF Answer
        <5> QED  BY <2>2, <4>1
      <4> QED  BY <1>1, <4>1, <4>2
    <3>2. ASSUME NEW j \in Job, Partial(l, j) \/ Finish(l, j)
          PROVE  answers' \in [Link -> Seq(Answer)]
      <4>1. PICK a \in Answer : answers' = [answers EXCEPT ![l] = Append(answers[l], a)]
        BY <3>2 DEF Partial, Finish
      <4>2. Append(answers[l], a) \in Seq(Answer)
        <5> HIDE DEF Answer
        <5> QED  BY <2>2
      <4> QED  BY <1>1, <4>1, <4>2
    <3> QED  BY <1>4, <3>1, <3>2
  <2> QED  BY <1>1, <2>1, <2>3 DEF JobTypes, JobsTypeOK
<1> QED  BY <1>2, <1>3, <1>4 DEF JobsNext, ForwardBatch, ReadGpu

LEMMA JobsInitTyped == JobsInit => JobsTypeOK
<1>1. \A S : <<>> \in Seq(S)
  OBVIOUS
<1> QED
  BY <1>1, RelayJobsAssumption DEF JobsInit, JobsTypeOK, Link

\* The browser-to-worker state of the relay keeps to its types (handle_browser_ws,
\* gpu_ws_reader and the reconnect loop of main).
THEOREM JobsTyped == JobsSpec => []JobsTypeOK
<1>1. JobsIInv /\ JobsTypeOK /\ [JobsNext]_jobsVars => JobsIInv' /\ JobsTypeOK'
  BY JobsSteps, JobsKeepTypes
<1>2. JobsInit => JobsIInv /\ JobsTypeOK
  BY JobsStart, JobsInitTyped
<1> QED  BY <1>1, <1>2, PTL DEF JobsSpec

-----------------------------------------------------------------------------
(***************************************************************************)
(* The worker gets a session's messages in the order they were sent, each  *)
(* at most once, for any number of messages and connections.               *)
(*                                                                         *)
(* What the channel returns comes after all the worker has got             *)
(* (DeliveredAfterGot), and it is handed on over the connection opened     *)
(* last, beyond which nothing has been sent (ConnsInTurn).                 *)
(***************************************************************************)

\* What the argument needs of the types.
GpuTypes ==
  /\ gpc \in {"start", "select", "connect", "receive", "deliver", "ended"}
  /\ delivered \in Seq(Nat) /\ last_contiguous \in Nat /\ IsFiniteSet(reorder_buffer)
  /\ gpu_writer \in Conn \cup {0}
  /\ conn \in [Conn -> {"none", "up", "closed"}]
  /\ got \in [Conn -> Seq(Nat)]

\* Connections are opened one after the other, and messages go out on the last.
ConnsInTurn ==
  /\ \A c, d \in Conn : c < d /\ conn[c] = "none" => conn[d] = "none"
  /\ \A c \in Conn : conn[c] = "none" => got[c] = <<>>
  /\ gpu_writer # 0 =>
       conn[gpu_writer] # "none" /\ \A d \in Conn : gpu_writer < d => conn[d] = "none"

\* What is being handed on comes after all the worker got, in order.
DeliveredAfterGot ==
  /\ \A j \in 1 .. Len(delivered) : delivered[j] <= last_contiguous
  /\ \A i, j \in 1 .. Len(delivered) : i < j => delivered[i] < delivered[j]
  /\ \A c \in Conn : \A i \in 1 .. Len(got[c]) :
       /\ got[c][i] <= last_contiguous
       /\ \A j \in 1 .. Len(delivered) : got[c][i] < delivered[j]
  /\ gpc # "deliver" => delivered = <<>>

GotInOrder ==
  \A c, d \in Conn : \A i \in 1 .. Len(got[c]), j \in 1 .. Len(got[d]) :
    c < d \/ (c = d /\ i < j) => got[c][i] < got[d][j]

GpuIInv == GpuTypes /\ ConnsInTurn /\ DeliveredAfterGot /\ GotInOrder

LEMMA GpuStart == GpuInit => GpuIInv
<1> SUFFICES ASSUME GpuInit PROVE GpuIInv
  OBVIOUS
<1>1. /\ gpc = "start" /\ delivered = <<>> /\ last_contiguous = 0 /\ reorder_buffer = {}
      /\ gpu_writer = 0 /\ conn = [c \in Conn |-> "none"] /\ got = [c \in Conn |-> <<>>]
  BY DEF GpuInit
<1>2. Len(delivered) = 0 /\ <<>> \in Seq(Nat) /\ 1 .. 0 = {} /\ IsFiniteSet({})
  BY <1>1, EmptySeq, FS_EmptySet
<1>3. \A c \in Conn : Len(got[c]) = 0
  BY <1>1, EmptySeq
<1>4. GpuTypes
  BY <1>1, <1>2 DEF GpuTypes
<1>5. ConnsInTurn
  BY <1>1 DEF ConnsInTurn
<1>6. DeliveredAfterGot /\ GotInOrder
  BY <1>1, <1>2, <1>3 DEF DeliveredAfterGot, GotInOrder
<1> QED
  BY <1>4, <1>5, <1>6 DEF GpuIInv

\* A step that opens no connection, and neither takes nor hands on a message.
LEMMA ElsewhereKeepsGpu ==
  ASSUME GpuIInv, UNCHANGED <<delivered, last_contiguous, reorder_buffer, got>>,
         gpu_writer' \in {gpu_writer, 0},
         gpc' \in {"start", "select", "connect", "receive", "deliver", "ended"},
         conn' \in [Conn -> {"none", "up", "closed"}],
         \A c \in Conn : conn'[c] = "none" <=> conn[c] = "none",
         gpc' # "deliver" => delivered = <<>>
  PROVE  GpuIInv'
<1>1. GpuTypes'
  BY DEF GpuIInv, GpuTypes
<1>2. ConnsInTurn'
  BY DEF GpuIInv, GpuTypes, ConnsInTurn
<1>3. DeliveredAfterGot' /\ GotInOrder'
  BY DEF GpuIInv, DeliveredAfterGot, GotInOrder
<1> QED
  BY <1>1, <1>2, <1>3 DEF GpuIInv

\* A new connection is the last.
LEMMA OpenKeepsGpu ==
  ASSUME GpuIInv, NEW c \in Conn, OpenConn(c), gpc' \in {"select", "receive"},
         delivered = <<>>, UNCHANGED <<delivered, last_contiguous, reorder_buffer>>
  PROVE  GpuIInv'
<1>1. /\ conn[c] = "none" /\ \A d \in Conn : d < c => conn[d] # "none"
      /\ conn' = [conn EXCEPT ![c] = "up"] /\ gpu_writer' = c /\ got' = got
  BY DEF OpenConn
<1>2. conn \in [Conn -> {"none", "up", "closed"}] /\ Conn \subseteq Nat \ {0}
  BY DEF GpuIInv, GpuTypes, Conn
<1>3. GpuTypes'
  BY <1>1 DEF GpuIInv, GpuTypes
<1>4. \A d \in Conn : conn'[d] = IF d = c THEN "up" ELSE conn[d]
  BY <1>1, <1>2
<1>5. \A d \in Conn : c < d => conn[d] = "none"
  BY <1>1 DEF GpuIInv, ConnsInTurn
<1>6. ConnsInTurn'
  <2>1. ASSUME NEW b \in Conn, NEW d \in Conn, b < d, conn'[b] = "none"
        PROVE  conn'[d] = "none"
    BY <1>1, <1>2, <1>4, <2>1 DEF GpuIInv, ConnsInTurn
  <2>2. \A d \in Conn : conn'[d] = "none" => got'[d] = <<>>
    BY <1>1, <1>4 DEF GpuIInv, ConnsInTurn
  <2>3. conn'[c] # "none" /\ \A d \in Conn : c < d => conn'[d] = "none"
    BY <1>2, <1>4, <1>5
  <2> QED
    BY <1>1, <2>1, <2>2, <2>3 DEF ConnsInTurn
<1>7. DeliveredAfterGot' /\ GotInOrder'
  BY <1>1 DEF GpuIInv, DeliveredAfterGot, GotInOrder
<1> QED
  BY <1>3, <1>6, <1>7 DEF GpuIInv

\* What is taken comes after all that was taken before.
LEMMA ReceiveKeepsGpu ==
  ASSUME GpuIInv, ReceiveMessage
  PROVE  GpuIInv'
<1>1. CASE ~Taken(frame)
  <2>1. /\ gpc = "receive" /\ gpc' = "select"
        /\ UNCHANGED <<delivered, last_contiguous, reorder_buffer, got, gpu_writer, conn>>
    BY <1>1 DEF ReceiveMessage, workerVars
  <2> QED
    BY <2>1, ElsewhereKeepsGpu DEF GpuIInv, GpuTypes, DeliveredAfterGot
<1>2. CASE Taken(frame)
  <2>1. PICK waiting : waiting = reorder_buffer \cup {frame}
    OBVIOUS
  <2>2. PICK run : run = Following(waiting)
    OBVIOUS
  <2>3. PICK k : k = Cardinality(run)
    OBVIOUS
  <2>4. /\ gpc = "receive" /\ gpc' = "deliver"
        /\ delivered' = [i \in 1 .. k |-> last_contiguous + i]
        /\ last_contiguous' = last_contiguous + k /\ reorder_buffer' = waiting \ run
        /\ UNCHANGED <<got, gpu_writer, conn>>
    BY <1>2, <2>1, <2>2, <2>3 DEF ReceiveMessage, Advanced, workerVars
  <2>5. IsFiniteSet(waiting) /\ IsFiniteSet(run) /\ IsFiniteSet(waiting \ run)
    <3>1. IsFiniteSet(waiting)
      BY <2>1, FS_AddElement DEF GpuIInv, GpuTypes
    <3>2. run \subseteq waiting /\ waiting \ run \subseteq waiting
      BY <2>2 DEF Following
    <3> QED
      BY <3>1, <3>2, FS_Subset
  <2>6. k \in Nat
    BY <2>3, <2>5, FS_CardinalityType
  <2>7. last_contiguous \in Nat /\ got \in [Conn -> Seq(Nat)]
    BY DEF GpuIInv, GpuTypes
  <2>8. delivered' \in Seq(Nat) /\ Len(delivered') = k
        /\ \A i \in 1 .. k : delivered'[i] = last_contiguous + i
    <3>1. \A i \in 1 .. k : last_contiguous + i \in Nat
      BY <2>6, <2>7
    <3> QED
      BY <2>4, <2>6, <3>1
  <2>9. GpuTypes'
    BY <2>4, <2>5, <2>6, <2>7, <2>8 DEF GpuIInv, GpuTypes
  <2>10. ConnsInTurn' /\ GotInOrder'
    BY <2>4 DEF GpuIInv, ConnsInTurn, GotInOrder
  <2>11. ASSUME NEW c \in Conn, NEW i \in 1 .. Len(got[c])
         PROVE  got[c][i] \in Nat /\ got[c][i] <= last_contiguous
    <3>1. got[c] \in Seq(Nat)
      BY <2>7
    <3> QED
      BY <3>1, ElementOfSeq DEF GpuIInv, DeliveredAfterGot
  <2>12. DeliveredAfterGot'
    <3>1. /\ \A j \in 1 .. k : delivered'[j] <= last_contiguous'
          /\ \A i, j \in 1 .. k : i < j => delivered'[i] < delivered'[j]
      BY <2>4, <2>6, <2>7, <2>8
    <3>2. ASSUME NEW c \in Conn, NEW i \in 1 .. Len(got[c])
          PROVE  /\ got[c][i] <= last_contiguous'
                 /\ \A j \in 1 .. k : got[c][i] < delivered'[j]
      BY <2>4, <2>6, <2>7, <2>8, <2>11
    <3> QED
      BY <2>4, <2>8, <3>1, <3>2 DEF DeliveredAfterGot
  <2> QED
    BY <2>9, <2>10, <2>12 DEF GpuIInv
<1> QED
  BY <1>1, <1>2

\* The worker gets the first of what is being handed on, or nobody does.
LEMMA DeliverKeepsGpu ==
  ASSUME GpuIInv, Deliver
  PROVE  GpuIInv'
<1>1. /\ gpc = "deliver" /\ delivered # <<>> /\ delivered' = Tail(delivered)
      /\ UNCHANGED <<gpc, last_contiguous, reorder_buffer, conn>>
      /\ gpu_writer' \in {gpu_writer, 0}
  BY DEF Deliver, workerVars, channelVars, GiveUpWriter
<1>2. /\ delivered \in Seq(Nat) /\ last_contiguous \in Nat /\ got \in [Conn -> Seq(Nat)]
      /\ gpu_writer \in Conn \cup {0} /\ Conn \subseteq Nat \ {0}
  BY DEF GpuIInv, GpuTypes, Conn
<1>3. PICK n : n = Head(delivered)
  OBVIOUS
<1>4. PICK m : m = Len(delivered)
  OBVIOUS
<1>5. /\ m \in Nat \ {0} /\ n = delivered[1] /\ n \in Nat
      /\ delivered' \in Seq(Nat) /\ Len(delivered') = m - 1
      /\ \A i \in 1 .. m - 1 : delivered'[i] = delivered[i + 1]
  BY <1>1, <1>2, <1>3, <1>4, EmptySeq, LenProperties, HeadTailProperties
<1>6. \A i \in 1 .. m - 1 : i + 1 \in 1 .. m /\ 1 < i + 1 /\ 1 \in 1 .. m
  BY <1>5
<1>7. /\ \A j \in 1 .. m - 1 : delivered'[j] <= last_contiguous /\ n < delivered'[j]
      /\ \A i, j \in 1 .. m - 1 : i < j => delivered'[i] < delivered'[j]
      /\ n <= last_contiguous
  <2>1. \A j \in 1 .. m - 1 : delivered'[j] <= last_contiguous /\ n < delivered'[j]
    BY <1>4, <1>5, <1>6 DEF GpuIInv, DeliveredAfterGot
  <2>2. ASSUME NEW i \in 1 .. m - 1, NEW j \in 1 .. m - 1, i < j
        PROVE  delivered'[i] < delivered'[j]
    <3>1. i + 1 \in 1 .. m /\ j + 1 \in 1 .. m /\ i + 1 < j + 1
      BY <1>5, <2>2
    <3>2. delivered[i + 1] < delivered[j + 1]
      BY <1>4, <3>1 DEF GpuIInv, DeliveredAfterGot
    <3> QED
      BY <1>5, <3>2
  <2>3. n <= last_contiguous
    BY <1>4, <1>5 DEF GpuIInv, DeliveredAfterGot
  <2> QED
    BY <2>1, <2>2, <2>3
<1>8. ASSUME NEW c \in Conn, NEW i \in 1 .. Len(got[c])
      PROVE  /\ got[c][i] <= last_contiguous /\ got[c][i] < n /\ got[c][i] \in Nat
             /\ \A j \in 1 .. m - 1 : got[c][i] < delivered'[j]
  <2>1. got[c] \in Seq(Nat)
    BY <1>2
  <2>2. got[c][i] \in Nat
    BY <2>1, ElementOfSeq
  <2>3. /\ got[c][i] <= last_contiguous
        /\ \A j \in 1 .. m : got[c][i] < delivered[j]
    BY <1>4 DEF GpuIInv, DeliveredAfterGot
  <2>4. 1 \in 1 .. m
    BY <1>5
  <2>5. got[c][i] < n
    BY <1>5, <2>3, <2>4
  <2>6. ASSUME NEW j \in 1 .. m - 1
        PROVE  got[c][i] < delivered'[j]
    BY <1>5, <1>6, <2>3
  <2> QED
    BY <2>2, <2>3, <2>5, <2>6
<1>9. CASE got' = got
  <2>1. GpuTypes' /\ ConnsInTurn' /\ GotInOrder'
    BY <1>1, <1>5, <1>9 DEF GpuIInv, GpuTypes, ConnsInTurn, GotInOrder
  <2>2. DeliveredAfterGot'
    BY <1>1, <1>5, <1>7, <1>8, <1>9 DEF DeliveredAfterGot
  <2> QED
    BY <2>1, <2>2 DEF GpuIInv
<1>10. CASE /\ gpu_writer # 0 /\ conn[gpu_writer] = "up" /\ gpu_writer' = gpu_writer
            /\ got' = [got EXCEPT ![gpu_writer] = Append(@, n)]
  <2>1. PICK w : w = gpu_writer
    OBVIOUS
  <2>2. w \in Conn /\ got[w] \in Seq(Nat)
    BY <1>2, <1>10, <2>1
  <2>3. PICK l : l = Len(got[w])
    OBVIOUS
  <2>4. /\ l \in Nat /\ Append(got[w], n) \in Seq(Nat) /\ Len(Append(got[w], n)) = l + 1
        /\ Append(got[w], n)[l + 1] = n
        /\ \A i \in 1 .. l : Append(got[w], n)[i] = got[w][i]
    BY <1>5, <2>2, <2>3, AppendProperties, LenProperties
  <2>5. \A c \in Conn : got'[c] = IF c = w THEN Append(got[w], n) ELSE got[c]
    BY <1>2, <1>10, <2>1
  <2>6. /\ Len(got'[w]) = l + 1 /\ got'[w][l + 1] = n
        /\ \A i \in 1 .. l : got'[w][i] = got[w][i]
    BY <2>2, <2>4, <2>5
  <2>7. \A c \in Conn : c # w => got'[c] = got[c]
    BY <2>5
  <2>8. \A d \in Conn : w < d => got[d] = <<>>
    BY <1>10, <2>1 DEF GpuIInv, ConnsInTurn
  <2>9. GpuTypes'
    BY <1>1, <1>2, <1>5, <1>10, <2>4, <2>5 DEF GpuIInv, GpuTypes
  <2>10. ConnsInTurn'
    BY <1>1, <1>10, <2>1, <2>7 DEF GpuIInv, ConnsInTurn
  <2>11. ASSUME NEW c \in Conn, NEW i \in 1 .. Len(got'[c])
         PROVE  \/ c = w /\ i = l + 1 /\ got'[c][i] = n
                \/ i \in 1 .. Len(got[c]) /\ got'[c][i] = got[c][i] /\ (c = w => i < l + 1)
    BY <2>3, <2>4, <2>6, <2>7
  <2>12. DeliveredAfterGot'
    <3>1. ASSUME NEW c \in Conn, NEW i \in 1 .. Len(got'[c])
          PROVE  /\ got'[c][i] <= last_contiguous
                 /\ \A j \in 1 .. m - 1 : got'[c][i] < delivered'[j]
      BY <1>7, <1>8, <2>11
    <3> QED
      BY <1>1, <1>5, <1>7, <3>1 DEF DeliveredAfterGot
  <2>13. GotInOrder'
    <3> SUFFICES ASSUME NEW c \in Conn, NEW d \in Conn, NEW i \in 1 .. Len(got'[c]),
                        NEW j \in 1 .. Len(got'[d]), c < d \/ (c = d /\ i < j)
                 PROVE  got'[c][i] < got'[d][j]
      BY DEF GotInOrder
    <3>1. CASE c = w /\ i = l + 1
      <4>1. d # w
        <5> SUFFICES ASSUME d = w PROVE FALSE
          OBVIOUS
        <5>1. j \in 1 .. l + 1 /\ i < j
          BY <1>2, <2>2, <2>6, <3>1
        <5> QED
          BY <2>4, <3>1, <5>1
      <4>2. w < d
        BY <3>1, <4>1
      <4>3. got'[d] = <<>>
        BY <2>7, <2>8, <4>1, <4>2
      <4> QED
        BY <4>3, EmptySeq
    <3>2. CASE ~(c = w /\ i = l + 1) /\ d = w /\ j = l + 1
      <4>1. i \in 1 .. Len(got[c]) /\ got'[c][i] = got[c][i]
        BY <2>11, <3>2
      <4> QED
        BY <1>8, <2>6, <3>2, <4>1
    <3>3. CASE ~(c = w /\ i = l + 1) /\ ~(d = w /\ j = l + 1)
      <4>1. /\ i \in 1 .. Len(got[c]) /\ got'[c][i] = got[c][i]
            /\ j \in 1 .. Len(got[d]) /\ got'[d][j] = got[d][j]
        BY <2>11, <3>3
      <4> QED
        BY <4>1 DEF GpuIInv, GotInOrder
    <3> QED
      BY <3>1, <3>2, <3>3
  <2> QED
    BY <2>9, <2>10, <2>12, <2>13 DEF GpuIInv
<1> QED
  BY <1>3, <1>9, <1>10 DEF Deliver, workerVars

LEMMA GpuSteps == GpuIInv /\ [GpuNext]_gpuSessionVars => GpuIInv'
<1> SUFFICES ASSUME GpuIInv, [GpuNext]_gpuSessionVars
             PROVE  GpuIInv'
  OBVIOUS
<1>0. /\ gpc \in {"start", "select", "connect", "receive", "deliver", "ended"}
      /\ conn \in [Conn -> {"none", "up", "closed"}]
      /\ gpc # "deliver" => delivered = <<>>
  BY DEF GpuIInv, GpuTypes, DeliveredAfterGot
<1>1. CASE InitialConnect
  <2>1. /\ gpc = "start" /\ gpc' = "select"
        /\ UNCHANGED <<delivered, last_contiguous, reorder_buffer>>
    BY <1>1 DEF InitialConnect, TaskAt, channelVars
  <2>2. CASE UNCHANGED workerVars
    BY <1>0, <2>1, <2>2, ElsewhereKeepsGpu DEF workerVars
  <2>3. CASE \E c \in Conn : OpenConn(c)
    BY <1>0, <2>1, <2>3, OpenKeepsGpu
  <2> QED
    BY <1>1, <2>2, <2>3 DEF InitialConnect
<1>2. CASE ConnectForFrame
  <2>1. /\ gpc = "connect" /\ gpc' = "receive" /\ \E c \in Conn : OpenConn(c)
        /\ UNCHANGED <<delivered, last_contiguous, reorder_buffer>>
    BY <1>2 DEF ConnectForFrame, TaskAt, channelVars
  <2> QED
    BY <1>0, <2>1, OpenKeepsGpu
<1>3. CASE ReceiveMessage
  BY <1>3, ReceiveKeepsGpu
<1>4. CASE Deliver
  BY <1>4, DeliverKeepsGpu
<1>5. CASE TakeFrame \/ ConnectForFrameFails \/ ReceiveHandshake \/ BatchDone \/ SessionEnds
  <2>1. /\ UNCHANGED <<delivered, last_contiguous, reorder_buffer, got, conn>>
        /\ gpu_writer' \in {gpu_writer, 0} /\ gpc' \in {"select", "connect", "receive", "ended"}
        /\ delivered = <<>>
    BY <1>0, <1>5
    DEF TakeFrame, ConnectForFrameFails, ReceiveHandshake, BatchDone, SessionEnds, DropFrame,
        TaskAt, channelVars, workerVars
  <2> QED
    BY <1>0, <2>1, ElsewhereKeepsGpu
<1>6. CASE \/ TakeAnswer \/ ReaderRuns \/ BrowserSends \/ BrowserRetransmits \/ BrowserLeaves
           \/ UNCHANGED gpuSessionVars
  <2>1. UNCHANGED <<gpc, delivered, last_contiguous, reorder_buffer, got, conn, gpu_writer>>
    BY <1>6
    DEF TakeAnswer, ReaderRuns, ReaderForwards, ReaderSeesClose, BrowserSends,
        BrowserRetransmits, BrowserLeaves, gpuSessionVars, channelVars, workerVars
  <2> QED
    BY <1>0, <2>1, ElsewhereKeepsGpu
<1>7. ASSUME NEW c \in Conn, WorkerAnswers(c) \/ WorkerCloses(c)
      PROVE  GpuIInv'
  <2>1. /\ UNCHANGED <<gpc, delivered, last_contiguous, reorder_buffer, got, gpu_writer>>
        /\ conn' = conn \/ (conn[c] = "up" /\ conn' = [conn EXCEPT ![c] = "closed"])
    BY <1>7 DEF WorkerAnswers, WorkerCloses, channelVars
  <2>2. /\ conn' \in [Conn -> {"none", "up", "closed"}]
        /\ \A d \in Conn : conn'[d] = "none" <=> conn[d] = "none"
    BY <1>0, <2>1
  <2> QED
    BY <1>0, <2>1, <2>2, ElsewhereKeepsGpu
<1> QED
  BY <1>1, <1>2, <1>3, <1>4, <1>5, <1>6, <1>7 DEF GpuNext, SessionRuns

\* The worker gets a session's messages in the order they were sent, each at
\* most once, on however many connections, however often the browser sends
\* again and wherever a connection breaks under what is being handed on.
THEOREM WorkerGetsInOrder == GpuSpec => []WorkerInOrder
<1>1. GpuInit => GpuIInv
  BY GpuStart
<1>2. GpuIInv /\ [GpuNext]_gpuSessionVars => GpuIInv'
  BY GpuSteps
<1>3. GpuIInv => WorkerInOrder
  <2> SUFFICES ASSUME GpuIInv PROVE WorkerInOrder
    OBVIOUS
  <2>1. \A c \in Conn : DOMAIN got[c] = 1 .. Len(got[c])
    BY LenProperties DEF GpuIInv, GpuTypes
  <2> QED
    BY <2>1 DEF GpuIInv, GotInOrder, WorkerInOrder
<1> QED
  BY <1>1, <1>2, <1>3, PTL DEF GpuSpec

\* What the channel takes out of its buffer is a stretch of what was sent, so its
\* count goes no further than the last message.
LEMMA FollowingIsBounded ==
  ASSUME last_contiguous \in 0..MaxSent, NEW waiting \in SUBSET (1..MaxSent)
  PROVE  /\ Cardinality(Following(waiting)) \in Nat
         /\ last_contiguous + Cardinality(Following(waiting)) \in 0..MaxSent
<1> DEFINE run == Following(waiting)
           rest == (last_contiguous + 1)..MaxSent
<1>1. MaxSent \in Nat /\ last_contiguous \in Nat /\ last_contiguous <= MaxSent
  BY GpuSessionAssumption
<1>2. ASSUME NEW n \in run  PROVE n \in rest
  <2>1. n \in waiting /\ n > last_contiguous
    BY DEF Following
  <2> QED  BY <1>1, <2>1
<1>3. IsFiniteSet(rest) /\ Cardinality(rest) = MaxSent - last_contiguous
  <2>1. last_contiguous + 1 \in Int /\ MaxSent \in Int
    BY <1>1
  <2>2. /\ IsFiniteSet(rest)
        /\ Cardinality(rest) = IF last_contiguous + 1 > MaxSent THEN 0
                               ELSE MaxSent - (last_contiguous + 1) + 1
    BY <2>1, FS_Interval
  <2> QED  BY <1>1, <2>2
<1>4. IsFiniteSet(run) /\ Cardinality(run) <= Cardinality(rest)
  BY <1>2, <1>3, FS_Subset
<1>5. Cardinality(run) \in Nat
  BY <1>4, FS_CardinalityType
<1> QED  BY <1>1, <1>3, <1>4, <1>5

LEMMA GpuInitTyped == GpuInit => GpuTypeOK
<1> SUFFICES ASSUME GpuInit  PROVE GpuTypeOK
  OBVIOUS
<1>1. 0 \in 0..MaxSent /\ \A S : <<>> \in Seq(S)
  BY GpuSessionAssumption
<1>2. <<0>> \in Seq(0..MaxSent)
  BY <1>1
<1> QED  BY <1>1, <1>2 DEF GpuInit, GpuTypeOK

\* Every message anywhere is one the browser has sent.
LEMMA GpuKeepsTypes == GpuTypeOK /\ [GpuNext]_gpuSessionVars => GpuTypeOK'
<1> SUFFICES ASSUME GpuTypeOK, [GpuNext]_gpuSessionVars  PROVE GpuTypeOK'
  OBVIOUS
<1> DEFINE Sent == 1..MaxSent
           FromBrowser == 0..MaxSent
           UpTypes == /\ browser \in {"handshaking", "ready", "gone"}
                      /\ uplink \in Seq(FromBrowser) /\ sent \in FromBrowser
                      /\ gpc \in {"start", "select", "connect", "receive", "deliver", "ended"}
                      /\ frame \in FromBrowser
           ChannelTypes == /\ delivered \in Seq(Sent) /\ enc_ready \in BOOLEAN
                           /\ last_contiguous \in FromBrowser /\ reorder_buffer \subseteq Sent
           WorkerTypes == /\ gpu_writer \in Conn \cup {0} /\ gpu_reader \in {gpu_writer, 0}
                          /\ conn \in [Conn -> {"none", "up", "closed"}]
                          /\ got \in [Conn -> Seq(Sent)] /\ unread \in [Conn -> Seq(Sent)]
           AnswerTypes == /\ gpu_to_ec2 \in Seq(Sent) /\ results \in Seq(Sent)
                          /\ lost \subseteq Sent
           Types == UpTypes /\ ChannelTypes /\ WorkerTypes /\ AnswerTypes
<1>1. Types /\ MaxSent \in Nat /\ 0 \notin Conn
  BY GpuSessionAssumption DEF GpuTypeOK, Conn
<1>2. SUFFICES Types'
  BY DEF GpuTypeOK
<1>3. Sent \subseteq FromBrowser /\ FromBrowser = Sent \cup {0}
  BY <1>1
<1> HIDE DEF Sent, FromBrowser
<1>4. ASSUME UNCHANGED gpuSessionVars  PROVE Types'
  BY <1>1, <1>4 DEF gpuSessionVars, browserVars, channelVars, workerVars, answerVars
<1>5. ASSUME NEW c \in Conn, OpenConn(c)  PROVE WorkerTypes'
  BY <1>1, <1>5 DEF OpenConn
<1>6. ASSUME InitialConnect \/ ConnectForFrame \/ ConnectForFrameFails  PROVE Types'
  <2>1. WorkerTypes'
    BY <1>1, <1>5, <1>6
    DEF InitialConnect, ConnectForFrame, ConnectForFrameFails, OpenConn, workerVars
  <2> QED
    BY <1>1, <1>6, <2>1
    DEF InitialConnect, ConnectForFrame, ConnectForFrameFails, DropFrame, TaskAt,
        browserVars, channelVars, answerVars
<1>7. ASSUME TakeFrame  PROVE Types'
  <2>1. frame' \in FromBrowser /\ uplink' \in Seq(FromBrowser)
    BY <1>1, <1>7, HeadTailProperties DEF TakeFrame
  <2> QED  BY <1>1, <1>7, <2>1 DEF TakeFrame, channelVars, workerVars, answerVars
<1>8. ASSUME ReceiveHandshake  PROVE Types'
  BY <1>1, <1>8 DEF ReceiveHandshake, TaskAt, workerVars, answerVars
<1>9. ASSUME ReceiveMessage  PROVE Types'
  <2>1. CASE ~Taken(frame)
    BY <1>1, <1>9, <2>1 DEF ReceiveMessage, browserVars, workerVars, answerVars
  <2>2. CASE Taken(frame)
    <3>1. PICK waiting : waiting = reorder_buffer \cup {frame}
      OBVIOUS
    <3>2. PICK k : k = Cardinality(Following(waiting))
      OBVIOUS
    <3>3. /\ gpc' = "deliver" /\ delivered' = [i \in 1..k |-> last_contiguous + i]
          /\ last_contiguous' = last_contiguous + k
          /\ reorder_buffer' = waiting \ Following(waiting)
          /\ UNCHANGED <<browserVars, frame, enc_ready, workerVars, answerVars, lost>>
      BY <1>9, <2>2, <3>1, <3>2 DEF ReceiveMessage, Advanced
    <3>4. frame \in Sent /\ waiting \in SUBSET (1..MaxSent)
      BY <1>1, <1>3, <2>2, <3>1, GpuSessionAssumption DEF Taken, Sent, FromBrowser
    <3>5. k \in Nat /\ last_contiguous + k \in 0..MaxSent
      BY <1>1, <3>2, <3>4, FollowingIsBounded DEF FromBrowser
    <3>6. \A i \in 1..k : last_contiguous + i \in Sent
      BY <1>1, <3>5 DEF Sent, FromBrowser
    <3>7. delivered' \in Seq(Sent)
      BY <3>3, <3>5, <3>6
    <3>8. last_contiguous' \in FromBrowser /\ reorder_buffer' \subseteq Sent
      BY <3>3, <3>4, <3>5 DEF Sent, FromBrowser
    <3> QED
      BY <1>1, <3>3, <3>7, <3>8 DEF browserVars, workerVars, answerVars
  <2> QED  BY <2>1, <2>2
<1>10. ASSUME Deliver  PROVE Types'
  <2>1. /\ Head(delivered) \in Sent /\ delivered' \in Seq(Sent)
        /\ ToSet(delivered) \subseteq Sent
    BY <1>1, <1>10, HeadTailProperties, ElementOfSeq DEF Deliver, ToSet
  <2>2. WorkerTypes'
    <3>1. ASSUME gpu_writer # 0
          PROVE  /\ gpu_writer \in Conn
                 /\ Append(got[gpu_writer], Head(delivered)) \in Seq(Sent)
      BY <1>1, <2>1, <3>1, AppendProperties
    <3> QED  BY <1>1, <1>10, <3>1 DEF Deliver, GiveUpWriter, workerVars
  <2>3. lost' \subseteq Sent
    BY <1>1, <1>10, <2>1 DEF Deliver
  <2> QED  BY <1>1, <1>10, <2>1, <2>2, <2>3 DEF Deliver, browserVars, channelVars, answerVars
<1>11. ASSUME BatchDone  PROVE Types'
  BY <1>1, <1>11 DEF BatchDone, TaskAt, browserVars, channelVars, workerVars, answerVars
<1>12. ASSUME TakeAnswer  PROVE Types'
  <2>1. gpu_to_ec2' \in Seq(Sent) /\ Head(gpu_to_ec2) \in Sent
    BY <1>1, <1>12, HeadTailProperties DEF TakeAnswer
  <2>2. results' \in Seq(Sent)
    BY <1>1, <1>12, <2>1, AppendProperties DEF TakeAnswer
  <2> QED  BY <1>1, <1>12, <2>1, <2>2 DEF TakeAnswer, browserVars, channelVars, workerVars
<1>13. ASSUME SessionEnds  PROVE Types'
  BY <1>1, <1>13 DEF SessionEnds, browserVars, channelVars, answerVars
<1>14. ASSUME NEW c \in Conn, WorkerAnswers(c)  PROVE Types'
  <2>1. PICK n \in ToSet(got[c]) : unread' = [unread EXCEPT ![c] = Append(@, n)]
    BY <1>14 DEF WorkerAnswers
  <2>2. n \in Sent
    BY <1>1, <2>1, ElementOfSeq DEF ToSet
  <2>3. unread' \in [Conn -> Seq(Sent)]
    BY <1>1, <2>1, <2>2, AppendProperties
  <2> QED  BY <1>1, <1>14, <2>3 DEF WorkerAnswers, browserVars, channelVars, answerVars
<1>15. ASSUME NEW c \in Conn, WorkerCloses(c)  PROVE Types'
  BY <1>1, <1>15 DEF WorkerCloses, browserVars, channelVars, answerVars
<1>16. ASSUME ReaderForwards  PROVE Types'
  <2>1. gpu_reader \in Conn /\ unread[gpu_reader] \in Seq(Sent) /\ unread[gpu_reader] # <<>>
    BY <1>1, <1>16 DEF ReaderForwards
  <2>2. Head(unread[gpu_reader]) \in Sent /\ Tail(unread[gpu_reader]) \in Seq(Sent)
    BY <2>1, HeadTailProperties
  <2>3. gpu_to_ec2' \in Seq(Sent) /\ unread' \in [Conn -> Seq(Sent)]
    BY <1>1, <1>16, <2>1, <2>2, AppendProperties DEF ReaderForwards
  <2> QED  BY <1>1, <1>16, <2>3 DEF ReaderForwards, browserVars, channelVars
<1>17. ASSUME ReaderSeesClose  PROVE Types'
  BY <1>1, <1>17 DEF ReaderSeesClose, browserVars, channelVars, answerVars
<1>18. ASSUME BrowserSends  PROVE Types'
  <2>1. sent + 1 \in FromBrowser
    BY <1>1, <1>18 DEF BrowserSends, FromBrowser
  <2>2. uplink' \in Seq(FromBrowser)
    BY <1>1, <1>18, <2>1, AppendProperties DEF BrowserSends
  <2> QED  BY <1>1, <1>18, <2>1, <2>2 DEF BrowserSends, channelVars, workerVars, answerVars
<1>19. ASSUME BrowserRetransmits  PROVE Types'
  <2>1. PICK n \in 1..sent : uplink' = <<n>>
    BY <1>19 DEF BrowserRetransmits
  <2>2. n \in FromBrowser
    BY <1>1, <2>1 DEF FromBrowser
  <2>3. uplink' \in Seq(FromBrowser)
    BY <2>1, <2>2
  <2> QED  BY <1>1, <1>19, <2>3 DEF BrowserRetransmits, channelVars, workerVars, answerVars
<1>20. ASSUME BrowserLeaves  PROVE Types'
  BY <1>1, <1>20 DEF BrowserLeaves, channelVars, workerVars, answerVars
<1> HIDE DEF Types
<1> QED
  BY <1>4, <1>6, <1>7, <1>8, <1>9, <1>10, <1>11, <1>12, <1>13, <1>14, <1>15, <1>16, <1>17,
     <1>18, <1>19, <1>20
  DEF GpuNext, SessionRuns, ReaderRuns

\* A session with the GPU worker keeps to its types (run_gpu_session), however far
\* the channel's count of what it took and its buffer run.
THEOREM GpuTyped == GpuSpec => []GpuTypeOK
BY GpuInitTyped, GpuKeepsTypes, PTL DEF GpuSpec

-----------------------------------------------------------------------------
(***************************************************************************)
(* No server is registered with by two loops, for any number of peers,     *)
(* reconnects and faults.                                                  *)
(*                                                                         *)
(* Two loops of one peer are of different spawnings.  The invariant says   *)
(* that only those of the last spawning live, so there is one of them; it  *)
(* is the abort of the others in Register that keeps it.                   *)
(***************************************************************************)

\* What the argument needs of the types.
LoopTypes ==
  /\ lpc \in [Loop -> {"none", "top", "connecting", "registering", "serving", "ended"}]
  /\ spawnings \in Nat

\* A peer loop that lives is of the last spawning.
OnlyLastLives == \A k \in PeerLoop : Live(k) => k.spawning = spawnings

TunnelIInv == LoopTypes /\ OnlyLastLives

LEMMA PrimaryIsNoPeer == Primary \notin PeerLoop /\ Relay \notin PeerLoop
BY DEF Primary, Relay, PeerLoop, Spawning

LEMMA TunnelStart == TunnelInit => TunnelIInv
BY DEF TunnelInit, TunnelIInv, LoopTypes, OnlyLastLives, Live, Loop

\* A step of a loop that neither starts nor ends one, and no spawning.
LEMMA SameLives ==
  ASSUME TunnelIInv, spawnings' = spawnings, LoopTypes',
         \A k \in PeerLoop : Live(k)' => Live(k)
  PROVE  TunnelIInv'
BY DEF TunnelIInv, OnlyLastLives, Live

\* Register spawns loops numbered one beyond the last and ends the others.
LEMMA RegisterKeepsLast ==
  ASSUME TunnelIInv, NEW l \in Loop, Register(l)
  PROVE  TunnelIInv'
<1>1. LoopTypes'
  BY DEF Register, TunnelIInv, LoopTypes
<1>2. ASSUME NEW k \in PeerLoop, Live(k)'
      PROVE  k.spawning = spawnings'
  <2>1. k \in Loop
    BY DEF Loop
  <2>2. CASE l = Primary
    <3>1. k # l
      BY <2>2, PrimaryIsNoPeer
    <3>2. lpc'[k] = IF k \in EndedLoops(l) THEN "ended"
                    ELSE IF k \in FreshLoops(l) THEN "top" ELSE lpc[k]
      BY <2>1, <3>1 DEF Register
    <3>3. k \in FreshLoops(l)
      BY <1>2, <2>2, <3>2 DEF Live, EndedLoops
    <3> QED
      BY <2>2, <3>3 DEF Register, FreshLoops
  <2>3. CASE l # Primary
    <3>1. EndedLoops(l) = {} /\ FreshLoops(l) = {} /\ spawnings' = spawnings
      BY <2>3 DEF EndedLoops, FreshLoops, Register
    <3>2. Live(k)
      BY <1>2, <2>1, <3>1 DEF Register, Live
    <3> QED
      BY <3>1, <3>2 DEF TunnelIInv, OnlyLastLives
  <2> QED
    BY <2>2, <2>3
<1> QED
  BY <1>1, <1>2 DEF TunnelIInv, OnlyLastLives

LEMMA TunnelSteps == TunnelIInv /\ [TunnelNext]_tunnelVars => TunnelIInv'
<1> SUFFICES ASSUME TunnelIInv, [TunnelNext]_tunnelVars
             PROVE  TunnelIInv'
  OBVIOUS
<1>0. PeerLoop \subseteq Loop
  BY DEF Loop
<1> USE DEF LoopTypes
<1>1. ASSUME NEW l \in Loop, LoopTop(l)
      PROVE  TunnelIInv'
  BY <1>0, <1>1, SameLives DEF LoopTop, TunnelIInv, Live
<1>2. ASSUME NEW l \in Loop, Connect(l)
      PROVE  TunnelIInv'
  BY <1>0, <1>2, SameLives DEF Connect, TunnelIInv, Live
<1>3. ASSUME NEW l \in Loop, RegisterFails(l)
      PROVE  TunnelIInv'
  BY <1>0, <1>3, SameLives DEF RegisterFails, Again, TunnelIInv, Live
<1>4. ASSUME NEW l \in Loop, ControlEnds(l)
      PROVE  TunnelIInv'
  BY <1>0, <1>4, SameLives DEF ControlEnds, Again, TunnelIInv, Live
<1>5. ASSUME NEW l \in Loop, ConnectFails(l)
      PROVE  TunnelIInv'
  BY <1>0, <1>5, SameLives DEF ConnectFails, TunnelIInv, Live
\* The other steps move no loop.
<1>6. ASSUME UNCHANGED <<lpc, spawnings>>
      PROVE  TunnelIInv'
  BY <1>6 DEF TunnelIInv, OnlyLastLives, Live
<1>7. ASSUME NEW l \in Loop, HearServer(l) \/ PongTimeout(l) \/ ControlBreaks(l)
                               \/ ControlRecovers(l)
      PROVE  TunnelIInv'
  BY <1>6, <1>7 DEF HearServer, PongTimeout, ControlBreaks, ControlRecovers
<1>8. ASSUME NEW l \in Loop, NEW r \in Request, SessionRequest(l, r)
      PROVE  TunnelIInv'
  BY <1>6, <1>8 DEF SessionRequest
<1>9. ASSUME NEW r \in Request, DialBack(r)
      PROVE  TunnelIInv'
  BY <1>6, <1>9 DEF DialBack
<1>10. CASE UNCHANGED tunnelVars
  BY <1>6, <1>10 DEF tunnelVars
<1> QED
  BY <1>1, <1>2, <1>3, <1>4, <1>5, <1>7, <1>8, <1>9, <1>10, RegisterKeepsLast
  DEF TunnelNext, LoopRuns

\* Of one server at most one loop lives: peer loops of one server with one
\* spawning are the same, and the primary and the relay are no peers.
LEMMA LastIsOne == TunnelIInv => OneLoopPerServer
<1> SUFFICES ASSUME TunnelIInv, NEW k \in Loop, NEW l \in Loop,
                    Live(k), Live(l), k.server = l.server
             PROVE  k = l
  BY DEF OneLoopPerServer
<1>1. CASE k \in PeerLoop /\ l \in PeerLoop
  <2>1. k.spawning = l.spawning
    BY <1>1 DEF TunnelIInv, OnlyLastLives
  <2> QED
    BY <1>1, <2>1 DEF PeerLoop
<1>2. ASSUME NEW q \in Loop, q \notin PeerLoop
      PROVE  q \in {Primary, Relay}
  BY <1>2 DEF Loop
<1>3. ASSUME NEW q \in PeerLoop
      PROVE  q.server # "primary" /\ q.server # "relay"
  BY ControlTunnelAssumption DEF PeerLoop
<1>4. Primary.server = "primary" /\ Relay.server = "relay"
  BY DEF Primary, Relay
<1> QED
  BY <1>1, <1>2, <1>3, <1>4

\* A peer is never registered with twice by one daemon, however often the
\* primary reconnects and wherever the old loops are waiting then.
THEOREM OneLoopEach == TunnelSpec => []OneLoopPerServer
<1>1. TunnelInit => TunnelIInv
  BY TunnelStart
<1>2. TunnelIInv /\ [TunnelNext]_tunnelVars => TunnelIInv'
  BY TunnelSteps
<1>3. TunnelIInv => OneLoopPerServer
  BY LastIsOne
<1> QED
  BY <1>1, <1>2, <1>3, PTL DEF TunnelSpec

\* Whether a connection has broken or fallen silent, or had.
Suspect(l) == control[l] \in {"silent", "closed"} \/ pong_late[l]

\* Every spawning but the first was preceded by a fault of its own: the one that
\* broke the primary's connection of the spawning before.  So many spawnings n
\* may there be after f faults, if the primary's loop is at step here and its
\* connection is suspect or not.
Counted(n, f, here, suspect) ==
  /\ n <= f + 1
  /\ here # "serving" \/ suspect => n <= f
  /\ here # "serving" /\ suspect => n < f

\* What the argument needs of the types, and that number.
LoopState == {"none", "top", "connecting", "registering", "serving", "ended"}
LoopsTyped ==
  /\ lpc \in [Loop -> LoopState]
  /\ control \in [Loop -> {"none", "up", "silent", "closed"}]
  /\ pong_late \in [Loop -> BOOLEAN]
  /\ ec2_registered \in BOOLEAN
  /\ dialing \in [Request -> {"none", "dialing", "session", "failed"}]
FaultsTyped == spawnings \in Nat /\ faults \in 0..MaxFaults
SpawningsCounted == Counted(spawnings, faults, lpc[Primary], Suspect(Primary))
TunnelTyped == LoopsTyped /\ FaultsTyped /\ SpawningsCounted

LEMMA TunnelTypesFollow == TunnelTyped => TunnelTypeOK
<1> SUFFICES ASSUME TunnelTyped  PROVE TunnelTypeOK
  OBVIOUS
<1>1. spawnings \in Nat /\ faults \in 0..MaxFaults /\ MaxFaults \in Nat
  BY ControlTunnelAssumption DEF TunnelTyped, FaultsTyped
<1>2. spawnings <= faults + 1
  BY DEF TunnelTyped, SpawningsCounted, Counted
<1>3. spawnings \in 0..(MaxFaults + 1)
  BY <1>1, <1>2
<1> QED  BY <1>1, <1>3 DEF TunnelTyped, LoopsTyped, LoopState, TunnelTypeOK

LEMMA TunnelStartTyped == TunnelInit => TunnelTyped
<1> SUFFICES ASSUME TunnelInit  PROVE TunnelTyped
  OBVIOUS
<1>1. Primary \in Loop /\ 0 \in 0..MaxFaults
  BY ControlTunnelAssumption DEF Loop
<1>2. SpawningsCounted
  BY <1>1 DEF TunnelInit, SpawningsCounted, Counted, Suspect
<1>3. LoopsTyped
  BY DEF TunnelInit, LoopsTyped, LoopState
<1> QED  BY <1>1, <1>2, <1>3 DEF TunnelInit, TunnelTyped, FaultsTyped

\* The steps of the primary's loop, and of its connection.
LEMMA StepCounted ==
  ASSUME NEW n \in Nat, NEW f \in Nat, NEW here, NEW next, NEW was \in BOOLEAN,
         NEW is \in BOOLEAN, Counted(n, f, here, was)
  PROVE  /\ here = next /\ (is => was) => Counted(n, f, next, is)
         /\ here # "serving" /\ (is => was) => Counted(n, f, next, is)
         /\ was /\ ~is => Counted(n, f, next, is)
         /\ here = next => Counted(n, f + 1, next, is)
         /\ here # "serving" /\ is = was => Counted(n, f + 1, next, is)
         /\ here # "serving" /\ next = "serving" /\ is = was => Counted(n + 1, f, next, is)
BY DEF Counted

LEMMA TunnelKeepsTypes == TunnelTyped /\ [TunnelNext]_tunnelVars => TunnelTyped'
<1> SUFFICES ASSUME TunnelTyped, [TunnelNext]_tunnelVars  PROVE TunnelTyped'
  OBVIOUS
<1> USE DEF TunnelTyped, LoopState
<1>1. LoopsTyped /\ Primary \in Loop /\ Suspect(Primary) \in BOOLEAN
  BY DEF Loop, LoopsTyped, Suspect
<1>2. FaultsTyped /\ MaxFaults \in Nat /\ spawnings \in Nat /\ faults \in Nat
  BY ControlTunnelAssumption DEF FaultsTyped
<1>6. lpc[Primary] \in LoopState
  BY <1>1 DEF LoopsTyped
<1> DEFINE Runs(l) ==
             \/ LoopTop(l) \/ Connect(l) \/ RegisterFails(l) \/ HearServer(l)
             \/ PongTimeout(l) \/ ControlEnds(l) \/ ConnectFails(l) \/ ControlBreaks(l)
             \/ ControlRecovers(l)
<1>3. ASSUME NEW l \in Loop, Runs(l)  PROVE TunnelTyped'
  <2>1. LoopsTyped'
    BY <1>1, <1>3
    DEF LoopTop, Connect, RegisterFails, HearServer, PongTimeout, ControlEnds, ConnectFails,
        ControlBreaks, ControlRecovers, Again, Flag, LoopsTyped
  <2>2. /\ spawnings' = spawnings
        /\ faults' = faults \/ (faults < MaxFaults /\ faults' = faults + 1)
        /\ ConnectFails(l) \/ ControlBreaks(l) => faults' = faults + 1
        /\ ~(ConnectFails(l) \/ ControlBreaks(l)) => faults' = faults
    BY <1>3
    DEF LoopTop, Connect, RegisterFails, HearServer, PongTimeout, ControlEnds, ConnectFails,
        ControlBreaks, ControlRecovers, Fault
  <2>3. FaultsTyped'
    BY <1>2, <2>2 DEF FaultsTyped
  <2>4. Suspect(Primary)' \in BOOLEAN
    BY <1>1, <2>1 DEF LoopsTyped, Suspect
  <2>5. CASE l = Primary
    <3>1. ASSUME LoopTop(l) \/ Connect(l) \/ RegisterFails(l)
          PROVE  lpc[l] # "serving" /\ (Suspect(l)' => Suspect(l))
      BY <1>1, <3>1 DEF LoopTop, Connect, RegisterFails, Again, Suspect, LoopsTyped
    <3>2. ASSUME HearServer(l) \/ PongTimeout(l) \/ ControlRecovers(l)
          PROVE  lpc' = lpc /\ (Suspect(l)' => Suspect(l))
      BY <1>1, <3>2 DEF HearServer, PongTimeout, ControlRecovers, Suspect, LoopsTyped
    <3>3. ASSUME ControlEnds(l)  PROVE ~Suspect(l)' /\ Suspect(l) /\ faults' = faults
      BY <1>1, <3>3 DEF ControlEnds, GivesUp, Again, Suspect, LoopsTyped
    <3>4. ASSUME ConnectFails(l)
          PROVE  lpc[l] # "serving" /\ (Suspect(l)' = Suspect(l))
      BY <1>1, <3>4 DEF ConnectFails, Suspect, LoopsTyped
    <3>5. ASSUME ControlBreaks(l)  PROVE lpc' = lpc
      BY <3>5 DEF ControlBreaks
    <3> HIDE DEF LoopState
    <3>10. lpc'[l] \in LoopState
      BY <1>1, <2>1, <2>5 DEF LoopsTyped
    <3>6. PICK n \in Nat, f \in Nat, here \in LoopState, next \in LoopState,
              was \in BOOLEAN, is \in BOOLEAN :
            /\ n = spawnings /\ f = faults /\ here = lpc[l] /\ next = lpc'[l]
            /\ was = Suspect(l) /\ is = Suspect(l)'
      BY <1>1, <1>2, <1>6, <2>4, <2>5, <3>10, Zenon
    <3>7. Counted(n, f, here, was)
      BY <2>5, <3>6 DEF SpawningsCounted
    <3>8. Counted(n, faults', next, is)
      <4>1. CASE LoopTop(l) \/ Connect(l) \/ RegisterFails(l)
        BY <2>2, <3>1, <3>6, <3>7, <4>1, StepCounted
      <4>2. CASE HearServer(l) \/ PongTimeout(l) \/ ControlRecovers(l)
        BY <2>2, <3>2, <3>6, <3>7, <4>2, StepCounted
      <4>3. CASE ControlEnds(l)
        <5>1. was /\ ~is /\ faults' = f
          BY <3>3, <3>6, <4>3
        <5>2. Counted(n, f, next, is)
          BY <3>6, <3>7, <5>1, StepCounted
        <5> QED  BY <5>1, <5>2
      <4>4. CASE ConnectFails(l)
        <5>1. here # "serving" /\ is = was /\ faults' = f + 1
          BY <2>2, <3>4, <3>6, <4>4
        <5>2. Counted(n, f + 1, next, is)
          BY <3>6, <3>7, <5>1, StepCounted
        <5> QED  BY <5>1, <5>2, Zenon
      <4>5. CASE ControlBreaks(l)
        <5>1. here = next
          BY <3>5, <3>6, <4>5
        <5>2. Counted(n, f + 1, next, is)
          BY <3>7, <5>1, StepCounted
        <5>3. faults' = f + 1
          BY <2>2, <3>6, <4>5
        <5> QED  BY <5>2, <5>3, Zenon
      <4> QED  BY <1>3, <4>1, <4>2, <4>3, <4>4, <4>5
    <3>9. SpawningsCounted'
      BY <2>2, <2>5, <3>6, <3>8 DEF SpawningsCounted
    <3> QED  BY <2>1, <2>3, <3>9
  <2>6. CASE l # Primary
    <3>1. /\ lpc'[Primary] = lpc[Primary] /\ control'[Primary] = control[Primary]
          /\ pong_late'[Primary] = pong_late[Primary]
      BY <1>1, <1>3, <2>6
      DEF LoopTop, Connect, RegisterFails, HearServer, PongTimeout, ControlEnds,
          ConnectFails, ControlBreaks, ControlRecovers, Again, LoopsTyped
    <3>2. Suspect(Primary)' = Suspect(Primary)
      BY <3>1 DEF Suspect
    <3>3. PICK n \in Nat, f \in Nat, here \in LoopState, was \in BOOLEAN :
            n = spawnings /\ f = faults /\ here = lpc[Primary] /\ was = Suspect(Primary)
      BY <1>1, <1>2, <1>6, Zenon
    <3>4. Counted(n, f, here, was)
      BY <3>3 DEF SpawningsCounted
    <3>5. Counted(n, f + 1, here, was)
      BY <3>4, StepCounted
    <3>6. SpawningsCounted'
      BY <2>2, <3>1, <3>2, <3>3, <3>4, <3>5 DEF SpawningsCounted
    <3> QED  BY <2>1, <2>3, <3>6
  <2> QED  BY <2>5, <2>6
<1>4. ASSUME NEW l \in Loop, Register(l)  PROVE TunnelTyped'
  <2>1. LoopsTyped'
    BY <1>1, <1>4 DEF Register, DialsAfter, LoopsTyped
  <2>2. FaultsTyped'
    BY <1>2, <1>4 DEF Register, FaultsTyped
  <2>3. Primary \notin EndedLoops(l) /\ Primary \notin FreshLoops(l)
    BY PrimaryIsNoPeer DEF EndedLoops, FreshLoops
  <2>4. /\ control'[Primary] = control[Primary]
        /\ pong_late'[Primary] = pong_late[Primary]
        /\ lpc'[Primary] = IF l = Primary THEN "serving" ELSE lpc[Primary]
        /\ spawnings' = IF l = Primary THEN spawnings + 1 ELSE spawnings
        /\ faults' = faults /\ lpc[l] # "serving"
    BY <1>1, <1>4, <2>3 DEF Register, LoopsTyped
  <2>5. Suspect(Primary)' = Suspect(Primary)
    BY <2>4 DEF Suspect
  <2>6. PICK n \in Nat, f \in Nat, here \in LoopState, was \in BOOLEAN :
          n = spawnings /\ f = faults /\ here = lpc[Primary] /\ was = Suspect(Primary)
    BY <1>1, <1>2, <1>6, Zenon
  <2>7. Counted(n, f, here, was) /\ (here # "serving" => Counted(n + 1, f, "serving", was))
    BY <2>6, StepCounted DEF SpawningsCounted
  <2>8. SpawningsCounted'
    BY <2>4, <2>5, <2>6, <2>7 DEF SpawningsCounted
  <2> QED  BY <2>1, <2>2, <2>8
<1>5. ASSUME \/ UNCHANGED tunnelVars
             \/ \E r \in Request : DialBack(r) \/ \E l \in Loop : SessionRequest(l, r)
      PROVE  TunnelTyped'
  <2>1. UNCHANGED <<lpc, control, pong_late, spawnings, ec2_registered, faults>>
    BY <1>5 DEF DialBack, SessionRequest, tunnelVars
  <2>2. dialing' \in [Request -> {"none", "dialing", "session", "failed"}]
    BY <1>1, <1>5 DEF DialBack, SessionRequest, tunnelVars, LoopsTyped
  <2>3. SpawningsCounted'
    BY <2>1 DEF SpawningsCounted, Suspect
  <2> QED  BY <1>1, <1>2, <2>1, <2>2, <2>3 DEF LoopsTyped, FaultsTyped
<1> QED  BY <1>3, <1>4, <1>5 DEF TunnelNext, LoopRuns

\* The registration loops keep to their types; there are no more spawnings of peer
\* loops than faults to cause them, and one (run_tunnel_manager).
THEOREM TunnelStatesTyped == TunnelSpec => []TunnelTypeOK
<1>1. TunnelSpec => []TunnelTyped
  BY TunnelStartTyped, TunnelKeepsTypes, PTL DEF TunnelSpec
<1> QED  BY <1>1, TunnelTypesFollow, PTL

-----------------------------------------------------------------------------
(***************************************************************************)
(* What a proxied browser shows starts with a snapshot or with the first   *)
(* unit, and continues without hole or repetition, for any amount of       *)
(* output, any store and any queue of events.                              *)
(*                                                                         *)
(* The screen ends at sent_offset, where the next delta begins, unless a   *)
(* frame was dropped (ScreenAtOffset); behind a dropped frame the browser  *)
(* is shown nothing.  A browser that takes over a session begins with an   *)
(* empty screen and a channel without a gap (BeginsEmpty).                 *)
(***************************************************************************)

Frame == [kind : {"init", "full", "delta"}, from : Nat, to : Nat]
FromBrowser == {Handshake} \cup {Key(n) : n \in Nat} \cup {Http(r) : r \in HttpRequest}

\* What the argument needs of the types.
ProxyTypes ==
  /\ written \in Nat /\ typed \in Nat
  /\ sent_offset \in 0 .. written
  /\ from_browser \in Seq(FromBrowser)
  /\ shown \in Seq(Frame) /\ gap \in BOOLEAN /\ proxy_ready \in BOOLEAN

\* A browser begins with an empty screen and a channel without a gap.
BeginsEmpty == ~proxy_ready \/ dpc = "init" => shown = <<>> /\ ~gap
InitIsReady == dpc = "init" => proxy_ready

\* Where the last frame on the screen ends, unless a frame was dropped.
LastTo == IF shown = <<>> THEN 0 ELSE shown[Len(shown)].to
ScreenAtOffset == proxy_ready /\ dpc # "init" /\ ~gap => LastTo = sent_offset

ProxyIInv == ProxyTypes /\ BeginsEmpty /\ InitIsReady /\ ScreenAtOffset /\ ProxiedScreenWhole

LEMMA ProxyStart == ProxyInit => ProxyIInv
<1> SUFFICES ASSUME ProxyInit PROVE ProxyIInv
  OBVIOUS
<1>1. shown = <<>> /\ DOMAIN shown = {}
  BY DEF ProxyInit
<1>2. ProxyTypes
  <2>1. from_browser \in Seq(FromBrowser) /\ shown \in Seq(Frame)
    BY EmptySeq DEF ProxyInit
  <2>2. written \in Nat /\ typed \in Nat /\ sent_offset \in 0 .. written
    BY DEF ProxyInit
  <2>3. gap \in BOOLEAN /\ proxy_ready \in BOOLEAN
    BY DEF ProxyInit
  <2> QED
    BY <2>1, <2>2, <2>3 DEF ProxyTypes
<1>3. ProxiedScreenWhole
  BY <1>1 DEF ProxiedScreenWhole
<1> QED
  BY <1>2, <1>3 DEF ProxyInit, ProxyIInv, BeginsEmpty, InitIsReady, ScreenAtOffset, LastTo

(* What the steps do to the invariant *)

\* A step that shows nothing, and in which the session task stays where it is.
LEMMA ElsewhereKeepsScreen ==
  ASSUME ProxyIInv, UNCHANGED <<dpc, screenVars>>,
         written' \in Nat, written' >= written, typed' \in Nat,
         from_browser' \in Seq(FromBrowser)
  PROVE  ProxyIInv'
BY DEF ProxyIInv, ProxyTypes, BeginsEmpty, InitIsReady, ScreenAtOffset, LastTo,
       ProxiedScreenWhole, screenVars

\* A step of the session task that shows nothing, from and to other places than
\* the one before the first snapshot.
LEMMA TaskKeepsScreen ==
  ASSUME ProxyIInv, UNCHANGED <<written, typed, screenVars>>, dpc # "init", dpc' # "init",
         from_browser' \in Seq(FromBrowser)
  PROVE  ProxyIInv'
BY DEF ProxyIInv, ProxyTypes, BeginsEmpty, InitIsReady, ScreenAtOffset, LastTo,
       ProxiedScreenWhole, screenVars

\* A frame that starts where the screen ends, or starts it anew, may be shown.
LEMMA ShowKeepsScreen ==
  ASSUME ProxyIInv, NEW f \in Frame, Show(f), proxy_ready, dpc' # "init",
         UNCHANGED <<written, typed, from_browser, proxy_ready>>,
         sent_offset' = f.to, f.to \in 0 .. written,
         f.kind = "delta" /\ ~gap => f.from = LastTo,
         f.kind = "init" => ~gap
  PROVE  ProxyIInv'
<1>1. CASE shown' = Append(shown, f) /\ ~gap /\ UNCHANGED gap
  <2>1. /\ shown' \in Seq(Frame) /\ shown' # <<>> /\ Len(shown') = Len(shown) + 1
        /\ \A i \in 1 .. Len(shown) : shown'[i] = shown[i]
        /\ shown'[Len(shown) + 1] = f
    BY <1>1, AppendProperties DEF ProxyIInv, ProxyTypes
  <2>2. /\ Len(shown) \in Nat
        /\ DOMAIN shown = 1 .. Len(shown) /\ DOMAIN shown' = 1 .. Len(shown) + 1
    BY <2>1, LenProperties DEF ProxyIInv, ProxyTypes
  <2>3. shown = <<>> <=> Len(shown) = 0
    BY EmptySeq DEF ProxyIInv, ProxyTypes
  <2>4. ASSUME NEW i \in DOMAIN shown'
        PROVE  \/ shown'[i].kind \in {"init", "full"}
               \/ shown'[i].from = (IF i = 1 THEN 0 ELSE shown'[i - 1].to)
    <3>1. CASE i = Len(shown) + 1
      <4>1. shown'[i] = f
        BY <2>1, <3>1
      <4>2. IF i = 1 THEN LastTo = 0 ELSE LastTo = shown'[i - 1].to
        BY <2>1, <2>2, <2>3, <3>1 DEF LastTo
      <4> QED
        BY <1>1, <4>1, <4>2 DEF Frame
    <3>2. CASE i # Len(shown) + 1
      <4>1. i \in DOMAIN shown /\ shown'[i] = shown[i]
        BY <2>1, <2>2, <3>2
      <4>2. i # 1 => shown'[i - 1] = shown[i - 1]
        BY <2>1, <2>2, <4>1
      <4> QED
        BY <4>1, <4>2 DEF ProxyIInv, ProxiedScreenWhole
    <3> QED
      BY <3>1, <3>2
  <2>5. ProxiedScreenWhole'
    BY <2>4 DEF ProxiedScreenWhole
  <2>6. ScreenAtOffset'
    BY <2>1 DEF ScreenAtOffset, LastTo
  <2> QED
    BY <1>1, <2>1, <2>5, <2>6 DEF ProxyIInv, ProxyTypes, BeginsEmpty, InitIsReady
<1>2. CASE UNCHANGED shown /\ gap'
  BY <1>2 DEF ProxyIInv, ProxyTypes, BeginsEmpty, InitIsReady, ScreenAtOffset,
              ProxiedScreenWhole
<1> QED
  BY <1>1, <1>2 DEF Show, ProxyIInv, ProxyTypes

\* delta_msg: a delta starts at sent_offset, where the screen ends.
LEMMA DeltaKeepsScreen ==
  ASSUME ProxyIInv, SendDelta, proxy_ready, dpc = "select",
         UNCHANGED <<written, typed, from_browser, proxy_ready, dpc>>
  PROVE  ProxyIInv'
<1>1. CASE written <= sent_offset
  BY <1>1, TaskKeepsScreen DEF SendDelta, ProxyIInv, ProxyTypes, screenVars
<1>2. CASE ~(written <= sent_offset)
  <2> DEFINE kept == IF written < MaxKept THEN written ELSE MaxKept
             full == written - sent_offset > kept
             f == [kind |-> IF full THEN "full" ELSE "delta",
                   from |-> IF full THEN written - kept ELSE sent_offset,
                   to |-> written]
  <2>1. kept \in 0 .. written /\ written \in Nat /\ sent_offset \in Nat
    BY DaemonProxyAssumption DEF ProxyIInv, ProxyTypes
  <2>2. f \in Frame
    <3>1. written - kept \in Nat
      BY <2>1
    <3> QED
      BY <2>1, <3>1 DEF Frame
  <2>3. Show(f) /\ sent_offset' = written
    BY <1>2 DEF SendDelta
  <2>4. f.kind = "delta" /\ ~gap => f.from = LastTo
    BY DEF ProxyIInv, ScreenAtOffset
  <2>5. f.to \in 0 .. written /\ f.to = written /\ f.kind # "init"
    BY <2>1
  <2> HIDE DEF f
  <2> QED
    BY <2>2, <2>3, <2>4, <2>5, ShowKeepsScreen
<1> QED
  BY <1>1, <1>2

LEMMA EventKeepsScreen ==
  ASSUME ProxyIInv, TakeEvent
  PROVE  ProxyIInv'
<1>1. /\ dpc = "select" /\ UNCHANGED <<written, typed, from_browser, proxy_ready, dpc>>
      /\ \/ proxy_ready /\ SendDelta
         \/ UNCHANGED <<sent_offset, shown, gap>>
  BY DEF TakeEvent, LagCatchesUp, taskVars, fromBrowserVars
<1>2. CASE proxy_ready /\ SendDelta
  BY <1>1, <1>2, DeltaKeepsScreen
<1>3. CASE UNCHANGED <<sent_offset, shown, gap>>
  BY <1>1, <1>3, TaskKeepsScreen DEF ProxyIInv, ProxyTypes, screenVars
<1> QED
  BY <1>1, <1>2, <1>3

\* The next frame of the browser is none of our own.
LEMMA InboundKeepsScreen ==
  ASSUME ProxyIInv, TakeInbound
  PROVE  ProxyIInv'
<1>1. /\ dpc = "select" /\ from_browser # <<>> /\ from_browser' = Tail(from_browser)
      /\ dpc' = Head(from_browser).kind /\ UNCHANGED <<written, typed, screenVars>>
  BY DEF TakeInbound, outputVars
<1>2. Head(from_browser) \in FromBrowser /\ Tail(from_browser) \in Seq(FromBrowser)
  BY <1>1, HeadTailProperties DEF ProxyIInv, ProxyTypes
<1>3. dpc' # "init"
  BY <1>1, <1>2 DEF FromBrowser, Handshake, Key, Http
<1> QED
  BY <1>1, <1>2, <1>3, TaskKeepsScreen

\* A new browser: the screen is empty again, and so is the channel.
LEMMA ResetKeepsScreen ==
  ASSUME ProxyIInv, HandshakeResets
  PROVE  ProxyIInv'
<1>1. /\ dpc = "handshake" /\ ~proxy_ready' /\ shown' = <<>> /\ ~gap'
      /\ proxy_ready' \in BOOLEAN /\ gap' \in BOOLEAN
      /\ UNCHANGED <<written, typed, from_browser, sent_offset, dpc>>
  BY DEF HandshakeResets, outputVars, taskVars, fromBrowserVars
<1>2. DOMAIN shown' = {}
  BY <1>1
<1> QED
  BY <1>1, <1>2
  DEF ProxyIInv, ProxyTypes, BeginsEmpty, InitIsReady, ScreenAtOffset, ProxiedScreenWhole

LEMMA ConnectKeepsScreen ==
  ASSUME ProxyIInv, HandshakeConnects
  PROVE  ProxyIInv'
BY DEF ProxyIInv, ProxyTypes, BeginsEmpty, InitIsReady, ScreenAtOffset, ProxiedScreenWhole,
       HandshakeConnects, StepAt, outputVars, fromBrowserVars

LEMMA InitKeepsScreen ==
  ASSUME ProxyIInv, SendInitFrame
  PROVE  ProxyIInv'
<1>1. /\ dpc = "init" /\ dpc' # "init" /\ proxy_ready /\ shown = <<>> /\ ~gap
      /\ UNCHANGED <<written, typed, from_browser, proxy_ready>>
      /\ written \in Nat /\ sent_offset \in 0 .. written
  BY DEF SendInitFrame, StepAt, outputVars, fromBrowserVars, ProxyIInv, ProxyTypes,
         BeginsEmpty, InitIsReady
<1>2. CASE written = 0
  BY <1>1, <1>2
  DEF SendInitFrame, ProxyIInv, ProxyTypes, BeginsEmpty, InitIsReady, ScreenAtOffset,
      LastTo, ProxiedScreenWhole
<1>3. CASE written # 0
  <2> DEFINE f == [kind |-> "init",
                   from |-> IF written < MaxKept THEN 0 ELSE written - MaxKept,
                   to |-> written]
  <2>1. Show(f) /\ sent_offset' = f.to
    BY <1>3 DEF SendInitFrame, InitSetsOffset
  <2>2. f \in Frame /\ f.to \in 0 .. written /\ f.kind = "init"
    BY <1>1, DaemonProxyAssumption DEF Frame
  <2> HIDE DEF f
  <2> QED
    BY <1>1, <2>1, <2>2, ShowKeepsScreen
<1> QED
  BY <1>2, <1>3

LEMMA ScreenSteps == ProxyIInv /\ [ProxyNext]_proxyVars => ProxyIInv'
<1> SUFFICES ASSUME ProxyIInv, [ProxyNext]_proxyVars
             PROVE  ProxyIInv'
  OBVIOUS
<1>0. /\ written \in Nat /\ typed \in Nat /\ from_browser \in Seq(FromBrowser)
      /\ written >= written
  BY DEF ProxyIInv, ProxyTypes
<1>1. CASE Write
  BY <1>0, <1>1, ElsewhereKeepsScreen DEF Write, taskVars, fromBrowserVars
<1>2. CASE Announce \/ OtherEvent
  BY <1>0, <1>2, ElsewhereKeepsScreen DEF Announce, OtherEvent, taskVars, fromBrowserVars
<1>3. CASE SessionArm
  <2>1. CASE HandshakeFails \/ ForwardKey \/ HttpOverWs
    BY <1>0, <2>1, TaskKeepsScreen
    DEF HandshakeFails, ForwardKey, HttpOverWs, StepAt, outputVars, fromBrowserVars
  <2> QED
    BY <1>3, <2>1, EventKeepsScreen, InboundKeepsScreen, ResetKeepsScreen,
       ConnectKeepsScreen, InitKeepsScreen
    DEF SessionArm
<1>4. ASSUME NEW r \in HttpRequest, HttpResponse(r)
      PROVE  ProxyIInv'
  BY <1>0, <1>4, ElsewhereKeepsScreen DEF HttpResponse, outputVars, taskVars, fromBrowserVars
<1>5. ASSUME NEW r \in HttpRequest, BrowserAsks(r)
      PROVE  ProxyIInv'
  <2>1. Http(r) \in FromBrowser
    BY DEF FromBrowser
  <2>2. Append(from_browser, Http(r)) \in Seq(FromBrowser)
    BY <1>0, <2>1, AppendProperties
  <2> QED
    BY <1>0, <1>5, <2>2, ElsewhereKeepsScreen DEF BrowserAsks, outputVars, taskVars
<1>6. CASE LocalSend \/ LocalHeartbeat \/ LocalPing \/ LocalPinged \/ LocalRead \/ LocalBreaks
  BY <1>0, <1>6, ElsewhereKeepsScreen
  DEF LocalSend, LocalHeartbeat, LocalPing, LocalPinged, LocalRead, LocalBreaks,
      outputVars, taskVars, fromBrowserVars
<1>7. CASE BrowserHandshakes
  <2>1. Append(from_browser, Handshake) \in Seq(FromBrowser)
    BY <1>0, AppendProperties DEF FromBrowser
  <2> QED
    BY <1>0, <1>7, <2>1, ElsewhereKeepsScreen DEF BrowserHandshakes, outputVars, taskVars
<1>8. CASE BrowserTypes
  <2>1. Key(typed + 1) \in FromBrowser
    BY <1>0 DEF FromBrowser
  <2>2. Append(from_browser, Key(typed + 1)) \in Seq(FromBrowser)
    BY <1>0, <2>1, AppendProperties
  <2> QED
    BY <1>0, <1>8, <2>2, ElsewhereKeepsScreen DEF BrowserTypes, outputVars, taskVars
<1>9. CASE UNCHANGED proxyVars
  BY <1>0, <1>9, ElsewhereKeepsScreen DEF proxyVars, outputVars, taskVars, fromBrowserVars
<1> QED
  BY <1>1, <1>2, <1>3, <1>4, <1>5, <1>6, <1>7, <1>8, <1>9 DEF ProxyNext

\* What a browser shows starts with a snapshot or the first unit, and every
\* delta starts where the last one ended, through lags, browsers that take over
\* a session, dropped frames, and output written at any moment.
THEOREM ProxiedScreens == ProxySpec => []ProxiedScreenWhole
<1>1. ProxyInit => ProxyIInv
  BY ProxyStart
<1>2. ProxyIInv /\ [ProxyNext]_proxyVars => ProxyIInv'
  BY ScreenSteps
<1>3. ProxyIInv => ProxiedScreenWhole
  BY DEF ProxyIInv
<1> QED
  BY <1>1, <1>2, <1>3, PTL DEF ProxySpec

\* What the browser sends, and what of it the session task has in hand.
InboundFrame ==
  {Handshake} \cup {Key(n) : n \in 1..MaxKeys} \cup {Http(r) : r \in HttpRequest}
InboundTyped ==
  /\ from_browser \in Seq(InboundFrame) /\ inbound \in InboundFrame
  /\ dpc \in {"handshake", "key", "http"} => dpc = inbound.kind
ProxyTyped == ProxyTypeOK /\ InboundTyped

\* The frames by their kinds.
LEMMA InboundKinds ==
  \A f \in InboundFrame :
    /\ f.kind \in {"handshake", "key", "http"}
    /\ f.kind = "key" => f.n \in 1..MaxKeys
BY DEF InboundFrame, Handshake, Key, Http

LEMMA ProxyInitTyped == ProxyInit => ProxyTyped
<1> SUFFICES ASSUME ProxyInit  PROVE ProxyTyped
  OBVIOUS
<1>1. MaxWritten \in Nat /\ MaxKeys \in Nat /\ MaxHandshakes \in Nat /\ EventSlots \in Nat
      /\ MsgSlots \in Nat /\ SocketSlots \in Nat
  BY DaemonProxyAssumption
<1>2. Len(<<>>) = 0 /\ \A S : <<>> \in Seq(S)
  OBVIOUS
<1>3. Handshake \in InboundFrame
  BY DEF InboundFrame
<1>4. InboundTyped
  BY <1>2, <1>3 DEF ProxyInit, InboundTyped
<1>5. /\ <<>> \in Seq({"update", "other"}) /\ Len(<<>>) <= EventSlots
      /\ <<>> \in Seq(1..MaxKeys)
  BY <1>1, <1>2
<1>6. /\ 0 \in 0..MaxWritten /\ 0 \in 0..0 /\ 0 \in 0..MaxHandshakes /\ 0 \in 0..MaxKeys
      /\ 0 \in 0..SocketSlots /\ 0 \in 0..MsgSlots
  BY <1>1
<1> QED  BY <1>4, <1>5, <1>6 DEF ProxyInit, ProxyTyped, ProxyTypeOK

\* A store that is written to and read, a channel with a place in it, and a socket
\* that is opened and breaks, each within its bounds.
LEMMA ProxyKeepsTypes == ProxyTyped /\ [ProxyNext]_proxyVars => ProxyTyped'
<1> SUFFICES ASSUME ProxyTyped, [ProxyNext]_proxyVars  PROVE ProxyTyped'
  OBVIOUS
<1> DEFINE OutputTypes == /\ written \in 0..MaxWritten /\ announced \in 0..written
                          /\ lagged \in BOOLEAN
                          /\ sent_offset \in 0..written /\ gap \in BOOLEAN
                          /\ proxy_ready \in BOOLEAN
           EventTypes == events \in Seq({"update", "other"}) /\ Len(events) <= EventSlots
           FrameTypes == /\ dpc \in {"select", "handshake", "init", "key", "http"}
                         /\ InboundTyped
                         /\ handshakes \in 0..MaxHandshakes /\ typed \in 0..MaxKeys
           SocketTypes == /\ local_ws_tx \in {"none", "open", "broken"}
                          /\ local_in \in Seq(1..MaxKeys) /\ pty \in Seq(1..MaxKeys)
                          /\ local_out \in 0..SocketSlots /\ msg_tx \in 0..MsgSlots
                          /\ hloop \in {"select", "ping", "done"}
           HttpTypes == http \in [HttpRequest -> {"none", "asked", "pending", "answered",
                                                  "dropped"}]
           Types == OutputTypes /\ EventTypes /\ FrameTypes /\ SocketTypes /\ HttpTypes
<1>1. Types
  BY DEF ProxyTyped, ProxyTypeOK
<1>2. /\ MaxWritten \in Nat /\ MaxKeys \in Nat /\ MaxHandshakes \in Nat
      /\ EventSlots \in Nat \ {0} /\ MsgSlots \in Nat \ {0} /\ SocketSlots \in Nat
      /\ written \in Nat /\ typed \in Nat
  BY <1>1, DaemonProxyAssumption
<1>3. SUFFICES Types'
  BY DEF ProxyTyped, ProxyTypeOK
<1>4. ASSUME UNCHANGED proxyVars  PROVE Types'
  BY <1>1, <1>4
  DEF proxyVars, outputVars, taskVars, fromBrowserVars, screenVars, localVars, InboundTyped
<1>5. ASSUME NEW e \in {"update", "other"}, Broadcast(e)
      PROVE  EventTypes' /\ lagged' \in BOOLEAN
  <2>1. CASE Len(events) < EventSlots
    <3>1. events' = Append(events, e) /\ lagged' = lagged
      BY <1>5, <2>1 DEF Broadcast
    <3>2. /\ Append(events, e) \in Seq({"update", "other"})
          /\ Len(Append(events, e)) = Len(events) + 1 /\ Len(events) \in Nat
      BY <1>1, AppendProperties, LenProperties
    <3>3. Len(Append(events, e)) <= EventSlots
      BY <1>2, <2>1, <3>2
    <3>4. EventTypes'
      BY <3>1, <3>2, <3>3, Zenon
    <3>5. lagged' \in BOOLEAN
      BY <1>1, <3>1
    <3> QED  BY <3>4, <3>5, Zenon
  <2>2. CASE ~(Len(events) < EventSlots)
    <3>1. events # <<>> /\ Len(events) \in Nat /\ Len(events) = EventSlots
      BY <1>1, <1>2, <2>2, EmptySeq, LenProperties
    <3>2. Tail(events) \in Seq({"update", "other"}) /\ Len(Tail(events)) = EventSlots - 1
      BY <1>1, <3>1, HeadTailProperties
    <3>3. events' = Append(Tail(events), e) /\ lagged' = TRUE
      BY <1>5, <2>2 DEF Broadcast
    <3>4. /\ Append(Tail(events), e) \in Seq({"update", "other"})
          /\ Len(Append(Tail(events), e)) = Len(Tail(events)) + 1
      BY <3>2, AppendProperties
    <3>5. Len(Append(Tail(events), e)) <= EventSlots
      BY <1>2, <3>2, <3>4
    <3>6. EventTypes'
      BY <3>3, <3>4, <3>5, Zenon
    <3>7. lagged' \in BOOLEAN
      BY <3>3
    <3> QED  BY <3>6, <3>7, Zenon
  <2> QED  BY <2>1, <2>2
<1>6. ASSUME SendDelta, UNCHANGED written  PROVE sent_offset' \in 0..written /\ gap' \in BOOLEAN
  <2>1. CASE written <= sent_offset
    BY <1>1, <1>6, <2>1 DEF SendDelta
  <2>2. CASE ~(written <= sent_offset)
    <3>1. /\ sent_offset' = written
          /\ \E f : Show(f)
      BY <1>6, <2>2 DEF SendDelta
    <3>2. gap' \in BOOLEAN
      BY <1>1, <3>1 DEF Show
    <3> QED  BY <1>2, <3>1, <3>2
  <2> QED  BY <2>1, <2>2
<1>7. ASSUME Write  PROVE Types'
  BY <1>1, <1>2, <1>7
  DEF Write, taskVars, fromBrowserVars, screenVars, localVars, InboundTyped
<1>8. ASSUME Announce  PROVE Types'
  <2>1. EventTypes' /\ lagged' \in BOOLEAN
    BY <1>5, <1>8 DEF Announce
  <2>2. msg_tx' \in 0..MsgSlots
    BY <1>1, <1>2, <1>8 DEF Announce
  <2> QED
    BY <1>1, <1>2, <1>8, <2>1, <2>2
    DEF Announce, taskVars, fromBrowserVars, screenVars, InboundTyped
<1>9. ASSUME OtherEvent  PROVE Types'
  <2>1. EventTypes' /\ lagged' \in BOOLEAN
    BY <1>5, <1>9 DEF OtherEvent
  <2> QED
    BY <1>1, <1>9, <2>1
    DEF OtherEvent, taskVars, fromBrowserVars, screenVars, localVars, InboundTyped
<1>10. ASSUME TakeEvent  PROVE Types'
  <2>1. sent_offset' \in 0..written /\ gap' \in BOOLEAN
    BY <1>1, <1>6, <1>10 DEF TakeEvent, LagCatchesUp
  <2>2. EventTypes' /\ lagged' \in BOOLEAN
    <3>1. CASE lagged
      BY <1>1, <1>10, <3>1 DEF TakeEvent
    <3>2. CASE ~lagged
      <4>1. events # <<>> /\ events' = Tail(events) /\ lagged' = lagged
        BY <1>1, <1>10, <3>2 DEF TakeEvent
      <4>2. events' \in Seq({"update", "other"}) /\ Len(events') = Len(events) - 1
        BY <1>1, <4>1, HeadTailProperties
      <4> QED  BY <1>1, <1>2, <4>1, <4>2, LenProperties
    <3> QED  BY <3>1, <3>2
  <2> QED
    BY <1>1, <1>10, <2>1, <2>2
    DEF TakeEvent, taskVars, fromBrowserVars, localVars, InboundTyped
<1>11. ASSUME TakeInbound  PROVE Types'
  <2>1. inbound' \in InboundFrame /\ from_browser' \in Seq(InboundFrame)
    BY <1>1, <1>11, HeadTailProperties DEF TakeInbound, InboundTyped
  <2>2. dpc' = inbound'.kind /\ dpc' \in {"handshake", "key", "http"}
    BY <1>11, <2>1, InboundKinds DEF TakeInbound
  <2> QED
    BY <1>1, <1>11, <2>1, <2>2
    DEF TakeInbound, outputVars, screenVars, localVars, InboundTyped
<1>12. <<>> \in Seq(1..MaxKeys) /\ 0 \in 0..SocketSlots /\ 0 \in 0..MsgSlots
  BY <1>2
<1>13. ASSUME HandshakeResets \/ HandshakeConnects  PROVE Types'
  BY <1>1, <1>12, <1>13
  DEF HandshakeResets, HandshakeConnects, StepAt, outputVars, taskVars, fromBrowserVars,
      InboundTyped
<1>14. ASSUME HandshakeFails  PROVE Types'
  BY <1>1, <1>14
  DEF HandshakeFails, StepAt, outputVars, fromBrowserVars, screenVars, localVars, InboundTyped
<1>15. ASSUME SendInitFrame  PROVE Types'
  <2>1. sent_offset' \in 0..written /\ gap' \in BOOLEAN
    BY <1>1, <1>2, <1>15 DEF SendInitFrame, InitSetsOffset, Show
  <2> QED
    BY <1>1, <1>15, <2>1
    DEF SendInitFrame, StepAt, outputVars, fromBrowserVars, localVars, InboundTyped
<1>16. ASSUME ForwardKey  PROVE Types'
  <2>1. inbound.n \in 1..MaxKeys
    BY <1>1, <1>16, InboundKinds DEF ForwardKey, StepAt, InboundTyped
  <2>2. local_in' \in Seq(1..MaxKeys)
    BY <1>1, <1>16, <2>1, AppendProperties DEF ForwardKey
  <2> QED
    BY <1>1, <1>16, <2>2
    DEF ForwardKey, StepAt, outputVars, fromBrowserVars, screenVars, InboundTyped
<1>17. ASSUME HttpOverWs \/ \E r \in HttpRequest : HttpResponse(r)  PROVE Types'
  <2>1. HttpTypes'
    BY <1>1, <1>17 DEF HttpOverWs, HttpResponse, StartHttp
  <2> QED
    BY <1>1, <1>17, <2>1
    DEF HttpOverWs, HttpResponse, StepAt, outputVars, taskVars, fromBrowserVars, screenVars,
        localVars, InboundTyped
<1>18. ASSUME LocalSend \/ LocalHeartbeat \/ LocalPing \/ LocalPinged  PROVE Types'
  <2>1. /\ local_out' \in 0..SocketSlots /\ msg_tx' \in 0..MsgSlots
        /\ hloop' \in {"select", "ping", "done"}
    BY <1>1, <1>2, <1>18 DEF LocalSend, LocalHeartbeat, LocalPing, LocalPinged
  <2> QED
    BY <1>1, <1>18, <2>1
    DEF LocalSend, LocalHeartbeat, LocalPing, LocalPinged, outputVars, taskVars,
        fromBrowserVars, screenVars, InboundTyped
<1>19. ASSUME LocalRead  PROVE Types'
  <2>1. /\ 1 \in DOMAIN local_in /\ pty' = Append(pty, local_in[1])
        /\ local_in' = RemoveAt(local_in, 1)
    BY <1>19 DEF LocalRead, NextKey
  <2>2. Len(local_in) \in Nat /\ DOMAIN local_in = 1..Len(local_in)
    BY <1>1, LenProperties
  <2>3. local_in[1] \in 1..MaxKeys
    BY <1>1, <2>1, <2>2, ElementOfSeq
  <2>4. pty' \in Seq(1..MaxKeys)
    BY <1>1, <2>1, <2>3, AppendProperties
  <2>5. local_in' \in Seq(1..MaxKeys)
    <3>1. SubSeq(local_in, 1, 0) \in Seq(1..MaxKeys)
      BY <1>1
    <3>2. SubSeq(local_in, 2, Len(local_in)) \in Seq(1..MaxKeys)
      <4>1. 2 \in Int /\ Len(local_in) \in Int
        BY <2>2
      <4>2. \A i \in 2..Len(local_in) : local_in[i] \in 1..MaxKeys
        <5>1. \A i \in 2..Len(local_in) : i \in 1..Len(local_in)
          BY <2>2
        <5> QED  BY <1>1, <5>1, ElementOfSeq
      <4> QED  BY <4>1, <4>2, SubSeqProperties
    <3>3. SubSeq(local_in, 1, 0) \o SubSeq(local_in, 2, Len(local_in)) \in Seq(1..MaxKeys)
      BY <3>1, <3>2, ConcatProperties
    <3> QED  BY <2>1, <3>3 DEF RemoveAt
  <2> QED
    BY <1>1, <1>19, <2>4, <2>5
    DEF LocalRead, outputVars, taskVars, fromBrowserVars, screenVars, InboundTyped
<1>20. ASSUME LocalBreaks  PROVE Types'
  BY <1>1, <1>12, <1>20
  DEF LocalBreaks, outputVars, taskVars, fromBrowserVars, screenVars, InboundTyped
<1>21. ASSUME BrowserHandshakes  PROVE Types'
  <2>1. from_browser' \in Seq(InboundFrame)
    BY <1>1, <1>21, AppendProperties DEF BrowserHandshakes, InboundTyped, InboundFrame
  <2> QED
    BY <1>1, <1>2, <1>21, <2>1
    DEF BrowserHandshakes, outputVars, taskVars, screenVars, localVars, InboundTyped
<1>22. ASSUME BrowserTypes  PROVE Types'
  <2>1. typed + 1 \in 1..MaxKeys
    BY <1>1, <1>2, <1>22 DEF BrowserTypes
  <2>2. Key(typed + 1) \in InboundFrame
    BY <2>1 DEF InboundFrame
  <2>3. from_browser' \in Seq(InboundFrame)
    BY <1>1, <1>22, <2>2, AppendProperties DEF BrowserTypes, InboundTyped
  <2> QED
    BY <1>1, <1>2, <1>22, <2>1, <2>3
    DEF BrowserTypes, outputVars, taskVars, screenVars, localVars, InboundTyped
<1>23. ASSUME NEW r \in HttpRequest, BrowserAsks(r)  PROVE Types'
  <2>1. Http(r) \in InboundFrame
    BY DEF InboundFrame
  <2>2. from_browser' \in Seq(InboundFrame)
    BY <1>1, <1>23, <2>1, AppendProperties DEF BrowserAsks, InboundTyped
  <2> QED
    BY <1>1, <1>23, <2>2
    DEF BrowserAsks, outputVars, taskVars, screenVars, localVars, InboundTyped
<1> HIDE DEF Types
<1> QED
  BY <1>4, <1>7, <1>8, <1>9, <1>10, <1>11, <1>13, <1>14, <1>15, <1>16, <1>17, <1>18, <1>19,
     <1>20, <1>21, <1>22, <1>23
  DEF ProxyNext, SessionArm

\* The proxied session keeps to its types (run_daemon_session): no offset goes
\* beyond the output there is, and no queue beyond its capacity.
THEOREM ProxyStatesTyped == ProxySpec => []ProxyTypeOK
<1>1. ProxySpec => []ProxyTyped
  BY ProxyInitTyped, ProxyKeepsTypes, PTL DEF ProxySpec
<1>2. ProxyTyped => ProxyTypeOK
  BY DEF ProxyTyped
<1> QED  BY <1>1, <1>2, PTL

=============================================================================
