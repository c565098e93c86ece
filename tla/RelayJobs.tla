----------------------------- MODULE RelayJobs -----------------------------
(***************************************************************************)
(* Jobs through the GPU relay (crates/b3-gpu-relay/src/main.rs).  The      *)
(* handler of each browser's WebSocket notes which session a job came from *)
(* and forwards it on the one connection to the GPU worker; the readers of *)
(* the connections route each answer by the job's id; a loop replaces a    *)
(* connection that ended.  Handlers, readers and the loop are tasks; every *)
(* await between two shared accesses is a step boundary.                   *)
(*                                                                         *)
(* The channel of a session hands a job over once and keeps answers until  *)
(* the browser takes them (LossyLink, ResumeLink); sessions come and go as *)
(* RelaySessions says, here at any time.  Echo, pong and rtc_inactive      *)
(* messages touch nothing the properties tell apart; a text message is a   *)
(* batch of one.                                                           *)
(***************************************************************************)
EXTENDS Naturals, Sequences, FiniteSets, SequencesExt

CONSTANTS
  Client,     \* browsers, by their session ids; RelaySessions lets each have
              \* one handler
  Job,        \* bound: the jobs ever submitted
  MaxLinks,   \* bound: the connections to the GPU worker ever opened
  MaxPartials, \* bound: the partial results under way on one connection
  NoClient

ASSUME RelayJobsAssumption ==
  /\ MaxLinks \in Nat \ {0} /\ MaxPartials \in Nat
  /\ NoClient \notin Client /\ IsFiniteSet(Job)

VARIABLES
  registered,       \* the session ids the SessionManager knows
  jpc,              \* the read loop of each handler: next step
  batch,            \* messages receive returned that are not yet forwarded
  pending_requests, \* job id -> session id
  gpu_tx,           \* the GPU connection jobs are forwarded on
  links,            \* how many GPU connections were opened
  link,             \* each connection: "none", "up", "silent" or "closed"
  gpu_ws_reader,    \* its reader: "none", "reading" or "ended"
  awaiting,         \* the reader the reconnect loop waits for; 0: it connects
  answers,          \* from the worker, under way on each connection
  stage,            \* of a job
  owner,            \* the browser that submitted it
  worker_link,      \* the connection it went out on
  told              \* the sessions that were given an answer to it

handlerVars == <<jpc, batch>>
linkVars == <<gpu_tx, links, link, gpu_ws_reader, awaiting>>
jobVars == <<pending_requests, stage, owner, worker_link, told>>
jobsVars == <<registered, handlerVars, linkVars, answers, jobVars>>

Link == 1..MaxLinks
ForwarderAt(c, here, next) == jpc[c] = here /\ jpc' = [jpc EXCEPT ![c] = next]

----------------------------------------------------------------------------
(* Browser to worker: the read loop of handle_browser_ws *)

\* receive returns one message or, when a gap fills, several.
ReceiveJobs(c) ==
  /\ jpc[c] = "loop" /\ batch[c] = <<>>
  /\ \E J \in SUBSET {j \in Job : stage[j] = "new"} :
       /\ J # {}
       /\ \E s \in SetToSeqs(J) : batch' = [batch EXCEPT ![c] = s]
       /\ stage' = [j \in Job |-> IF j \in J THEN "received" ELSE stage[j]]
       /\ owner' = [j \in Job |-> IF j \in J THEN c ELSE owner[j]]
  /\ UNCHANGED <<registered, jpc, linkVars, answers,
                 pending_requests, worker_link, told>>

\* The job is noted before it is forwarded: its answer may come at once.
Track(c) ==
  /\ batch[c] # <<>>
  /\ ForwarderAt(c, "loop", "forward")
  /\ pending_requests' = [pending_requests EXCEPT ![Head(batch[c])] = c]
  /\ UNCHANGED <<registered, batch, linkVars, answers, stage, owner,
                 worker_link, told>>

\* The job goes out on gpu_tx.  On a connection that has broken the send may
\* still succeed, into the socket's buffer.
Forward(c) ==
  /\ ForwarderAt(c, "forward", "loop")
  /\ batch' = [batch EXCEPT ![c] = Tail(@)]
  /\ LET j == Head(batch[c]) IN
       /\ stage' = [stage EXCEPT
            ![j] = IF link[gpu_tx] = "up" THEN "running" ELSE "lost"]
       /\ worker_link' = [worker_link EXCEPT ![j] = gpu_tx]
  /\ UNCHANGED <<registered, linkVars, answers,
                 pending_requests, owner, told>>

\* Mutant: the handler stops, and leaves its batch.
ForwardFailsAlone(c) ==
  /\ link[gpu_tx] # "up"
  /\ ForwarderAt(c, "forward", "done")
  /\ UNCHANGED <<registered, batch, linkVars, answers, jobVars>>

\* The send fails: the handler gives up its WebSocket, and with it the rest of
\* the batch, which the channel has acked.
ForwardFails(c) ==
  /\ link[gpu_tx] # "up"
  /\ ForwarderAt(c, "forward", "done")
  /\ stage' = [j \in Job |-> IF j \in ToSet(batch[c]) THEN "lost" ELSE stage[j]]
  /\ batch' = [batch EXCEPT ![c] = <<>>]
  /\ UNCHANGED <<registered, linkVars, answers,
                 pending_requests, owner, worker_link, told>>

----------------------------------------------------------------------------
(* The connections to the GPU worker *)

\* The reconnect loop of main connects, whether or not the connection main
\* opened first still works, and then waits for its own reader only.
ConnectGpu ==
  /\ awaiting = 0 /\ links < MaxLinks
  /\ links' = links + 1
  /\ link' = [link EXCEPT ![links + 1] = "up"]
  /\ gpu_ws_reader' = [gpu_ws_reader EXCEPT ![links + 1] = "reading"]
  /\ gpu_tx' = links + 1
  /\ awaiting' = links + 1
  /\ UNCHANGED <<registered, handlerVars, answers, jobVars>>

ReaderReturns ==
  /\ awaiting # 0 /\ gpu_ws_reader[awaiting] = "ended"
  /\ awaiting' = 0
  /\ UNCHANGED <<registered, handlerVars, gpu_tx, links, link, gpu_ws_reader,
                 answers, jobVars>>

\* The jobs of a connection end with it; it closes, or falls silent.
LinkBreaks(l) ==
  /\ link[l] = "up"
  /\ \E s \in {"closed", "silent"} : link' = [link EXCEPT ![l] = s]
  /\ stage' = [j \in Job |->
       IF stage[j] = "running" /\ worker_link[j] = l THEN "lost" ELSE stage[j]]
  /\ UNCHANGED <<registered, handlerVars, gpu_tx, links, gpu_ws_reader, awaiting,
                 answers, pending_requests, owner, worker_link, told>>

----------------------------------------------------------------------------
(* Worker to browser: gpu_ws_reader *)

\* A partial result of a stream: a "result" under the stream's id with
\* "-partial-n" appended.
Partial(l, j) ==
  /\ link[l] = "up" /\ Len(answers[l]) < MaxPartials
  /\ stage[j] = "running" /\ worker_link[j] = l
  /\ answers' = [answers EXCEPT ![l] = Append(@, [job |-> j, kind |-> "partial"])]
  /\ UNCHANGED <<registered, handlerVars, linkVars, jobVars>>

\* The last answer: "done", "error" or "result" under the job's id.
Finish(l, j) ==
  /\ link[l] = "up" /\ stage[j] = "running" /\ worker_link[j] = l
  /\ answers' = [answers EXCEPT ![l] = Append(@, [job |-> j, kind |-> "final"])]
  /\ stage' = [stage EXCEPT ![j] = "answering"]
  /\ UNCHANGED <<registered, handlerVars, linkVars, pending_requests, owner, worker_link,
                 told>>

\* The key under which an answer is found: its id, or a prefix of it.
Target(m) == pending_requests[m.job]

\* Mutant: an answer whose own id is no key goes to all sessions.
TargetsOrAll(m) ==
  IF m.kind = "partial" THEN registered
  ELSE {Target(m)} \cap registered

\* The sessions an answer is put into: the one it belongs to, if still there.
Targets(m) == {Target(m)} \cap registered

\* is_final_response holds of the partial results of a stream too, but their
\* own ids are not keys.
EndsTracking(m) == m.kind = "final"

ReadAnswer(l) ==
  /\ gpu_ws_reader[l] = "reading" /\ answers[l] # <<>>
  /\ LET m == Head(answers[l]) IN
       /\ told' = [told EXCEPT ![m.job] = @ \cup Targets(m)]
       /\ pending_requests' = [pending_requests EXCEPT
            ![m.job] = IF EndsTracking(m) THEN NoClient ELSE @]
       /\ stage' = [stage EXCEPT
            ![m.job] = IF m.kind # "final" THEN @
                       ELSE IF Targets(m) # {} THEN "answered" ELSE "lost"]
  /\ answers' = [answers EXCEPT ![l] = Tail(@)]
  /\ UNCHANGED <<registered, handlerVars, linkVars, owner, worker_link>>

\* The connection closes, or nothing came for 30 s (the worker pings every 5 s).
ReaderEnds(l) ==
  /\ gpu_ws_reader[l] = "reading" /\ answers[l] = <<>>
  /\ link[l] \in {"closed", "silent"}
  /\ gpu_ws_reader' = [gpu_ws_reader EXCEPT ![l] = "ended"]
  /\ UNCHANGED <<registered, handlerVars, gpu_tx, links, link, awaiting, answers,
                 jobVars>>

----------------------------------------------------------------------------
(* Sessions come and go (external to this module: RelaySessions). *)

SessionRemoved(id) ==
  /\ registered' = registered \ {id}
  /\ UNCHANGED <<handlerVars, linkVars, answers, jobVars>>

SessionCreated(id) ==
  /\ registered' = registered \cup {id}
  /\ UNCHANGED <<handlerVars, linkVars, answers, jobVars>>

\* main serves browsers once its first connection to the worker stands.
JobsInit ==
  /\ registered = {}
  /\ jpc = [c \in Client |-> "loop"]
  /\ batch = [c \in Client |-> <<>>]
  /\ pending_requests = [j \in Job |-> NoClient]
  /\ gpu_tx = 1 /\ links = 1 /\ awaiting = 0
  /\ link = [l \in Link |-> IF l = 1 THEN "up" ELSE "none"]
  /\ gpu_ws_reader = [l \in Link |-> IF l = 1 THEN "reading" ELSE "none"]
  /\ answers = [l \in Link |-> <<>>]
  /\ stage = [j \in Job |-> "new"]
  /\ owner = [j \in Job |-> NoClient] /\ worker_link = [j \in Job |-> 0]
  /\ told = [j \in Job |-> {}]

ForwardBatch(c) == Track(c) \/ Forward(c) \/ ForwardFails(c)
ReadGpu(l) == ReadAnswer(l) \/ ReaderEnds(l)
Reconnect == ConnectGpu \/ ReaderReturns

JobsNext ==
  \/ \E c \in Client : ReceiveJobs(c) \/ ForwardBatch(c)
  \/ \E l \in Link : LinkBreaks(l) \/ ReadGpu(l)
  \/ \E l \in Link, j \in Job : Partial(l, j) \/ Finish(l, j)
  \/ Reconnect
  \/ \E id \in Client : SessionRemoved(id) \/ SessionCreated(id)

JobsSpec == JobsInit /\ [][JobsNext]_jobsVars

----------------------------------------------------------------------------
(* Properties *)

\* The type invariant.
JobsTypeOK ==
  /\ registered \subseteq Client
  /\ jpc \in [Client -> {"loop", "forward", "done"}]
  /\ batch \in [Client -> Seq(Job)]
  /\ pending_requests \in [Job -> Client \cup {NoClient}]
  /\ gpu_tx \in Link /\ links \in Link /\ awaiting \in Link \cup {0}
  /\ link \in [Link -> {"none", "up", "silent", "closed"}]
  /\ gpu_ws_reader \in [Link -> {"none", "reading", "ended"}]
  /\ answers \in [Link -> Seq([job : Job, kind : {"partial", "final"}])]
  /\ stage \in [Job -> {"new", "received", "running", "answering",
                        "answered", "lost"}]
  /\ owner \in [Job -> Client \cup {NoClient}]
  /\ worker_link \in [Job -> Link \cup {0}]
  /\ told \in [Job -> SUBSET Client]

\* main.rs:153 ("Do NOT broadcast to all sessions"): an answer is given to the
\* session of the browser that submitted the job and to no other, whatever
\* sessions were removed and created meanwhile.
AnswersReachOwner == \A j \in Job : told[j] \subseteq {owner[j]}

\* A job the relay has acked ends: its last answer reaches the session, or the
\* connection, the forwarding handler or the session went away.
ReceivedJobEnds ==
  \A j \in Job : stage[j] = "received" ~> stage[j] \in {"answered", "lost"}

=============================================================================
