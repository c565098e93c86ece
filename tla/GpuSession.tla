----------------------------- MODULE GpuSession -----------------------------
(***************************************************************************)
(* One browser's session with the GPU worker over a dialed-back connection *)
(* (ControlTunnel): run_gpu_session and handle_session_frame of            *)
(* crates/b3-gpu-relay/src/main.rs, with the states of EncryptedChannel    *)
(* (crates/b3-reliable/src/crypto.rs).  The relay opens a connection to    *)
(* the worker, answers the browser's handshake, and hands on what the      *)
(* channel delivers; a connection on which a send failed is replaced       *)
(* before the next frame.  The session is one task, its readers are others.*)
(*                                                                         *)
(* The two nested channels number the same messages and are one here; that *)
(* a frame which was dropped comes again is what LossyLink shows of them.  *)
(* Encryption is abstract: a frame for which there is no key is ignored.   *)
(***************************************************************************)
EXTENDS Naturals, Sequences, FiniteSets, SequencesExt

CONSTANTS
  MaxSent,    \* bound: messages of the browser
  MaxConns    \* bound: connections to the worker

ASSUME GpuSessionAssumption == MaxSent \in Nat /\ MaxConns \in Nat \ {0}

VARIABLES
  browser,     \* "handshaking", "ready" or "gone"
  uplink,      \* frames from the browser; 0 is its handshake
  sent,        \* how many messages the browser has sent
  gpc,         \* the session task: next step
  frame,       \* the frame it handles
  delivered,   \* messages receive returned that are not yet handed on
  enc_ready,   \* EncryptedChannelState::Ready
  last_contiguous, reorder_buffer, \* the receiving end of the channel
  gpu_writer,  \* the worker connection messages go out on; 0: none
  gpu_reader,  \* the connection gpu_reader_handle reads; 0: none
  conn,        \* each connection: "none", "up" or "closed"
  got,         \* what the worker received on it
  unread,      \* the worker's answers not yet read from it
  gpu_to_ec2,  \* answers on their way through the session task
  results,     \* answers the browser has
  lost         \* messages handed to a connection that had closed, with the rest of
               \* what was delivered with them

browserVars == <<browser, uplink, sent>>
channelVars == <<enc_ready, last_contiguous, reorder_buffer>>
workerVars == <<gpu_writer, gpu_reader, conn, got, unread>>
answerVars == <<gpu_to_ec2, results>>
gpuSessionVars == <<browserVars, gpc, frame, delivered, channelVars, workerVars,
                    answerVars, lost>>

Conn == 1..MaxConns
TaskAt(here, next) == gpc = here /\ gpc' = next

----------------------------------------------------------------------------
(* The session task *)

\* A connection to the worker, and the reader of it.
OpenConn(c) ==
  /\ c \in Conn /\ conn[c] = "none" /\ \A d \in Conn : d < c => conn[d] # "none"
  /\ conn' = [conn EXCEPT ![c] = "up"]
  /\ gpu_writer' = c /\ gpu_reader' = c
  /\ UNCHANGED <<got, unread>>

\* The first attempt; the session goes on without.
InitialConnect ==
  /\ TaskAt("start", "select")
  /\ (\E c \in Conn : OpenConn(c)) \/ UNCHANGED workerVars
  /\ UNCHANGED <<browserVars, frame, delivered, channelVars, answerVars, lost>>

\* Mutant: a writer that was given up is never replaced.
NeedsConn == gpu_writer = 0 /\ ~enc_ready

\* A frame is handled only over a writer.
NeedsWriter == gpu_writer = 0

TakeFrame ==
  /\ gpc = "select" /\ uplink # <<>>
  /\ frame' = Head(uplink) /\ uplink' = Tail(uplink)
  /\ gpc' = IF NeedsWriter THEN "connect" ELSE "receive"
  /\ UNCHANGED <<browser, sent, delivered, channelVars, workerVars, answerVars, lost>>

ConnectForFrame ==
  /\ TaskAt("connect", "receive")
  /\ \E c \in Conn : OpenConn(c)
  /\ UNCHANGED <<browserVars, frame, delivered, channelVars, answerVars, lost>>

\* The frame is dropped before the channel sees it.
DropFrame == TaskAt("connect", "select")

ConnectForFrameFails ==
  /\ DropFrame
  /\ UNCHANGED <<browserVars, frame, delivered, channelVars, workerVars, answerVars, lost>>

\* enc.receive while handshaking: keys, then handshake_ok.
ReceiveHandshake ==
  /\ TaskAt("receive", "select") /\ ~enc_ready
  /\ enc_ready' = (frame = 0)
  /\ browser' = IF frame = 0 /\ browser = "handshaking" THEN "ready" ELSE browser
  /\ UNCHANGED <<uplink, sent, frame, delivered, last_contiguous, reorder_buffer,
                 workerVars, answerVars, lost>>

\* What the channel takes: a message it has not seen.
Taken(n) == n > last_contiguous /\ n \notin reorder_buffer

\* What follows last_contiguous without a gap, which the channel takes out of its
\* buffer one by one.
Following(waiting) ==
  {n \in waiting : n > last_contiguous /\ (last_contiguous + 1)..n \subseteq waiting}

\* Mutant: what was taken is not counted, and is taken again.
NotAdvanced(run) == last_contiguous

Advanced(run) == last_contiguous + Cardinality(run)

\* enc.receive and outer_rc.receive: the frame, and what waited for it.
ReceiveMessage ==
  /\ gpc = "receive" /\ enc_ready
  /\ IF Taken(frame)
     THEN LET waiting == reorder_buffer \cup {frame}
              run == Following(waiting)
          IN /\ gpc' = "deliver"
             /\ delivered' = [i \in 1..Cardinality(run) |-> last_contiguous + i]
             /\ last_contiguous' = Advanced(run)
             /\ reorder_buffer' = waiting \ run
     ELSE gpc' = "select" /\ UNCHANGED <<delivered, last_contiguous, reorder_buffer>>
  /\ UNCHANGED <<browserVars, frame, enc_ready, workerVars, answerVars, lost>>

GiveUpWriter == gpu_writer' = 0 /\ gpu_reader' = 0

\* One message goes to the worker.  Over a connection that has closed it may
\* seem to be sent; or the send fails, the writer is given up, and with it the
\* rest of what was delivered.
Deliver ==
  /\ gpc = "deliver" /\ delivered # <<>>
  /\ delivered' = Tail(delivered)
  /\ LET n == Head(delivered) IN
     \/ /\ gpu_writer # 0 /\ conn[gpu_writer] = "up"
        /\ got' = [got EXCEPT ![gpu_writer] = Append(@, n)]
        /\ UNCHANGED <<gpu_writer, gpu_reader, conn, unread, lost>>
     \/ /\ gpu_writer # 0 /\ conn[gpu_writer] = "closed"
        /\ lost' = lost \cup {n}
        /\ UNCHANGED workerVars
     \/ /\ gpu_writer # 0 /\ conn[gpu_writer] = "closed"
        /\ lost' = lost \cup ToSet(delivered)
        /\ GiveUpWriter
        /\ UNCHANGED <<conn, got, unread>>
     \/ /\ gpu_writer = 0
        /\ UNCHANGED <<workerVars, lost>>
  /\ UNCHANGED <<browserVars, gpc, frame, channelVars, answerVars>>

BatchDone ==
  /\ TaskAt("deliver", "select") /\ delivered = <<>>
  /\ UNCHANGED <<browserVars, frame, delivered, channelVars, workerVars, answerVars, lost>>

\* An answer; before the handshake it would be dropped.
TakeAnswer ==
  /\ gpc = "select" /\ gpu_to_ec2 # <<>>
  /\ gpu_to_ec2' = Tail(gpu_to_ec2)
  /\ results' = IF enc_ready THEN Append(results, Head(gpu_to_ec2)) ELSE results
  /\ UNCHANGED <<browserVars, gpc, frame, delivered, channelVars, workerVars, lost>>

\* The browser's side closed: the loop ends, the readers are aborted.
SessionEnds ==
  /\ gpc = "select" /\ browser = "gone" /\ uplink = <<>>
  /\ gpc' = "ended" /\ gpu_writer' = 0 /\ gpu_reader' = 0
  /\ UNCHANGED <<browserVars, frame, delivered, channelVars, conn, got, unread,
                 answerVars, lost>>

----------------------------------------------------------------------------
(* The worker (external), and the reader task *)

WorkerAnswers(c) ==
  /\ conn[c] = "up"
  /\ \E n \in ToSet(got[c]) :
       /\ n \notin ToSet(unread[c]) \cup ToSet(gpu_to_ec2) \cup ToSet(results)
       /\ unread' = [unread EXCEPT ![c] = Append(@, n)]
  /\ UNCHANGED <<browserVars, gpc, frame, delivered, channelVars, gpu_writer,
                 gpu_reader, conn, got, answerVars, lost>>

\* The worker closes after a job, or dies.
WorkerCloses(c) ==
  /\ conn[c] = "up"
  /\ conn' = [conn EXCEPT ![c] = "closed"]
  /\ UNCHANGED <<browserVars, gpc, frame, delivered, channelVars, gpu_writer,
                 gpu_reader, got, unread, answerVars, lost>>

ReaderForwards ==
  /\ gpu_reader # 0 /\ unread[gpu_reader] # <<>>
  /\ gpu_to_ec2' = Append(gpu_to_ec2, Head(unread[gpu_reader]))
  /\ unread' = [unread EXCEPT ![gpu_reader] = Tail(@)]
  /\ UNCHANGED <<browserVars, gpc, frame, delivered, channelVars, gpu_writer,
                 gpu_reader, conn, got, results, lost>>

\* The reader has read the close: it ends, and tells nobody.
ReaderSeesClose ==
  /\ gpu_reader # 0 /\ conn[gpu_reader] = "closed" /\ unread[gpu_reader] = <<>>
  /\ gpu_reader' = 0
  /\ UNCHANGED <<browserVars, gpc, frame, delivered, channelVars, gpu_writer, conn,
                 got, unread, answerVars, lost>>

----------------------------------------------------------------------------
(* The browser: GpuWorkerWS of browser/js/daemon-ws.js *)

BrowserSends ==
  /\ browser = "ready" /\ sent < MaxSent
  /\ sent' = sent + 1 /\ uplink' = Append(uplink, sent + 1)
  /\ UNCHANGED <<browser, gpc, frame, delivered, channelVars, workerVars, answerVars, lost>>

\* Its channel sends again what the relay's has not taken.
BrowserRetransmits ==
  /\ browser = "ready" /\ uplink = <<>> /\ gpc = "select"
  /\ \E n \in 1..sent : Taken(n) /\ uplink' = <<n>>
  /\ UNCHANGED <<browser, sent, gpc, frame, delivered, channelVars, workerVars, answerVars,
                 lost>>

\* No handshake_ok for 5 s, or the user leaves.
BrowserLeaves ==
  /\ browser # "gone" /\ browser' = "gone"
  /\ UNCHANGED <<uplink, sent, gpc, frame, delivered, channelVars, workerVars, answerVars,
                 lost>>

GpuInit ==
  /\ browser = "handshaking" /\ uplink = <<0>> /\ sent = 0
  /\ gpc = "start" /\ frame = 0 /\ delivered = <<>>
  /\ enc_ready = FALSE /\ last_contiguous = 0 /\ reorder_buffer = {}
  /\ gpu_writer = 0 /\ gpu_reader = 0
  /\ conn = [c \in Conn |-> "none"]
  /\ got = [c \in Conn |-> <<>>] /\ unread = [c \in Conn |-> <<>>]
  /\ gpu_to_ec2 = <<>> /\ results = <<>> /\ lost = {}

\* The session task, where it does not depend on the worker's being there.
SessionRuns ==
  InitialConnect \/ TakeFrame \/ ReceiveHandshake \/ ReceiveMessage \/ Deliver
    \/ BatchDone \/ TakeAnswer \/ SessionEnds

ReaderRuns == ReaderForwards \/ ReaderSeesClose

GpuNext ==
  \/ SessionRuns \/ ConnectForFrame \/ ConnectForFrameFails
  \/ \E c \in Conn : WorkerAnswers(c) \/ WorkerCloses(c)
  \/ ReaderRuns
  \/ BrowserSends \/ BrowserRetransmits \/ BrowserLeaves

GpuSpec == GpuInit /\ [][GpuNext]_gpuSessionVars

----------------------------------------------------------------------------
(* Properties *)

\* All the worker got, on whatever connection.
WorkerGot == UNION {ToSet(got[c]) : c \in Conn}

\* The type invariant; only the connection messages go out on is read.
GpuTypeOK ==
  /\ browser \in {"handshaking", "ready", "gone"}
  /\ uplink \in Seq(0..MaxSent) /\ sent \in 0..MaxSent
  /\ gpc \in {"start", "select", "connect", "receive", "deliver", "ended"}
  /\ frame \in 0..MaxSent /\ delivered \in Seq(1..MaxSent)
  /\ enc_ready \in BOOLEAN
  /\ last_contiguous \in 0..MaxSent /\ reorder_buffer \subseteq 1..MaxSent
  /\ gpu_writer \in Conn \cup {0} /\ gpu_reader \in {gpu_writer, 0}
  /\ conn \in [Conn -> {"none", "up", "closed"}]
  /\ got \in [Conn -> Seq(1..MaxSent)] /\ unread \in [Conn -> Seq(1..MaxSent)]
  /\ gpu_to_ec2 \in Seq(1..MaxSent) /\ results \in Seq(1..MaxSent)
  /\ lost \subseteq 1..MaxSent

\* The worker gets the messages in the order they were sent, each at most once,
\* whatever connections it got them on and however often they were sent again.
WorkerInOrder ==
  \A c, d \in Conn : \A i \in DOMAIN got[c], j \in DOMAIN got[d] :
    c < d \/ (c = d /\ i < j) => got[c][i] < got[d][j]

\* A message reaches the worker, or a connection that had closed took it,
\* unless the browser leaves or the worker stays away.
SentIsDelivered ==
  \A n \in 1..MaxSent :
    sent >= n ~> (n \in WorkerGot \/ n \in lost \/ browser = "gone"
                    \/ conn[MaxConns] = "closed")

=============================================================================
