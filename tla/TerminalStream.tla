--------------------------- MODULE TerminalStream ---------------------------
(***************************************************************************)
(* From the PTY to a browser's screen (daemon/web.rs): the local pusher    *)
(* puts output into the SessionStore and announces it on the EventChannel; *)
(* the handler of a new session sends a snapshot of the store, remembers   *)
(* up to where, and subscribes; the event consumer turns announcements     *)
(* into deltas; the browser (ws.js) appends them.                          *)
(*                                                                         *)
(* A byte of output is named by its offset, a piece of output is the       *)
(* interval (from, to].  One WebSocket of one new session, for as long as  *)
(* it is open: reconnects are ResumeLink's.  A frame the sink refuses is   *)
(* not replayed (deltas are BestEffort), and the browser's channel holds   *)
(* back whatever is not the next number.  The messages of other events,    *)
(* the terminal's size, and the PTY output the pusher itself misses (it    *)
(* has no offset) are left out.                                            *)
(***************************************************************************)
EXTENDS Naturals, Sequences

CONSTANTS
  MaxBuffer,    \* MAX_BUFFER_BYTES, the output the store keeps
  MaxInit,      \* MAX_WS_INIT_BYTES
  MaxDeltaCap,  \* MAX_DELTA_CAP
  Capacity,     \* events the broadcast channel keeps for a receiver
  MaxLags,      \* consecutive lags that end a consumer
  SinkDrops,    \* BOOLEAN: the WebSocket's queue may be full
  MaxOutput,    \* bound: bytes the PTY puts out
  MaxOther      \* bound: other events on the channel

ASSUME SizeAssumption ==
  /\ MaxBuffer \in Nat \ {0} /\ MaxInit \in Nat \ {0} /\ MaxDeltaCap \in Nat
  /\ Capacity \in Nat \ {0} /\ MaxLags \in Nat \ {0}
  /\ MaxOutput \in Nat /\ MaxOther \in Nat
ASSUME DropsAssumption == SinkDrops \in BOOLEAN

\* web.rs and limits.rs: both are 256 KB.
ASSUME CapAssumption == MaxBuffer <= MaxDeltaCap

VARIABLES
  write_offset, \* the pusher's count of the output it has accumulated
  pusher,       \* collecting, or about to announce what it stored
  store,        \* the stored write_offset, 0 before the first update
  other,        \* other events sent so far
  handler,      \* the next step of handle_terminal_ws
  snapshot,     \* the handler's copy of the store's offset
  sent_offset,
  consumer,     \* the next step of the event consumer
  events,       \* its receiver: announcements and other events, oldest first
  lagged,       \* events were overwritten since it last received
  lags,         \* consecutive_lags
  pending,      \* the message it is about to emit
  next_seq,     \* of the daemon's channel
  wire,         \* what is under way to the browser
  last_contiguous, \* of the browser's channel
  screen        \* the pieces of output on the browser's screen

pusherVars == <<write_offset, pusher, store, other>>
consumerVars == <<consumer, events, lagged, lags, pending>>
browserVars == <<last_contiguous, screen>>
vars == <<pusherVars, handler, snapshot, sent_offset, consumerVars,
          next_seq, wire, browserVars>>

Message == [type : {"init", "delta", "full"}, from : Nat, to : Nat, seq : Nat]

Least(a, b) == IF a < b THEN a ELSE b

\* The bytes the store holds when its offset is o.
BufLen(o) == Least(o, MaxBuffer)

\* Where n bytes of output that end at o begin.
Start(o, n) == o - n

----------------------------------------------------------------------------
(* The broadcast channel: the oldest event makes room. *)

Broadcast(e) ==
  IF consumer \in {"none", "killed"} THEN UNCHANGED <<events, lagged>>
  ELSE IF Len(events) < Capacity
  THEN events' = Append(events, e) /\ UNCHANGED lagged
  ELSE events' = Append(Tail(events), e) /\ lagged' = TRUE

----------------------------------------------------------------------------
(* The local pusher *)

\* PTY output arrives, the first piece or during the debounce.
Output ==
  /\ pusher = "collect"
  /\ \E n \in 1 .. MaxOutput - write_offset : write_offset' = write_offset + n
  /\ UNCHANGED <<pusher, store, other, handler, snapshot, sent_offset,
                 consumerVars, next_seq, wire, browserVars>>

Update ==
  /\ pusher = "collect"
  /\ write_offset > store
  /\ store' = write_offset
  /\ pusher' = "announce"
  /\ UNCHANGED <<write_offset, other, handler, snapshot, sent_offset,
                 consumerVars, next_seq, wire, browserVars>>

Announce ==
  /\ pusher = "announce"
  /\ pusher' = "collect"
  /\ Broadcast("updated")
  /\ UNCHANGED <<write_offset, store, other, handler, snapshot, sent_offset,
                 consumer, lags, pending, next_seq, wire, browserVars>>

\* Any other event of the agent.
OtherEvent ==
  /\ other < MaxOther
  /\ other' = other + 1
  /\ Broadcast("other")
  /\ UNCHANGED <<write_offset, pusher, store, handler, snapshot, sent_offset,
                 consumer, lags, pending, next_seq, wire, browserVars>>

----------------------------------------------------------------------------
(* The handler *)

\* The last MaxInit bytes go out as a text message; without a store none does.
SendInit ==
  /\ handler = "init"
  /\ handler' = "offset"
  /\ snapshot' = store
  /\ wire' = IF store = 0 THEN wire
             ELSE Append(wire, [type |-> "init", to |-> store, seq |-> 0,
                    from |-> Start(store, Least(BufLen(store), MaxInit))])
  /\ UNCHANGED <<pusherVars, sent_offset, consumerVars, next_seq, browserVars>>

\* Mutant: the offset is read from the store again.
SetOffsetAfresh ==
  /\ handler = "offset"
  /\ handler' = "consume"
  /\ sent_offset' = store
  /\ UNCHANGED <<pusherVars, snapshot, consumerVars, next_seq, wire, browserVars>>

SetOffset ==
  /\ handler = "offset"
  /\ handler' = "consume"
  /\ sent_offset' = IF snapshot = 0 THEN sent_offset ELSE snapshot
  /\ UNCHANGED <<pusherVars, snapshot, consumerVars, next_seq, wire, browserVars>>

\* The sink is attached and the event consumer subscribes; it waits at the gate.
StartConsumer ==
  /\ handler = "consume"
  /\ handler' = "loop"
  /\ consumer' = "gated"
  /\ UNCHANGED <<pusherVars, snapshot, sent_offset, events, lagged, lags, pending,
                 next_seq, wire, browserVars>>

----------------------------------------------------------------------------
(* The event consumer *)

\* A frame of the browser, or 5 s.
GateOpens ==
  /\ consumer = "gated"
  /\ consumer' = "recv"
  /\ UNCHANGED <<pusherVars, handler, snapshot, sent_offset, events, lagged, lags,
                 pending, next_seq, wire, browserVars>>

Receive ==
  /\ consumer = "recv" /\ ~lagged
  /\ events # <<>>
  /\ events' = Tail(events)
  /\ lags' = 0
  /\ consumer' = IF Head(events) = "updated" THEN "compute" ELSE "recv"
  /\ UNCHANGED <<pusherVars, handler, snapshot, sent_offset, lagged, pending,
                 next_seq, wire, browserVars>>

\* Mutant: what was missed is logged and passed over, as the pusher does.
PassOverLag ==
  /\ consumer = "recv" /\ lagged
  /\ lagged' = FALSE
  /\ lags' = lags + 1
  /\ consumer' = IF lags + 1 >= MaxLags THEN "killed" ELSE "recv"
  /\ UNCHANGED <<pusherVars, handler, snapshot, sent_offset, events, pending,
                 next_seq, wire, browserVars>>

\* Mutant: one lag too many is forgiven.
ForgiveLag ==
  /\ consumer = "recv" /\ lagged
  /\ lagged' = FALSE
  /\ lags' = lags + 1
  /\ consumer' = IF lags >= MaxLags THEN "killed" ELSE "compute"
  /\ UNCHANGED <<pusherVars, handler, snapshot, sent_offset, events, pending,
                 next_seq, wire, browserVars>>

\* The receiver has been overtaken: one delta makes up for all it missed.
ReceiveLagged ==
  /\ consumer = "recv" /\ lagged
  /\ lagged' = FALSE
  /\ lags' = lags + 1
  /\ consumer' = IF lags + 1 >= MaxLags THEN "killed" ELSE "compute"
  /\ UNCHANGED <<pusherVars, handler, snapshot, sent_offset, events, pending,
                 next_seq, wire, browserVars>>

\* delta_msg: what is new since prev if the store still holds all of it, else
\* all that the store holds.
DeltaMsg(prev) ==
  LET new == store - prev
      full == new > BufLen(store) IN
  [type |-> IF full THEN "full" ELSE "delta",
   from |-> Start(store, Least(IF full THEN BufLen(store) ELSE new, MaxDeltaCap)),
   to |-> store,
   seq |-> 0]

Compute ==
  /\ consumer = "compute"
  /\ IF store > sent_offset
     THEN /\ pending' = DeltaMsg(sent_offset)
          /\ sent_offset' = store
          /\ consumer' = "emit"
     ELSE /\ consumer' = "recv"
          /\ UNCHANGED <<pending, sent_offset>>
  /\ UNCHANGED <<pusherVars, handler, snapshot, events, lagged, lags,
                 next_seq, wire, browserVars>>

\* Through the bridge into the channel, which numbers the frame, and into the
\* sink's queue unless that is full.
Emit ==
  /\ consumer = "emit"
  /\ consumer' = "recv"
  /\ next_seq' = next_seq + 1
  /\ \/ wire' = Append(wire, [pending EXCEPT !.seq = next_seq])
     \/ SinkDrops /\ UNCHANGED wire
  /\ UNCHANGED <<pusherVars, handler, snapshot, sent_offset, events, lagged, lags,
                 pending, browserVars>>

----------------------------------------------------------------------------
(* The browser *)

\* A snapshot replaces the screen and resets the browser's channel, whether it
\* came as text or through the channel.
ShowSnapshot(m) ==
  /\ screen' = <<m>>
  /\ last_contiguous' = 0

\* A delta is appended.
ShowDelta(m) ==
  /\ screen' = Append(screen, m)
  /\ last_contiguous' = m.seq

\* A frame that is not the next one waits in the reorder buffer; in a FIFO the
\* gap before it is never filled.
Hold == UNCHANGED browserVars

BrowserReceive ==
  /\ wire # <<>>
  /\ wire' = Tail(wire)
  /\ LET m == Head(wire) IN
       CASE m.type = "init" -> ShowSnapshot(m)
         [] m.seq # last_contiguous + 1 /\ m.type # "init" -> Hold
         [] m.seq = last_contiguous + 1 /\ m.type = "full" -> ShowSnapshot(m)
         [] m.seq = last_contiguous + 1 /\ m.type = "delta" -> ShowDelta(m)
  /\ UNCHANGED <<pusherVars, handler, snapshot, sent_offset, consumerVars, next_seq>>

----------------------------------------------------------------------------

Init ==
  /\ write_offset = 0 /\ pusher = "collect" /\ store = 0 /\ other = 0
  /\ handler = "init" /\ snapshot = 0 /\ sent_offset = 0
  /\ consumer = "none" /\ events = <<>> /\ lagged = FALSE /\ lags = 0
  /\ pending = [type |-> "delta", from |-> 0, to |-> 0, seq |-> 0]
  /\ next_seq = 1 /\ wire = <<>>
  /\ last_contiguous = 0 /\ screen = <<>>

Next ==
  \/ Output \/ Update \/ Announce \/ OtherEvent
  \/ SendInit \/ SetOffset \/ StartConsumer
  \/ GateOpens \/ Receive \/ ReceiveLagged \/ Compute \/ Emit
  \/ BrowserReceive

Spec == Init /\ [][Next]_vars

\* The tasks run and the WebSocket delivers; nothing need happen at the agent.
Fairness ==
  /\ WF_vars(Update) /\ WF_vars(Announce)
  /\ WF_vars(SendInit) /\ WF_vars(SetOffset) /\ WF_vars(StartConsumer)
  /\ WF_vars(GateOpens) /\ WF_vars(Receive) /\ WF_vars(ReceiveLagged)
  /\ WF_vars(Compute) /\ WF_vars(Emit)
  /\ WF_vars(BrowserReceive)

FairSpec == Spec /\ Fairness

----------------------------------------------------------------------------
(* Properties *)

\* The type invariant.
TypeOK ==
  /\ write_offset \in Nat /\ store \in Nat /\ other \in 0 .. MaxOther
  /\ pusher \in {"collect", "announce"}
  /\ handler \in {"init", "offset", "consume", "loop"}
  /\ snapshot \in Nat /\ sent_offset \in Nat
  /\ snapshot <= store /\ sent_offset <= store /\ store <= write_offset
  /\ consumer \in {"none", "gated", "recv", "compute", "emit", "killed"}
  /\ events \in Seq({"updated", "other"})
  /\ lagged \in BOOLEAN /\ lags \in 0 .. MaxLags
  /\ pending \in Message
  /\ next_seq \in Nat \ {0}
  /\ wire \in Seq(Message)
  /\ last_contiguous \in Nat
  /\ screen \in Seq(Message)

\* The output on the screen has no hole and no repetition: every piece starts
\* where the one before it ends, whatever output came while the snapshot was
\* sent, whichever announcements were missed, whatever the sink dropped and
\* however far the consumer fell behind.
ScreenContiguous ==
  \A i \in 1 .. Len(screen) - 1 : screen[i + 1].from = screen[i].to

\* What is stored once the consumer has subscribed is handed to the channel,
\* also when its announcement was overwritten by later events, unless the
\* consumer was ended for lagging.
OutputHandedOver ==
  \A n \in 1 .. MaxOutput :
    (consumer # "none" /\ pusher = "announce" /\ store >= n)
      ~> (sent_offset >= n \/ consumer = "killed")

\* web.rs on delta_msg: a browser that fell far behind "loses some scrollback
\* but stays live", that is, it is shown what comes later.
StaysLive ==
  \A n \in 1 .. MaxOutput :
    (sent_offset >= n)
      ~> (screen # <<>> /\ screen[Len(screen)].to >= n)

=============================================================================
