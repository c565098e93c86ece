-------------------------- MODULE OrderedDelivery --------------------------
(***************************************************************************)
(* What crates/b3-reliable promises the code above it: "Delivered in       *)
(* order, deduplicated" (b3-reliable/README.md).  Each end hands over a    *)
(* sequence of frames and the other end is given longer and longer         *)
(* prefixes of it.  There is no network here, nothing is lost, and several *)
(* frames may be given at once (a gap that fills releases a whole run).    *)
(***************************************************************************)
EXTENDS Naturals, Sequences

CONSTANTS Peer, Frames

VARIABLES input, output

Opposite(p) == CHOOSE q \in Peer : q # p

Init ==
  /\ input = [p \in Peer |-> <<>>]
  /\ output = [p \in Peer |-> <<>>]

Extends(s, t) == Len(s) <= Len(t) /\ s = SubSeq(t, 1, Len(s))

\* The application of p hands over some more frames.
Submit(p) ==
  /\ input'[p] \in Seq(Frames)
  /\ Extends(input[p], input'[p])
  /\ input' = [input EXCEPT ![p] = input'[p]]
  /\ UNCHANGED output

\* The application of q is given some more of what the other end handed over.
Give(q) ==
  /\ Extends(output[q], output'[q])
  /\ Extends(output'[q], input[Opposite(q)])
  /\ output' = [output EXCEPT ![q] = output'[q]]
  /\ UNCHANGED input

Next == \E p \in Peer : Submit(p) \/ Give(p)

Spec == Init /\ [][Next]_<<input, output>>

=============================================================================
