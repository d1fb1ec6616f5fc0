---------------------------- MODULE SlidingWindow ----------------------------
(***************************************************************************)
(* What the spectrum analyzer promises of its input (src/dsp/spectrum.rs): *)
(* samples queue up in the order they came, a row is transformed from the  *)
(* N oldest and moves the window by Hop, no more than Cap samples wait and *)
(* the oldest give way, counted; a reset forgets what waits.               *)
(***************************************************************************)
EXTENDS Integers, Sequences

CONSTANTS N, Hop, Cap, Item

VARIABLES
    waiting,   \* the samples fed and not passed yet, oldest first
    row,       \* the samples of the last row
    dropped    \* how many gave way

vars == <<waiting, row, dropped>>

Init == waiting = <<>> /\ row = <<>> /\ dropped = 0

Feed(x) ==
    /\ IF Len(waiting) < Cap
       THEN waiting' = Append(waiting, x) /\ UNCHANGED dropped
       ELSE waiting' = Append(Tail(waiting), x) /\ dropped' = dropped + 1
    /\ UNCHANGED row

Emit ==
    /\ Len(waiting) >= N
    /\ row' = SubSeq(waiting, 1, N)
    /\ waiting' = SubSeq(waiting, Hop + 1, Len(waiting))
    /\ UNCHANGED dropped

Reset == waiting' = <<>> /\ UNCHANGED <<row, dropped>>

Next == (\E x \in Item : Feed(x)) \/ Emit \/ Reset

Spec == Init /\ [][Next]_vars
=============================================================================
