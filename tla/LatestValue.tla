---------------------------- MODULE LatestValue ----------------------------
(***************************************************************************)
(* What sync/latest.rs promises its two users: a register.  The writer     *)
(* replaces the latest value, the reader replaces what it shows by the     *)
(* latest value, each in one indivisible step.  There is no backlog, the   *)
(* reader never goes back, and it never shows a mixture of two values.     *)
(***************************************************************************)
EXTENDS Naturals

CONSTANTS
    MaxGen,    \* how many values the writer ever publishes
    Image      \* Image[g] is the g-th value, as it lies in memory

VARIABLES
    latest,    \* number of the newest published value
    shown      \* the value the reader's side holds

vars == <<latest, shown>>

TypeOK ==
    /\ latest \in 0..MaxGen
    /\ shown \in {Image[g] : g \in 0..MaxGen}

Init ==
    /\ latest = 0
    /\ shown = Image[0]

Publish ==
    /\ latest < MaxGen
    /\ latest' = latest + 1
    /\ UNCHANGED shown

Fetch ==
    /\ shown' = Image[latest]
    /\ UNCHANGED latest

Next == Publish \/ Fetch

Spec == Init /\ [][Next]_vars
=============================================================================
